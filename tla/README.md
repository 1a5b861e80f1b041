# GSSR in TLA+

GSSR is a GeoGuessr-like game over panoramas of one's own buildings: a Go service
(`services/game`) plays multiplayer rooms and solo sessions, a Python service
(`services/workers`) tiles panoramas and updates ratings, a React client
(`frontend`) and an admin panel (`admin`) talk to both. This directory models the
parts whose behaviour depends on the order in which things happen, checks the
models with TLC and proves the main invariants with TLAPS.

## Inventory

| Part | State | Operations | Talks to |
| --- | --- | --- | --- |
| Room (`services/game/internal/room`) | one JSON blob `room:{id}` in Valkey, TTL 24 h; one `time.AfterFunc` timer per round in a replica's memory; rows in `matches`, `guesses` | Create, Join, Leave, Start, Guess; the timer; `advanceRound` | Valkey, Postgres, Socket.IO, `/internal/elo` |
| Solo (`.../solo`) | JSON blob `solo:{id}` in Valkey, TTL 2 h; rows in `solo_sessions`, `solo_guesses`, `users.xp` | Start, Guess, Abandon | Valkey, Postgres |
| Accounts (`.../auth`, `frontend/src/api/client.ts`, `admin/src/api/adminClient.ts`, the guards and login pages) | users, admins, e-mail tokens in Postgres; one refresh token per account in Valkey; the cookies, shared by the tabs of a browser | Login, AdminLogin, Refresh, AdminRefresh, Logout; the interceptors, which refresh on a 401 and retry | Postgres, Valkey |
| Registration (`.../auth`, `Register.tsx`, `VerifyEmail.tsx`, `app/tasks/email.py`) | the user's row and e-mail token; the mail | Register, the mail task with retries, VerifyEmail | Postgres, e-mail task |
| ELO (`services/workers/app/tasks/elo.py`) | `users.elo` | one Celery task per match: read in one transaction, write in another | Postgres, RabbitMQ |
| Panoramas (`app/api/admin_panos.py`, `app/tasks/tiling.py`, `moderation.py`) | row with `tile_status` and `moderation_status`; objects in MinIO; tasks in RabbitMQ | upload, confirm, approve, reject, retile, move, delete; tiling and moderation tasks with retries | Postgres, MinIO, RabbitMQ, admin WebSocket |
| Game client in rooms (`frontend/src/store`, `hooks/useSocket.ts`, pages `Lobby`, `Room`, `Game`, `GameOver`) | a Zustand store, the page, GETs and POSTs in flight, the socket | event handlers, page effects, buttons | Socket.IO, REST |
| Game client alone (`PlayGame`, `PlayResult`) | page state; the round's time stamp in localStorage | load, countdown, guess, continue, reload | REST of the solo sessions |
| Admin panel (`admin/src/pages`) | page state; GETs and uploads in flight; one WebSocket | maps and floors, panoramas on plans, file uploads, lists with filter, search and paging | REST of the workers, MinIO by presigned URLs, `admin_ws.py` |
| Map and admin endpoints; leaderboard, maps and profile reads; configuration | rows | single statements | Postgres |

What makes them hard:

* **Room.** Six replicas serve one room. Every handler and timer GETs the blob,
  decides, and SETs the whole blob back, with no lock, transaction or version
  check. Timers fire while requests are in flight; the last guess and the timer
  both call `advanceRound`; errors of SETs and INSERTs are dropped in places; a
  restart loses the timers; an administrator may delete a panorama in mid-game.
  A correct room: every version of it is playable (different players, at most
  `max_players`, a host who is present, a round of its own match with its own
  panorama and a token), a token names one round, guesses stay in the round
  they were made in, rounds are played in order and each once, a round that is
  open is eventually closed, and a finished game is settled in the database.
* **Solo.** The same read-modify-write shape on one session: overlapping Guess
  requests, Guess against Abandon. Correct: the total is the sum of the recorded
  rounds, XP is awarded once, an ended session stays ended.
* **Accounts.** GET and SET of the refresh token are two operations, an error of SET or
  DEL is dropped, and the refresh
  passes through the interceptor that sent it: its own 401 starts another one, and every
  refresh that succeeds on the way back rotates the token again. Tabs share cookies, and
  the game and the panel share a browser. Correct: who is signed in stays so until he
  signs out, and no longer; every call comes back to its page.
* **Registration.** Verification is two UPDATEs behind a SELECT, and links are opened
  twice. Correct: a used e-mail token has verified its user.
* **ELO.** Redelivery and overlap of tasks. Correct: a match counts once.
* **Panoramas.** Tasks that overlap with reject, delete, retile and each other.
  Correct: `tiled` means that the tiles are there; a rejected or deleted
  panorama has no files left.
* **Client in rooms.** Events reach a socket that has joined its room and no other; the
  store also takes what GETs return, which may be older; a reload forgets the store.
  Correct: when nothing is under way the store shows the room's round and players, the
  controls are locked in a round one has guessed in, and nobody is left on a page
  that no event will ever leave.
* **Client alone.** The clock is in the page and in localStorage, the round on the
  server, and answers get lost. The clock is set before the floors are fetched and runs
  after. Correct: a guess is counted for the panorama on show, and however often the
  page is reloaded, the clock is late by no more than what this one load has waited.
* **Admin panel.** No request is cancelled or compared with what was asked last, handlers
  go on after an await with the values of an old render, a GET that fails leaves what
  was there, and the status stream is subscribed late and closed at the first end,
  after which the task may be tried again. Correct: when a page waits for nothing and
  its latest GET has come it shows what the server has for what is chosen on it; of
  the files chosen none is skipped or sent twice.

`PROJECT.json` lists these hazards at their lines.

## Plan

In order of what matters most to players:

1. `RoomGame`, the room with all its overlaps (done), `RoomGameProofs` (done).
2. `RoomLifecycle`, what a room promises, and `RoomSerial`, the room without
   overlap, which keeps the promise (done); `RoomSerialProofs`, with the safety part
   of the refinement (done).
3. `SoloSession`: one session with overlapping requests; `SoloPromise`, what the
   documentation promises of it (done); `SoloSessionProofs`, with the safety part of
   the refinement for one request at a time (done).
4. `PanoPipeline`: one panorama's row, objects and tasks, `PanoPipelineProofs`
   (done). To do: the cascade of map deletion from `admin_maps.py` on top of it.
5. The clients of players: `MatchClient` (rooms), `SoloClient` (alone), composed in
   `PlayClients`; `SoloClientProofs`, `PlayClientProofs` (done).
6. `SignIn`, `Registration` and the pages of the panel (`MapUpload`, `MapPage`,
   `AdminLists`, `UserList`), composed in `DeskClients`; `SignInProofs`, `DeskProofs`
   (done).

The ELO worker is not planned any more: see the end.

Modules that carry proofs use no `RECURSIVE` operator; parameters are constants
with named assumptions.

## How the models correspond to the code

### RoomGame

`room` is the value under `room:{id}` (`RoomState` of `model.go`; `Nil` when there
is no key). Of a player only the identity is kept; the map `Guesses` is the set of
its keys `guesses`, the flags `HasGuessed` are the set `guessed`. `MaxPlayers`
never changes after Create and is a constant. `job[p]` is the program counter and
the local `state` of a process, where a process is a request slot (a goroutine
serving a request) or a timer; a timer is named by the `RoundToken` it was armed
with. A handler is cut exactly where another process can come between: at each GET
(a `...Read` action, with all the guards that precede the first write), at each
SET (`...Write`), and at each database statement whose effect something else can
see. `advanceRound` is `AdvanceRead` (the GET and the token guard), `AdvanceScore`
(panorama, scores, INSERTs, `round_ended`, flags reset in the local state),
`AdvanceNext` or `AdvanceFinish` (the SET), `CloseMatch` and `TriggerElo`. A
process may stop between any two steps only when the fault `crash` is allowed.

`matches`, `rows`, `panos` are database tables; `ended`, `stored` and `elo` only
record what has happened (announcements, guesses submitted, ELO requests) so that
properties can speak of it. `GuessColumns` is the set of columns the table
`guesses` really has; with the migrated columns the INSERT of
`handler.go:542` fails, as it does in Postgres, and its error is dropped.

`Faults` says which failures may happen: a SET that fails with or without effect,
a failing statement, a replica that dies, the key expiring, a panorama deleted.

`uuid.NewString()` is modelled by `FreshTokens`: any token nothing refers to. A
token is recycled once no version of the room, timer or process mentions it, which
keeps the set finite and cannot be told from a new one.

Not in the model: Get, the room page, LiveKit tokens and socket authentication
(they change nothing), whom an emit reaches, score values, the pause of the timer
(it may fire at any time after it is armed), Create while another room exists
(rooms share nothing but panoramas).

### RoomSerial and RoomLifecycle

`RoomSerial` restricts `RoomGame`: a request begins and a timer fires only when
nothing else is running. `RoomLifecycle` is the state machine of README section
2.6 of the repository; `RoomSerial` instantiates it with expressions over the room,
and `PlaysLifecycle` is its specification under that mapping.

### SoloSession and SoloPromise

`session` is the value under `solo:{id}`, `row` the row of `solo_sessions`,
`guesses` the rows of `solo_guesses`, `xp` what this session has added to
`users.xp`, `panos` the panoramas that exist. A request is cut at each operation
another request can see: a Guess is `GuessRead` (the GET, the SELECT of the
panorama and the score), `GuessRecord` (the INSERT, whose error is dropped, and the
decision whether the session is over), then `Progress` and `Save` (UPDATE, SET) or
`Finish`, `AwardXp` and `DropSession` (UPDATE, UPDATE, DEL); Abandon is
`AbandonRead`, `AbandonRow`, `DropSession`. `Start` happens once, since sessions
share nothing but the panoramas and the user's XP. `lost` records the rounds whose
row a failed INSERT or a deleted panorama took away, so that a property can tell a
round that is missing for a reason from one that was forgotten.

`SoloPromise` is the session of README section 3: a list of scores, a total that
follows it, an end that lasts. `Promise` in `SoloSession` maps onto it: `scores` are
the recorded guesses in the order of their rounds.

Not in the model: whose session it is (one player), distances and the community
statistics of the answer, GetSession, History and Result (they only read), the
client's countdown, and the SELECT of the panorama as a step apart from the GET.

### PanoPipeline

One panorama: `row` is its row in `panoramas` (`tile_status`, `moderation_status`),
`raw` and `files` its objects in MinIO, `queue[n]` the messages of `tile_panorama`
that wait for their n-th retry, `job[p]` what a Celery worker or an administrator's
request is doing. The statements of one request are separate steps where a task can
come between: the commit of the row, the listing of objects, the removal of each,
the raw image; a retile commits the row and then sends the task. A task is
`Begin` (the message and the UPDATE to 'tiling'), `Fetch`, `UploadPreview`, `ListOld`,
`RemoveOld` per object, `UploadTile` per tile, `UploadConfig` and `Tiled`, or from an
exception `Failed` and `Retry`. It is acknowledged at its end (`task_acks_late`), so a
worker that is lost has its message delivered again (`LoseWorker`); what nothing
catches, or a killed pool process, is acknowledged with nothing more done (`Abort`).

`crossed` is history: three things can go wrong with objects or status, each
because a task and a request, two tasks, or a failure cross; the properties say that
they hold unless one of these has happened, and nothing else spoils them.
`"removal"`: the raw image was already fetched, or was uploaded, when the panorama
was rejected or deleted, or MinIO refused a removal. `"upload"`: a task broke off
its upload while another had listed what to remove before its own. `"abort"`: a task
or retile ended where nothing was left to set the status.

An upload URL stays valid for an hour whatever becomes of the row, so `PutRaw` may come at
any time and from the start; confirming before the upload makes the task fail and
retry. The moderation task (it writes `nsfw_score`, which no decision reads) and moving a
panorama are not in the model; what a task publishes is in `MapUpload`.

### MatchClient

One browser with the server it plays on. `room` is the room this browser is in, at the
server: status, round, players, host, whether this player has guessed. How a room
handles overlapping requests is the business of `RoomGame`; here its requests run one
at a time, and all that matters is in which order it emits (`round_started` follows
`round_ended` at once, or `game_ended` does) and answers. `socket` and `wire` are the
Socket.IO connection (ordered events to the socket, if it has joined), `store` is
`gameStore.ts`, `page` the page with the room of its URL and its own state, `gets` and
`post` the requests in flight, which are served and answered as separate steps, so an
answer may reach a page that has moved on. An event is handled as in `useSocket.ts`,
with the effects of the page that follow from the new store. `missed` is history: what
went past the page, an event no socket was there for, or an answer that came too late.
Faults: `reload` (the store is lost, the page stays), `drop` (the socket is
disconnected and joins again; what was emitted meanwhile is gone), `fail` (a request
fails). Left out: the countdown shown, floors, the scores, chat, the viewer.

### SoloClient

One tab. `session` is the round the server expects (or the end), `tab` the page with
the states of `PlayGame.tsx`, `fetch` and `guess` its requests, `stamps` what
localStorage keeps per round. Loading is two steps, as in the code: `SessionRead` sets
the clock and stamps the round, `FloorsLoaded` shows the round and starts the clock;
between them time passes (`Tick` with a clock that is not running) and the page may be
reloaded. The clock runs from `Limit` to 0 in ticks that stand for seconds; `Throttled`
is a second for localStorage and not for the clock, as in a tab in the background.
History: `shown`, when a round was first on show, `counted`, what each guess was counted
for, `tab.lag`, for how long the clock has stood still since it was set, and
`tab.behind`, that the server went on without telling the page (an answer was lost, or
its request outlived a reload).

### SignIn

`Tab` is the set of tabs, of which some run the game and some the panel; `access` and
`refresh` are the cookies of the browser, by realm; `call[t]` is the HTTP call of tab t
in flight, with the level of its refresh (0 is the request itself, n the n-th refresh
of the chain), whether it is a retry, and the cookie it carries. Tokens are compared
with the stored one only, so a token is `current` or `stale`: issuing one (`Revoke`)
makes every other one of the account stale, wherever it is. Refresh is cut between its GET
(`RefreshCheck`) and SET (`RefreshIssue`). The errors of SET and DEL that the code drops
are `NotStored` (the token is handed out, the one before stays stored) and `NotDeleted`
(the cookies are cleared, the token stays stored); `Lost` is an error of the server, or
a request or answer lost, a refresh whose new token is stored already included.
`signed` is history: how the session should be, `unsure` after a sign-in elsewhere, an
overlap of two calls that issue, a token not stored or deleted, or one that got lost; the
next login or logout makes it sure again.

### Registration

One account: `form` and `visits` are the pages, `account` and `link` the rows, `mail` the
task with its retries. `VerifyEmail` is cut at each of its three statements; the link in
the mail leads to it directly (`email.py:37`).

### MapUpload, MapPage, AdminLists, UserList

Four parts of the panel. `MapUpload` is the upload section of `MapDetail.tsx` with its
handler as it continues after each await, for a form of one file and for a batch;
`tile` is the row's status, `task` the Celery task behind it, `news` the end that is on
its way to the WebSocket. A task that fails says so and may be tried again (`TaskEnds`,
`TriesAgain`), one that is over may be delivered again (`Redelivered`), and one may end
with nothing published (`TaskDies`: a killed worker, a statement outside of the try
block, a failing PUBLISH). The socket sends one end and closes. That two runs of a task
overlap is in `PanoPipeline`.

`MapPage` is the rest of `MapDetail.tsx`: floors, the selected one, panoramas and their
positions, with the endpoints of `admin_maps.py` and `admin_panos.py`. In both modules a
handler keeps the values of the render that made it. A GET may fail (`LoadFails`: what
was shown stays), a request may fail before anything is done (`FailAction`) and after
(`AnswerLost`): the answer is lost, or the PUT or the confirmation of an upload fails
whose row `get_upload_url` has committed; nothing is loaded then. `odd` is history: what
the page may be behind with. The next answer that is the latest version clears it again.

`AdminLists` stands for Panoramas, Maps, Admins, Dashboard, Leaderboard and UserSearch (a
page that no route shows any more), which share one shape: a GET per filter, a change,
and a reload or a patch of the rows. `UserList` stands for Users, with its pages,
search, filter and reloads; ban and unban are what the row shown asks for, whatever the
server has by then. In both, GETs and requests fail and answers to what was done are
lost (`FetchFails`, `AnswerToChangeLost`, `UsersFail`, `RequestFails`), after which the
rows may be those of another query until the next GET.

### PlayClients and DeskClients

A player's pages for rooms and alone share only Lobby, and the pages beside the game
share nothing but the server, so a behaviour of `PlayClients` is of one of the two and
one of `DeskClients` of one of the six pages, while the others stay as they were
opened. The two modules are the union of their parts, not their product: one
specification, with the fairness of all parts, which the runs check.

## Runs

| Run | Question |
| --- | --- |
| `room_core` | Do typing and the four invariants hold with a request overlapping timers, over two rounds? With fair goroutines and timers: does an armed timer close its round, is a finished match settled? |
| `room_faults` | Two overlapping requests, failing SETs, dying replicas, an expiring key, deleted panoramas: does every version of the room stay coherent? |
| `room_serial` | Without overlap, until the key expires: does the room keep every documented promise, and implement `RoomLifecycle`? |
| `room_double_advance` | With overlap: is a round announced once, as `handler.go:494` says? TLC shows how it is announced twice. |
| `room_scores` | Does an announced round have its scores in the database? With the migrated table it has none. |
| `solo_core` | Two overlapping requests and all failures: do session, total and recorded rounds fit together? |
| `solo_serial` | One request at a time: does a session keep what README section 3 promises, and implement `SoloPromise`? |
| `solo_xp` | With overlap: is the XP of a finished session its total / 1000? TLC shows how the two part. |
| `pano_core` | Two tasks overlap with each other and with retile, reject and delete, and everything may fail: is what is tiled complete, what is removed gone, no status stuck? With fair workers: does a task that fails, is retried and is redelivered come to an end? |
| `pano_reject` | Are the tiles of a rejected panorama deleted, as `docs/steps/06-admin-panel.md:73` says? TLC shows a task that uploads them afterwards, without any failure. |
| `client_play` | A player's pages against events, answers and reloads in any order: does the game show the room's round and players, is he locked in a round only when he has guessed in it, is a solo guess counted for the panorama on show, does the time a clock has stood still not add up over reloads? Does he always get out of where he is, and is a round he leaves alone submitted? |
| `client_desk` | Two tabs of one browser, the link of the mail opened twice, and an administrator who does not wait: do sessions follow the user, has a used link verified its user, are all files sent, once, and do the pages settle on what the server has, whatever is lost on the way? Does every call come back and every upload end? |

Bounds. Two players are enough for a last guess, a host who leaves and a player who is
overwritten; `RoomSerial` has three, one more than fit. In `room_core` one player and
one slot against up to three timers overlap a request with timers of earlier rounds,
and two panoramas fill two rounds: a first, a transition and a last. In `room_faults`
two slots overlap requests under all failures but those of database statements, and
one panorama is too few for two rounds; the theorems below cover both. `RoomSerial`
has three rounds. In `solo_core` three rounds are asked for and two panoramas exist,
so a session has one or two rounds, or none can start; scores are the extremes 0 and
5000, and in the other solo runs 700 too, which alone gives no XP. `MaxXp` ends
guessing after the session has earned that much: a DEL that fails lets the last round
be played, and paid, again and again. `MaxMatches` bounds the Starts in one room: one,
and two in `room_serial`. Overlapping Starts, which insert two matches, are left to
the theorems, which hold for any number. In the runs of `PanoPipeline` two workers
overlap with one request at a time; one tile is enough, since with the config it can
be there or not, and be removed before or after; `MaxRetries` 1 (3 in the code) has a
first try, a retry and an end; `MaxAsked` bounds the tasks asked for and `MaxLost` the
workers lost. Deadlock is not checked: a room that is finished or deleted with nobody
asking is a legitimate end, and so are workers with no messages and pages on which
nobody does anything.

In `client_play` a match has two rounds, so that a late answer meets the next round
and a late event the end of the game; one other player joins, leaves, hosts and
guesses; `MaxWire` 2 events may be under way and `MaxShown` 2 entries of one list (a
player twice) are kept. One room at a time: the invariants of `MatchClient` were also
checked with two rooms, where answers and events of an earlier room arrive in a later
one; that run takes longer than a run of this project should. A solo session has three
rounds and three seconds a round: a first, a middle and a last of each. In
`client_desk` there are two tabs, both of the game or one of the game and one of the
panel, and nginx lets `Burst` 2 refreshes through; the link is visited twice; the mail
is retried three times, as in the code; one file goes through the form and two through
a batch, chosen at any time; the task of a panorama runs twice (`MaxTries` 1: a first run
and one more, retried or delivered again; in the code there are four runs and any number
of deliveries); a map has up to two floors and one panorama and is changed three times;
lists have two items and two GETs, users three GETs and come on pages of one. A page
whose bound is reached asks no more, so nothing is lost there that no GET could follow:
`FetchFails`, `AnswerToChangeLost`, `UsersFail` and `RequestFails` leave room for one. A
call that is lost before it was served is not served afterwards.

Symmetry is used in runs without liveness only; all properties treat players,
slots, tokens and panoramas alike.

Fairness. A goroutine that has work is scheduled and a timer that is due is run:
weak fairness per process and per timer. Users are under no obligation. In
`RoomSerial` requests may come without end, so a timer's turn (`Quiet /\ Fire`)
comes by strong fairness; this stands for the real service serving both, not for
a scheduler that prefers requests. In `solo_serial` each request that has work is
scheduled (weak fairness of `Work`); nobody has to make another. In `pano_core` a
worker with a message works on it and a request is served (weak fairness of `Work` and
`Serve`): Celery takes messages as long as there are any. Failures are never forced.

Clients. A request that is sent is served or fails, and its answer is handled
(`MatchFairness`, `SoloFairness`, `DeskFairness`: weak fairness of
exactly these steps, in which no user takes part; a failing Valkey and a lost answer
are never forced, and neither is a task that dies or is delivered again); a socket that is connected joins
its room; events are delivered; the timer of a round closes it; a clock runs. No click
is ever forced; a player does not reload the page for ever, though, since then no
answer would reach it (`SettlesDown`, `SoloSettles`).

## What the runs show

The invariants hold however requests, timers and failures overlap: since a SET
replaces the whole blob, every version is one that some sequence of operations
produced, and no interleaving tears it. What overlap does break is the relation
between a version and the ones before it:

* A round is announced twice when the timer and the last guess (or two timers) both
  pass the token check (`room_double_advance`; `handler.go:494` says this is
  prevented).
* A Join that read the lobby undoes a Start, of two Joins one is lost although both
  were answered 200, and a late write restores a round whose timer is gone. These
  are `PlaysLifecycle`, `RemovedByLeaveOnly` and `RoundEventuallyCloses`: they
  are checked where they hold, in `room_serial`; as the PROPERTY of a `.cfg` such as
  `RoomDoubleAdvance.cfg`, over `FairSpec` and with two slots, TLC refutes each of them.
* No row is ever saved in `guesses`, because the INSERT names the columns `x` and `y`
  while the table has `guess_x` and `guess_y` (`room_scores`).

`room_serial` shows that the design itself is sound: the same handlers, run one at
a time, never announce a round twice, skip none, lose no player and always finish.

The solo session is the same story in small. `solo_core`: whatever overlaps or fails,
a session's round indexes its panoramas, no total exceeds what its rounds can give,
and no round is missing without a cause. `solo_xp`: two Guess requests of the last
round both finish the session, so XP is awarded twice, or a late UPDATE replaces the
total XP was awarded for. `solo_serial`: without overlap XP follows the total, an
ended session is gone from Valkey, and the handlers implement
`SoloPromise`, where an end lasts.

Panoramas: `pano_core` shows that the cleanup before each upload and the retries do
their work: overlapping, repeated and redelivered tasks leave a complete set of tiles
behind a status 'tiled', and a task that starts after a rejection or deletion leaves
nothing. What breaks it is the crossing in the history; the one without any failure is
`pano_reject`. The model also shows two dead ends of moderation: `approve` can
only ever write what is there, since rows are made 'clean' and only a rejection
changes that, and so the list of panoramas that await review
(`admin_panos.py:97`) is always empty.

Clients in rooms: `client_play` shows that pages and store agree with the server as long
as no event goes past them, and where they stop agreeing otherwise. Each exception in a
property is a behaviour of the code, and the run fails without it:

* An event emitted while no socket of the page has joined is lost for good: after a
  reconnection `useSocket.ts` fetches nothing (`docs/steps/05-frontend.md:92` says it
  refetches the room's state). A player who reloads in the last round, gets the answer
  "active" and joins after `game_ended` stays on the game page.
* The answer of a guess locks the controls of whatever round is shown when it comes,
  and the request names no round. The next `round_started` unlocks them.
* A GET of the room an earlier page sent replaces map and players of the next room; a
  late GET of the game page navigates wherever the player is by then.
* A player who becomes host because the host left is offered Start after a reload
  only. `hasGuessed` is set by `guess_broadcast` and read by no page.

Clients alone: a POST that fails leaves the clock stopped, so the round waits for the
player; after a lost answer the retry is counted for a panorama the player has not
seen, and if it was the last answer only a reload shows the result. The clock is set from
localStorage before the floors are fetched and starts after, so a page whose floors come
late shows more than is left; since the next load computes it anew from the first stamp,
reloads do not add up: a clock is never late by more than the seconds it stood still
since it was set.

Signing in: chains of refreshes end, and leave the browser with the token they brought
last, however often they rotated it. On the way the run shows what the interceptor
does to a wrong password: its 401 starts refreshes until nginx answers 429, and the
page is loaded anew without the error that `Login.tsx` has for it. Signing out of the
panel while a player is signed in revokes the player's token and not the
administrator's; a refresh that had compared its token before a logout revives the
session after it. A token whose SET failed is handed out all the same and ends the
session at the next refresh, and a DEL that failed lets the refresh cookie, which a
logout does not clear, bring the session back.

Registration: a request cut off between the two statements of `VerifyEmail` leaves a
used link and an address that is never verified, as no second mail can be asked for. A
registration whose answer was lost is refused on retry, since the name is taken.

The panel: a choice of files made during an upload is cleared or started at the wrong
file when that upload ends; news of an earlier panorama takes the line of the one named; a
status published before the WebSocket subscribes is lost, or never published when the
worker is killed, and the page says "tiling" until it is closed. "Tiling failed" may
stand beside a panorama that is tiled by now: the page and `admin_ws.py` close the socket
at 'failed', and `tiling.py:207` tries again after that. A page settles on what the
server has as soon as the latest GET of what is shown on it has come. Until then it may be
behind, with nothing on it that says so: after a GET or an answer that was lost (Users and
`loadPanos` catch no error), an older answer that came last, or a handler that filtered by
what was chosen before. An upload whose PUT or confirmation fails leaves a row that the
page does not load.

Beside these, documents and code disagree where no run was spent on it: the guess is
kept by the page and not in `gameStore.myGuess` (`docs/steps/05-frontend.md:72`);
there is one refresh token per user and not one per device, under `refresh:{user_id}`
and not `refresh:{user_id}:{token_hash}` (`docs/steps/03-game-service.md:66`), so a
second sign-in ends the first; and the progress of tiling comes from the WebSocket,
nothing polls it (`docs/steps/06-admin-panel.md:63`).

## What is proved

`RoomGameProofs` proves, for all players, slots, tokens, panoramas, rounds and
matches, with every failure allowed, and from `RoomAssumption` alone:
`TypeOK`, `RoomCoherent`, `TokenNamesRound`, `GuessesOfThisRound` and
`NoRoundSkipped`.

None of them is inductive by itself: a process may hold a version of the room for
a long time and write it back, so the invariant must speak of every version in
flight (`Versions`), not of the stored room alone. `IndInv` says: every version
is `Good` (typed, seated, on its round, earlier rounds announced, guesses
submitted); tokens name rounds; each process is `Justified` in what it is about to
do (a Join still has a seat in the version it holds, a process about to open round
r+1 holds round r announced and its guesses cleared, one about to close a match
has seen all its rounds announced); and closed matches were announced in full.
The proof has one lemma per way of making a version (Join, Leave, Start, Guess,
timer, the next round, the end), each saying that a good version becomes a good
one, lemmas that good versions and justified processes stay so when matches,
announcements and guesses grow, and one step per action.

`SoloSessionProofs` proves `TypeOK`, `SessionCoherent`, `TotalWithinReach` and
`RoundsRecorded` from `SoloAssumption`, for any number of overlapping requests, any
panoramas, rounds and scores and all failures. The properties speak of sessions;
the inductive invariant also needs to know what a request may do next: `Fits` says
that a session counts n rounds of the row's game, its total is at most 5000 n and
the rounds 1..n are accounted for, `JobFits` that a request about to open the next
round is not at the last and one about to finish is, `RowFits` that a finished row
has all its rounds. Rounds accounted for (`Accounted`) only grow, which is why a
session written back late is still fit.

`PanoPipelineProofs` proves `TypeOK`, `TiledIsComplete`, `NoStuckStatus` and
`RemovalIsComplete` from `PanoAssumption`, for any number of workers, requests, tiles,
retries and tasks and with all failures. The properties speak of the time when
nothing is running; the inductive invariant says why they will be true then:
`StatusIsDriven` that somebody will set a status that is not final,
`RemovalUnderWay` that of a panorama that is gone somebody still removes each object there
is, `OneLeads` that of the tasks that upload one, the last to have cleaned up, puts
in place all that is missing, and `CompleteOrDriven` that 'tiled' is either true or not
the last word. There is one lemma per part and kind of process, with one step per action.

`SoloClientProofs` proves `SoloTypeOK`, `SoloInStep` and `ClockNotExtended` from
`SoloClientAssumption`, for any number of rounds and any time limit, with reloads and
lost requests. What makes them inductive: which page can be in which state, with which
requests open (`Pages`); a stamp in localStorage is at least as old as the round has been
on show, no round later than the session's has one, and a clock that waits for the
floors was set from its stamp (`Clocks`); a page that is not
behind leads to the session's round in each of its phases, the answer under way
included (`Rounds`).

`SignInProofs` proves `SessionFollowsUser` from `SignInAssumption`, for any tabs and
chains of any length. The property speaks of a browser at rest; the invariant says
where the stored token is meanwhile: of a live session in the browser or in an answer
on its way there (`LiveIsHeld`), of an ended one in neither, nor carried by any
request (`EndedIsNot`), and only answered calls bring tokens (`CallsFit`). The central
lemma, `RevokeStep`, is about a token that changes hands; login, logout and refresh
are instances of it.

`RoomSerialProofs` is about the room without overlap. That only a player's own leave
takes the player out (`RemovedByLeaveOnly`) holds whatever fails; `OpenRoundIsDriven`,
`OneMatch`, `NoDoubleAdvance` and the refinement assume `NothingFails`: no SET and no
statement fails, which is what the README promises for and what its runs set. The
invariant is that of `RoomGameProofs` with two parts more. `Alone`: one process works
at a time, and the version it holds is the stored room or what it is about to make of
it. `InOrder`: at most one match, with exactly the rounds announced that the stored
room has behind it, and an open round with somebody to close it.
`RoomsFollowTheLifecycle` then shows every step of the room to be one step of
`RoomLifecycle` under the mapping of `RoomSerial`, or none.

`SoloSessionProofs` does the same for solo sessions served one at a time of which
nothing fails. `InHand` says what a request at work knows of the row and the XP, and
`AtRest` what a request finds that arrives; `XpFollowsTotal` and `NothingLeftBehind`
follow. `PromiseInv` adds that the rounds 1..n have one guess each and that session,
row and request agree on n and on the sum of the scores, before the guess or after it.
`SessionsKeepTheirPromise` shows every step to be one of `SoloPromise` or none.

`PlayClientProofs` proves `GameInStep`, `PlayersShown`, `LockedByGuess` and `PlayTypeOK`
of the composed clients of a player, with every fault. The properties speak of a client
for which nothing is on its way; the invariant `MatchInv` says what is on its way. The
wire is all that was emitted since the socket joined: rounds in order, the last start
that of the room's round (`Wires`); a game page whose wire tells of no round shows the
one that is played (`RoundShown`); the list of players becomes the room's once the
events on the wire are handled (`Follows`); a guess that locks the page was made in the
store's round, or its answer is known to have come late (`Locked`); of the GETs under
way, which may still navigate or replace the list (`Fetches`, `Fetched`, `MapKnown`).
Each part is excused exactly by the event in `missed` that its property names.

`DeskProofs` proves `PagesInStep` and `DeskTypeOK` of the pages beside the game, and
`UsedMeansVerified` and `UploadInStep` of two of them by themselves. Each page has an
invariant of its own:

* registration: behind a used link there is a visit about to verify, a verified user,
  or a visit that was cut off (`Marked`), for any number of visits at once;
* uploads: no file under way is forgotten, it is the one at the index of the choice it
  came from (`SameChoice`) or in none of the files chosen since (`OtherChoice`); the
  news that a panorama is tiled is its final status at the server but for a task delivered
  again, and the news that it failed is its status or the task has run once more (`News`);
* the map page: every answer is a version of the floors or panoramas the server had
  (`Versions`), floors that were deleted do not come back (`FloorsKnown`), and the
  version of now is on the page, in an answer not yet overtaken, behind a change that
  is followed by a GET, or known to have been lost (`MapComes`, `PanosCome`);
* the lists and the users: the GET sent last is for what is chosen, was sent after the
  last change, or another is to follow (`Newest`, `FetchedRows`, `LatestAsked`), and the
  page of users on show exists (`OnAPage`).

`DeskInv` is their conjunction with the one of `SignInProofs`. A step of one page leaves
the others where they are, so each invariant is kept by the steps of all.

Sums, filtered lists and greatest numbers are proved about by induction.
`NatLessThanWellFounded` and `WFMin` of the library give the least element of a set of
naturals, and with it induction for a set (`SetInduction`, `RoundInduction`); the
solution of a recursive function up to n is then shown to exist and be unique (`Keeps`
for `Filtered`, `Adds` for the sum of `SoloPromise`).

Only model-checked: liveness (`ArmedTimerClosesRound`, `FinishedMatchSettles`,
`RoundEventuallyCloses`, `TasksEnd`, `NobodyIsStuck`, `LeftAloneIsSubmitted`,
`DeskSettles`), which is outside what TLAPS proves here, and with it the fairness that
`PlaysLifecycle` and `KeepsPromise` ask of the implementation: the theorems cover their
safety part (`Safety` of `RoomLifecycle` and `SoloPromise`). The properties of the runs
that expect a violation do not hold and have no theorem.

The theorems of `SoloClientProofs` and `SignInProofs`, and `UsedLinkVerified` and
`UploadStaysInStep` of `DeskProofs`, are about each component's own specification;
`SoloStaysInStepInPlay` and `DeskKeepsItsParts` carry them over to the compositions that
the runs check, which the other theorems of those two modules are about anyway.

## What is not modelled

* ELO: the ratings are floating-point arithmetic over an SQL aggregate; that they are
  asked for once a match is closed is `FinishedMatchSettles`. That a redelivered task
  counts a match twice follows from `elo.py` at once, for nothing records what was
  counted.
* Scoring is a floating-point formula with unit tests.
* The moderation task writes a score that nothing reads; deleting a map and the
  objects under it; `preview.jpg`, which the cleanup of `tiling.py:162` removes after
  the same task uploaded it.
* Two tabs on one solo session, which share the stamps; the expiry of a refresh token
  by age; the text check of names; the texts of forms.
* Display: countdowns, floors, scores, the panorama viewer, the floor selector.
* The leaderboard, map and profile handlers only read or run single statements; the
  Socket.IO adapter, deployment files, `generate.py` and vendored modules are not this
  project's logic.
