------------------------------ MODULE RoomGame ------------------------------
(***************************************************************************)
(* One multiplayer room of the game service                                *)
(* (services/game/internal/room).  The whole room is one JSON blob in      *)
(* Valkey.  Six replicas of the service serve requests concurrently, and   *)
(* every handler and every round timer GETs the blob, decides, and later   *)
(* SETs the whole blob back: there is no lock, transaction or version      *)
(* check.  A process is therefore a step that reads and later steps that   *)
(* write what was read back, and any other process may run in between.     *)
(***************************************************************************)
EXTENDS Integers, FiniteSets, SequencesExt

CONSTANTS
  User,         \* players who call the REST API
  Slot,         \* requests that can be in flight at once, over all replicas
  Token,        \* RoundToken values, each also naming the timer armed with it
  Pano,         \* panoramas of the room's map
  Nil,          \* no room, no user, no panorama or no token
  MaxPlayers,   \* max_players of the create request
  Rounds,       \* rounds of the create request
  MaxMatches,   \* bound on the matches started in this room
  GuessColumns, \* the columns of table guesses, as migrated
  Faults        \* the failures that may happen, a subset of FaultKind

FaultKind == {"set", "db", "crash", "expire", "panoDelete"}

ASSUME RoomAssumption ==
  /\ Nil \notin User \cup Token \cup Pano
  /\ Slot \cap Token = {}
  /\ IsFiniteSet(Pano)
  /\ MaxPlayers \in Nat \ {0}
  /\ Rounds \in Nat \ {0}
  /\ MaxMatches \in Nat
  /\ Faults \subseteq FaultKind

VARIABLES
  room,     \* the blob under room:{id}, or Nil when there is none
  job,      \* what each request slot and each timer is doing
  matches,  \* rows of table matches of this room, in order of insertion
  rows,     \* rows of table guesses of these matches
  panos,    \* panoramas that exist, are tiled and are clean
  ended,    \* <<match, round>> whose round_ended was broadcast
  stored,   \* <<match, round, user>> whose guess was SET into the blob
  elo       \* matches whose ELO update was requested from the workers

vars == <<room, job, matches, rows, panos, ended, stored, elo>>
database == <<matches, rows, panos>>
history == <<ended, stored, elo>>

Proc == Slot \cup Token
Status == {"waiting", "active", "finished"}

RoomState == [host: User, players: Seq(User), guessed: SUBSET User,
              guesses: SUBSET User, status: Status, rounds: Nat, round: Nat,
              pano: Pano \cup {Nil}, panos: Seq(Pano),
              token: Token \cup {Nil}, match: Nat]

ASSUME NoRoomAssumption == Nil \notin RoomState

\* A process does nothing, is a timer that waits, serves user's request or
\* opens or resolves a round with version snap of the room in its hands, is
\* about to resolve the round of a token, or closes a match.
Idle == [pc |-> "idle"]
Armed == [pc |-> "armed"]
Serve(pc, u, s) == [pc |-> pc, user |-> u, snap |-> s]
Resolve(pc, s) == [pc |-> pc, snap |-> s]
Advance(t) == [pc |-> "advance", token |-> t]
Close(pc, m) == [pc |-> pc, match |-> m]

Served == {"join", "leave", "guess"}
Resolved == {"start", "launch", "timeout", "score", "next", "finish"}
Closed == {"close", "elo"}

\* A waiting room has Players = [host], no round, no token and no match.
NewRoom(h) ==
  [host |-> h, players |-> <<h>>, guessed |-> {}, guesses |-> {},
   status |-> "waiting", rounds |-> Rounds, round |-> 0, pano |-> Nil,
   panos |-> <<>>, token |-> Nil, match |-> 0]

Init ==
  /\ room \in {NewRoom(h) : h \in User}
  /\ job = [p \in Proc |-> Idle]
  /\ matches = <<>>
  /\ rows = {}
  /\ panos = Pano
  /\ ended = {} /\ stored = {} /\ elo = {}

-----------------------------------------------------------------------------
(* Processes and the store.                                                *)

\* Process p turns to j.
Turn(p, j) == job' = [job EXCEPT ![p] = j]
Done(p) == Turn(p, Idle)

\* A SET or DEL may fail, and then it may or may not have reached Valkey.
SetOk(new) == room' = new
SetError(new) == "set" \in Faults /\ room' \in {room, new}

\* Every version of the room a process may still read or write.
Holders == {p \in Proc : job[p].pc \in Served \cup Resolved}
Versions == ({room} \ {Nil}) \cup {job[p].snap : p \in Holders}

\* uuid.NewString(): a token no version of the room holds, no timer waits for
\* and no process is about to resolve.  Recycling the rest keeps Token finite.
FreshTokens ==
  {t \in Token : /\ job[t] = Idle
                 /\ \A s \in Versions : s.token # t
                 /\ \A p \in Proc : job[p] # Advance(t)}

AllGuessed(s) == ToSet(s.players) \subseteq s.guessed

-----------------------------------------------------------------------------
(* Join.                                                                   *)

JoinRead(p, u) ==
  /\ job[p] = Idle
  /\ room # Nil
  /\ room.status = "waiting"
  /\ Len(room.players) < MaxPlayers
  /\ u \notin ToSet(room.players)
  /\ Turn(p, Serve("join", u, room))
  /\ UNCHANGED <<room, database, history>>

JoinWrite(p) ==
  LET joined == [job[p].snap EXCEPT !.players = Append(@, job[p].user)] IN
  /\ job[p].pc = "join"
  /\ SetOk(joined) \/ SetError(joined)
  /\ Done(p)
  /\ UNCHANGED <<database, history>>

(* Leave.  The handler does not look whether the user is in the room.      *)

\* Mutant: the last player goes, whoever asked.
WithoutLast(ps, u) == SubSeq(ps, 1, Len(ps) - 1)

\* ps without u, who occurs in it at most once.
Without(ps, u) ==
  IF u \in ToSet(ps) THEN RemoveAt(ps, CHOOSE i \in DOMAIN ps : ps[i] = u) ELSE ps

\* Mutant: the room is kept when the last player leaves, with no host.
LeftRoomKept(s, u) ==
  LET ps == Without(s.players, u) IN
  [s EXCEPT !.players = ps, !.guessed = @ \ {u},
            !.host = IF @ # u THEN @ ELSE IF ps = <<>> THEN Nil ELSE Head(ps)]

\* The state with u gone: Nil when nobody is left, else with a host who is
\* still there.  HasGuessed goes with the player, the guess itself stays.
Left(s, u) ==
  LET ps == Without(s.players, u) IN
  IF ps = <<>> THEN Nil
  ELSE [s EXCEPT !.players = ps,
                 !.guessed = @ \ {u},
                 !.host = IF @ = u THEN Head(ps) ELSE @]

LeaveRead(p, u) ==
  /\ job[p] = Idle
  /\ room # Nil
  /\ Turn(p, Serve("leave", u, room))
  /\ UNCHANGED <<room, database, history>>

LeaveWrite(p) ==
  LET left == Left(job[p].snap, job[p].user) IN
  /\ job[p].pc = "leave"
  /\ SetOk(left) \/ SetError(left)
  /\ Done(p)
  /\ UNCHANGED <<database, history>>

-----------------------------------------------------------------------------
(* Start: read the room, draw panoramas and insert the match, SET the room *)
(* with its first round, arm the timer.                                    *)

StartsInFlight == {p \in Slot : job[p].pc = "start"}

StartRead(p, u) ==
  /\ job[p] = Idle
  /\ room # Nil
  /\ room.host = u
  /\ room.status = "waiting"
  /\ Len(matches) + Cardinality(StartsInFlight) < MaxMatches
  /\ Turn(p, Resolve("start", room))
  /\ UNCHANGED <<room, database, history>>

\* ORDER BY RANDOM() LIMIT n: as many different panoramas as there are, up to n.
Draws(n) ==
  LET k == IF Cardinality(panos) < n THEN Cardinality(panos) ELSE n
  IN Injection(1..k, panos)

\* Mutants: Rounds stays what was asked for; the room stays waiting.
StartedRoundsAsked(s, qs, m, t) ==
  [s EXCEPT !.status = "active", !.panos = qs, !.round = 1, !.pano = qs[1],
            !.match = m, !.token = t, !.guesses = {}, !.guessed = {}]
StartedWaiting(s, qs, m, t) ==
  [s EXCEPT !.rounds = Len(qs), !.panos = qs, !.pano = qs[1], !.token = t,
            !.guesses = {}, !.guessed = {}]

\* The room at the start of a match over the panoramas qs.
Started(s, qs, m, t) ==
  [s EXCEPT !.rounds = Len(qs), !.status = "active", !.panos = qs, !.round = 1,
            !.pano = qs[1], !.match = m, !.token = t, !.guesses = {}, !.guessed = {}]

StartInsert(p) ==
  /\ job[p].pc = "start"
  /\ \E qs \in Draws(job[p].snap.rounds) : \E t \in FreshTokens :
       /\ qs # <<>>
       /\ matches' = Append(matches, [status |-> "active", rounds |-> Len(qs)])
       /\ Turn(p, Resolve("launch", Started(job[p].snap, qs, Len(matches) + 1, t)))
  /\ UNCHANGED <<room, rows, panos, history>>

\* No panorama is ready, or a query fails: the room is left as it was.
StartRefused(p) ==
  /\ job[p].pc = "start"
  /\ panos = {} \/ "db" \in Faults
  /\ Done(p)
  /\ UNCHANGED <<room, database, history>>

\* Mutant: no timer is armed.
DoneUnarmed(p, s) == Done(p)

\* Done(p) and time.AfterFunc for the round of s.
DoneAndArm(p, s) == job' = [job EXCEPT ![p] = Idle, ![s.token] = Armed]

StartWrite(p) ==
  LET started == job[p].snap IN
  /\ job[p].pc = "launch"
  /\ \/ SetOk(started) /\ DoneAndArm(p, started)
     \/ SetError(started) /\ Done(p)
  /\ UNCHANGED <<database, history>>

-----------------------------------------------------------------------------
(* Guess, and the round timer.  Either may find that the round is over and *)
(* goes on to advanceRound with the state it has just written.             *)

GuessRead(p, u) ==
  /\ job[p] = Idle
  /\ room # Nil
  /\ room.status = "active"
  /\ u \in ToSet(room.players) \ room.guessed
  /\ Turn(p, Serve("guess", u, room))
  /\ UNCHANGED <<room, database, history>>

GuessWrite(p) ==
  LET u == job[p].user
      s == job[p].snap
      new == [s EXCEPT !.guesses = @ \cup {u}, !.guessed = @ \cup {u}] IN
  /\ job[p].pc = "guess"
  /\ \/ /\ SetOk(new)
        /\ Turn(p, IF AllGuessed(new) THEN Advance(s.token) ELSE Idle)
     \/ SetError(new) /\ Done(p)
  /\ stored' = stored \cup {<<s.match, s.round, u>>}
  /\ UNCHANGED <<database, ended, elo>>

\* Mutant: whatever the status.
RoundOfToken(t) == room # Nil /\ room.token = t

\* The stored room is in the round token t was made for.
RoundOpen(t) == room # Nil /\ room.token = t /\ room.status = "active"

\* The timer armed with token t fires and finds its round still open.
TimerFire(t) ==
  /\ job[t].pc = "armed"
  /\ RoundOpen(t)
  /\ Turn(t, Resolve("timeout", room))
  /\ UNCHANGED <<room, database, history>>

\* The timer armed with token t fires and finds another round, or no game.
TimerStale(t) ==
  /\ job[t].pc = "armed"
  /\ ~RoundOpen(t)
  /\ Done(t)
  /\ UNCHANGED <<room, database, history>>

\* Mutant: the timer marks the players and leaves it at that.
TimerMarks(t) ==
  LET new == [job[t].snap EXCEPT !.guessed = ToSet(job[t].snap.players)] IN
  /\ job[t].pc = "timeout"
  /\ SetOk(new) /\ Done(t)
  /\ UNCHANGED <<database, history>>

TimerWrite(t) ==
  LET new == [job[t].snap EXCEPT !.guessed = ToSet(job[t].snap.players)] IN
  /\ job[t].pc = "timeout"
  /\ \/ SetOk(new) /\ Turn(t, Advance(new.token))
     \/ SetError(new) /\ Done(t)
  /\ UNCHANGED <<database, history>>

-----------------------------------------------------------------------------
(* advanceRound, run by the request slot of the last guess or by a timer.  *)

\* The guard: the room is read again and must still hold the round's token.
AdvanceRead(p) ==
  /\ job[p].pc = "advance"
  /\ RoundOpen(job[p].token)
  /\ Turn(p, Resolve("score", room))
  /\ UNCHANGED <<room, database, history>>

AdvanceStale(p) ==
  /\ job[p].pc = "advance"
  /\ ~RoundOpen(job[p].token)
  /\ Done(p)
  /\ UNCHANGED <<room, database, history>>

\* The columns the INSERT into guesses names.
InsertColumns == {"match_id", "user_id", "panorama_id", "round", "x", "y",
                  "guess_floor_id", "score", "distance"}

\* The rows one INSERT per player adds for the round of s; ON CONFLICT DO
\* NOTHING is set union.  The error of each INSERT is dropped, so an INSERT
\* Postgres refuses saves nothing and the round goes on.
RoundRows(s) ==
  IF InsertColumns \subseteq GuessColumns
  THEN {[match |-> s.match, round |-> s.round, user |-> u, pano |-> s.pano] :
          u \in ToSet(s.players)}
  ELSE {}

\* Mutant: only the HasGuessed flags start afresh.
FlagsCleared(s) == [s EXCEPT !.guessed = {}]

\* Guesses and HasGuessed start afresh.
NobodyGuessed(s) == [s EXCEPT !.guesses = {}, !.guessed = {}]

\* Mutant: off by one, the last round is not played.
AfterRoundEarly(s) == IF s.round + 1 < s.rounds THEN "next" ELSE "finish"

\* The next round if there is one, else the end of the game.
AfterRound(s) == IF s.round < s.rounds THEN "next" ELSE "finish"

\* Each guess is scored and saved and round_ended is broadcast; the state in
\* hand is made ready for the next round, or for the end of the game.
AdvanceScore(p) ==
  LET s == job[p].snap IN
  /\ job[p].pc = "score"
  /\ s.pano \in panos
  /\ rows' \in {rows \cup new : new \in IF "db" \in Faults THEN SUBSET RoundRows(s)
                                                           ELSE {RoundRows(s)}}
  /\ ended' = ended \cup {<<s.match, s.round>>}
  /\ Turn(p, Resolve(AfterRound(s), NobodyGuessed(s)))
  /\ UNCHANGED <<room, matches, panos, stored, elo>>

\* The panorama cannot be read: advanceRound returns, saying nothing.
AdvanceLost(p) ==
  /\ job[p].pc = "score"
  /\ job[p].snap.pano \notin panos \/ "db" \in Faults
  /\ Done(p)
  /\ UNCHANGED <<room, database, history>>

\* Mutants: the panorama, or the token, is kept from round to round.
AdvanceNextOldPano(p) ==
  /\ job[p].pc = "next"
  /\ \E t \in FreshTokens :
       LET next == [job[p].snap EXCEPT !.round = @ + 1, !.token = t] IN
       SetOk(next) /\ DoneAndArm(p, next)
  /\ UNCHANGED <<database, history>>
AdvanceNextOldToken(p) ==
  LET s == job[p].snap
      next == [s EXCEPT !.round = @ + 1, !.pano = s.panos[s.round + 1]] IN
  /\ job[p].pc = "next"
  /\ SetOk(next)
  /\ DoneAndArm(p, next)
  /\ UNCHANGED <<database, history>>

\* The error of the SET is dropped: the timer is armed either way.
AdvanceNext(p) ==
  /\ job[p].pc = "next"
  /\ \E t \in FreshTokens :
       LET s == job[p].snap
           next == [s EXCEPT !.round = @ + 1, !.pano = s.panos[s.round + 1],
                             !.token = t] IN
       /\ SetOk(next) \/ SetError(next)
       /\ DoneAndArm(p, next)
  /\ UNCHANGED <<database, history>>

AdvanceFinish(p) ==
  LET over == [job[p].snap EXCEPT !.status = "finished"] IN
  /\ job[p].pc = "finish"
  /\ SetOk(over) \/ SetError(over)
  /\ Turn(p, Close("close", over.match))
  /\ UNCHANGED <<database, history>>

\* Mutant: ELO is forgotten.
CloseMatchOnly(p) ==
  /\ job[p].pc = "close"
  /\ matches' = [matches EXCEPT ![job[p].match].status = "finished"]
  /\ Done(p)
  /\ UNCHANGED <<room, rows, panos, history>>

\* UPDATE matches, its error dropped; then game_ended is broadcast.
CloseMatch(p) ==
  LET m == job[p].match IN
  /\ job[p].pc = "close"
  /\ \/ matches' = [matches EXCEPT ![m].status = "finished"]
     \/ "db" \in Faults /\ UNCHANGED matches
  /\ Turn(p, Close("elo", m))
  /\ UNCHANGED <<room, rows, panos, history>>

\* The POST to the workers: its error is dropped, so elo holds what was asked for.
TriggerElo(p) ==
  /\ job[p].pc = "elo"
  /\ elo' = elo \cup {job[p].match}
  /\ Done(p)
  /\ UNCHANGED <<room, database, ended, stored>>

-----------------------------------------------------------------------------
(* What else may happen to the room.                                       *)

\* The replica process p runs on dies, with its requests and its timers; or
\* a GET fails, after which every handler returns.
Crash(p) ==
  /\ "crash" \in Faults
  /\ job[p] # Idle
  /\ Done(p)
  /\ UNCHANGED <<room, database, history>>

\* The TTL of the key runs out.
Expire ==
  /\ "expire" \in Faults
  /\ room # Nil
  /\ room' = Nil
  /\ UNCHANGED <<job, database, history>>

\* An administrator deletes a panorama, and with it the guesses made on it.
DeletePano(q) ==
  /\ "panoDelete" \in Faults
  /\ q \in panos
  /\ panos' = panos \ {q}
  /\ rows' = {r \in rows : r.pano # q}
  /\ UNCHANGED <<room, job, matches, history>>

-----------------------------------------------------------------------------

\* A request reaches the service.
Ask(p, u) == JoinRead(p, u) \/ LeaveRead(p, u) \/ StartRead(p, u) \/ GuessRead(p, u)

\* A request or a timer takes its next step.
Work(p) ==
  \/ JoinWrite(p) \/ LeaveWrite(p)
  \/ StartInsert(p) \/ StartRefused(p) \/ StartWrite(p)
  \/ GuessWrite(p)
  \/ AdvanceRead(p) \/ AdvanceStale(p) \/ AdvanceScore(p) \/ AdvanceLost(p)
  \/ AdvanceNext(p) \/ AdvanceFinish(p) \/ CloseMatch(p) \/ TriggerElo(p)

Fire(t) == TimerFire(t) \/ TimerStale(t)

Next ==
  \/ \E p \in Slot, u \in User : Ask(p, u)
  \/ \E p \in Proc : Work(p) \/ Crash(p)
  \/ \E t \in Token : Fire(t) \/ TimerWrite(t)
  \/ Expire
  \/ \E q \in Pano : DeletePano(q)

Spec == Init /\ [][Next]_vars

\* A goroutine that runs is scheduled again, and a timer whose time is up is
\* run.  Nobody has to send a request, and no failure has to happen.
FairSpec ==
  /\ Spec
  /\ \A p \in Proc : WF_vars(Work(p))
  /\ \A t \in Token : WF_vars(Fire(t) \/ TimerWrite(t))

-----------------------------------------------------------------------------
(* Invariants.                                                             *)

Job == [pc: {"idle", "armed"}] \cup [pc: Served, user: User, snap: RoomState]
         \cup [pc: Resolved, snap: RoomState] \cup [pc: {"advance"}, token: Token]
         \cup [pc: Closed, match: Nat]

Row == [match: Nat, round: Nat, user: User, pano: Pano]

\* Every variable has its type; a process that works has a version of the
\* room in its hands.
TypeOK ==
  /\ room \in RoomState \cup {Nil}
  /\ job \in [Proc -> Job]
  /\ matches \in Seq([status: {"active", "finished"}, rounds: Nat])
  /\ rows \subseteq Row
  /\ panos \subseteq Pano
  /\ ended \subseteq Nat \X Nat
  /\ stored \subseteq Nat \X Nat \X User
  /\ elo \subseteq Nat

\* The room is a room a client can play: its players are different and at
\* most MaxPlayers, the host is one of them, and only players have guessed.
Seated(s) ==
  /\ IsInjective(s.players)
  /\ Len(s.players) \in 1..MaxPlayers
  /\ s.host \in ToSet(s.players)
  /\ s.guessed \subseteq ToSet(s.players)

\* A round is open exactly outside the lobby: it is a round of the match the
\* room names, shows the panorama drawn for it and holds a token; whoever is
\* still in the room and whose guess is kept is marked as having guessed.
OnRound(s) ==
  IF s.status = "waiting"
  THEN s.match = 0 /\ s.round = 0 /\ s.token = Nil /\ s.guesses = {} /\ s.guessed = {}
  ELSE /\ s.match \in 1..Len(matches)
       /\ s.rounds = matches[s.match].rounds /\ s.rounds = Len(s.panos)
       /\ s.round \in 1..s.rounds
       /\ s.pano = s.panos[s.round]
       /\ s.token # Nil
       /\ s.guesses \cap ToSet(s.players) \subseteq s.guessed

\* Join, Leave, Start, Guess, the timer and advanceRound keep every version of
\* the room playable, however they interleave: store.go saves all of a state
\* or nothing of it.
RoomCoherent == \A s \in Versions : Seated(s) /\ OnRound(s)

\* RoundToken names the round (model.go): two versions of the room with the
\* same token are of the same round of the same match.
TokenNamesRound ==
  \A s, r \in Versions :
    s.token # Nil /\ s.token = r.token => s.match = r.match /\ s.round = r.round

\* A guess is scored in the round it was made in: the Guesses a version of the
\* room carries were all submitted in that version's own round, and none is
\* left over from an earlier round or match.
GuessesOfThisRound ==
  \A s \in Versions : \A u \in s.guesses : <<s.match, s.round, u>> \in stored

\* Rounds are played in order: a room or a handler is in round r only when
\* round_ended was broadcast for every earlier round of that match, and a room
\* is finished, a match is closed and its ELO update is requested only when it
\* was broadcast for all of them.
NoRoundSkipped ==
  /\ \A s \in Versions : s.status # "waiting" =>
       \A r \in 1..s.rounds :
         r < s.round \/ s.status = "finished" => <<s.match, r>> \in ended
  /\ \A m \in DOMAIN matches : m \in elo \/ matches[m].status = "finished" =>
       \A r \in 1..matches[m].rounds : <<m, r>> \in ended

-----------------------------------------------------------------------------
(* What the documentation promises of a room.                              *)

\* README 2.6: the RoundToken prevents double-advance, so no round is scored
\* and no round_ended is broadcast a second time.
NoDoubleAdvance ==
  [][\A p \in Proc : AdvanceScore(p) => <<job[p].snap.match, job[p].snap.round>> \notin ended]_vars

\* README 2.6: a player is removed by DELETE /leave only: whoever disappears
\* from the stored room is the user of the Leave that takes this step.
RemovedByLeaveOnly ==
  [][\A u \in User :
       /\ room # Nil /\ u \in ToSet(room.players)
       /\ room' # Nil /\ u \notin ToSet(room'.players)
       => \E p \in Slot : job[p].pc = "leave" /\ job[p].user = u /\ LeaveWrite(p)]_vars

\* README 3.2: each guess is scored and saved to Postgres, so when round_ended
\* has been broadcast every player it was scored for has a row.
ScoresSaved ==
  \A p \in Proc : job[p].pc \in {"next", "finish"} =>
    \A u \in ToSet(job[p].snap.players) :
      \E r \in rows : <<r.match, r.round, r.user>> = <<job[p].snap.match, job[p].snap.round, u>>

\* README 2.6: a round ends when all have guessed or when the timer fires, so
\* every round a room is in is closed, unless the room disappears.
RoundEventuallyCloses ==
  \A m \in 1..MaxMatches, r \in 1..Rounds :
    (room # Nil /\ room.status = "active" /\ room.match = m /\ room.round = r)
      ~> (room = Nil \/ room.status = "finished" \/ room.match # m \/ room.round > r)

-----------------------------------------------------------------------------
(* What the round timer and the end of the game achieve.                   *)

\* While its timer is armed no round is stuck: the timer of the stored round
\* leads to the end of that round, unless another version of the room takes
\* the stored one's place first.
ArmedTimerClosesRound ==
  \A t \in Token, m \in 1..MaxMatches, r \in 1..Rounds :
    (RoundOpen(t) /\ room.match = m /\ room.round = r /\ job[t] = Armed)
      ~> (~RoundOpen(t) \/ <<m, r>> \in ended)

\* A room that was seen finished has its match closed in Postgres and its ELO
\* update requested, even if a late write turns the room back.
FinishedMatchSettles ==
  \A m \in 1..MaxMatches :
    (room # Nil /\ room.status = "finished" /\ room.match = m)
      ~> (m \in elo /\ matches[m].status = "finished")

=============================================================================
