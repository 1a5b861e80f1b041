---------------------------- MODULE MatchClient ----------------------------
(***************************************************************************)
(* One player's browser in multiplayer rooms: the pages Lobby, Room, Game  *)
(* and GameOver, the store they share (gameStore) and the socket each of   *)
(* Room and Game opens for itself (useSocket).  The room server is the one *)
(* of RoomGame served one request at a time; what is in question here is   *)
(* what the browser makes of its events and answers, which travel on       *)
(* separate connections: a page's GET can be answered before an event and  *)
(* applied after it, the answer of a POST can outlive the round or the     *)
(* page it was sent from, and an event emitted while no socket of the page *)
(* has joined the room is lost for good.                                   *)
(***************************************************************************)
EXTENDS Integers, SequencesExt, FiniteSets

CONSTANTS
  Me,           \* the player at this browser
  Other,        \* the other players who may join
  Nil,          \* no request, no answer yet
  MatchRounds,  \* rounds of every room
  MaxRooms,     \* bound: numbers of rooms
  MaxWire,      \* bound: events under way to this browser
  MaxShown,     \* bound: nobody joins while this many players are shown
  MatchFaults   \* what may go wrong, a subset of MatchFaultKind

\* The page is reloaded, the socket loses its connection, a request fails.
MatchFaultKind == {"reload", "drop", "fail"}
Player == {Me} \cup Other

ASSUME MatchAssumption ==
  /\ Me \notin Other /\ IsFiniteSet(Other)
  /\ MatchRounds \in Nat \ {0} /\ MaxRooms \in Nat \ {0} /\ MaxWire \in Nat /\ MaxShown \in Nat
  /\ MatchFaults \subseteq MatchFaultKind

VARIABLES
  room,    \* the room at the server
  store,   \* gameStore, shared by the pages of one page load
  page,    \* the page shown and the state it keeps for itself
  socket,  \* the page's socket: off, joining, joined
  wire,    \* events sent to the joined socket and not handled yet
  gets,    \* the GETs open, those of pages left since included
  post,    \* the POST or DELETE in flight
  missed   \* what went past the store: "round", "players", "map", "answer" (history)

browser == <<store, page, socket, wire, gets, post>>
matchVars == <<room, browser, missed>>

\* id numbers the rooms this browser enters, 0 before the first; guessed tells of
\* this player only, since what the others guess moves nothing on the page.
NoRoom(id) == [id |-> id, host |-> Me, players |-> {}, status |-> "gone", round |-> 0,
               guessed |-> FALSE]

\* reset(): map is the room whose mapId is known, pano the panorama of a round.
EmptyStore == [map |-> 0, players |-> <<>>, round |-> 0, pano |-> 0,
               status |-> "waiting"]

\* A page as it is mounted at an address.
Mounted(at, id) == [at |-> at, id |-> id, loaded |-> FALSE, error |-> FALSE,
                    host |-> FALSE, pending |-> FALSE, submitted |-> FALSE,
                    results |-> FALSE]

\* from: sent by the page shown ("here"), by a page left since, before a reload.
Get(at, id) == [at |-> at, id |-> id, from |-> "here", answer |-> Nil]
Request(op) == [op |-> op, id |-> page.id, round |-> store.round, from |-> "here",
                answer |-> Nil]

MatchInit ==
  /\ room = NoRoom(0)
  /\ store = EmptyStore
  /\ page = Mounted("lobby", 0) /\ gets = {}
  /\ socket = "off" /\ wire = <<>>
  /\ post = Nil /\ missed = {}

-----------------------------------------------------------------------------
(* Events.  guess_broadcast only sets hasGuessed, which no page reads.     *)

Joined(p) == [is |-> "player_joined", who |-> p]
Left(p) == [is |-> "player_left", who |-> p]
Started(r) == [is |-> "round_started", round |-> r]
Ended == [is |-> "round_ended"]
Over == [is |-> "game_ended"]

About(es) ==
  {IF es[i].is \in {"player_joined", "player_left"} THEN "players" ELSE "round" :
     i \in DOMAIN es}

Fetching == \E g \in gets : g.at = "room" /\ g.from = "here"

\* io.To(room).Emit reaches a socket that has joined the room; a change of the
\* players also goes past a list that is being fetched.
Emit(es) ==
  IF socket = "joined" /\ page.id = room'.id
    THEN /\ Len(wire) + Len(es) <= MaxWire
         /\ wire' = wire \o es
         /\ missed' = missed \cup (IF Fetching THEN About(es) \ {"round"} ELSE {})
    ELSE wire' = wire /\ missed' = missed \cup About(es)

-----------------------------------------------------------------------------
(* Pages.  A page that is left closes its socket; its requests stay open.  *)

\* The navigate effects run on mount with the status the store already has.
Landing(at, st) ==
  IF at = "room" /\ st.status = "round_active" THEN "game"
  ELSE IF at = "game" /\ st.status = "game_over" THEN "over" ELSE at

\* Mutant: the store survives a return to Lobby.
StoreKept(at, st) == st

\* Lobby resets the store.
StoreOnMount(at, st) == IF at = "lobby" THEN EmptyStore ELSE st

\* Room fetches the room, Game only when it knows no panorama.
GetsOnMount(at, id, st) ==
  IF at = "room" \/ (at = "game" /\ st.pano = 0) THEN {Get(at, id)} ELSE {}

\* Room fetches the players and the map anew.
MissedOnMount(at, m) ==
  CASE at = "lobby" -> {}
    [] at = "room" -> m \ {"players", "map"}
    [] OTHER -> m

Leave(r) == IF r # Nil /\ r.from = "here" THEN [r EXCEPT !.from = "left"] ELSE r

\* Show page `to` of room id with store st, GETs still open and m gone past.
\* Bound: two GETs open at a time.
Show(to, id, st, open, m) ==
  LET at == Landing(to, st) IN
  /\ store' = StoreOnMount(at, st)
  /\ page' = [Mounted(at, id) EXCEPT
                !.results = at = "game" /\ st.status = "round_results"]
  /\ socket' = IF at \in {"room", "game"} THEN "joining" ELSE "off"
  /\ wire' = <<>>
  /\ gets' = {Leave(g) : g \in open} \cup GetsOnMount(at, id, st)
  /\ Cardinality(gets') <= 2
  /\ missed' = MissedOnMount(at, m)

\* Back to Lobby, the link of the error view, the browser's back button.
ToLobby ==
  /\ page.at # "lobby"
  /\ Show("lobby", 0, store, gets, {})
  /\ post' = Leave(post)
  /\ UNCHANGED room

\* The store and every open request of the page load are gone; a request the
\* server has not seen may still reach it.
Reload ==
  /\ "reload" \in MatchFaults
  /\ store' = EmptyStore
  /\ page' = Mounted(page.at, page.id)
  /\ socket' = IF page.at \in {"room", "game"} THEN "joining" ELSE "off"
  /\ wire' = <<>>
  /\ gets' = GetsOnMount(page.at, page.id, EmptyStore)
  /\ post' = IF post = Nil THEN Nil ELSE [post EXCEPT !.from = "dead"]
  /\ missed' = {}
  /\ UNCHANGED room

\* The handshake ends and the server joins the socket to the room.
SocketJoins ==
  /\ socket = "joining"
  /\ socket' = "joined"
  /\ UNCHANGED <<room, store, page, wire, gets, post, missed>>

\* socket.io reconnects by itself; nothing is fetched again.
SocketDrops ==
  /\ "drop" \in MatchFaults /\ socket = "joined"
  /\ socket' = "joining" /\ wire' = <<>>
  /\ missed' = missed \cup About(wire)
  /\ UNCHANGED <<room, store, page, gets, post>>

-----------------------------------------------------------------------------
(* Handlers of useSocket, with the effects of the page that follow.        *)

\* addPlayer appends without looking.
AddPlayer(st, p) == [st EXCEPT !.players = Append(@, p)]

\* Mutant: who leaves stays on the list.
KeepPlayer(st, p) == st

\* The list without p, element by element.
Filtered(ps, p) ==
  LET kept[n \in 0..Len(ps)] ==
        IF n = 0 THEN <<>>
        ELSE IF ps[n] = p THEN kept[n - 1] ELSE Append(kept[n - 1], ps[n])
  IN  kept[Len(ps)]

RemovePlayer(st, p) == [st EXCEPT !.players = Filtered(@, p)]

\* Mutant: the round is counted from zero on one side only.
StartRoundAfter(st, r) == [st EXCEPT !.round = r + 1, !.pano = r, !.status = "round_active"]

StartRound(st, r) == [st EXCEPT !.round = r, !.pano = r, !.status = "round_active"]

SetRoundResults(st) == [st EXCEPT !.status = "round_results"]

\* Mutant: the scores alone are kept.
SetScoresOnly(st) == st

SetFinalScores(st) == [st EXCEPT !.status = "game_over"]

Handled(st, e) ==
  CASE e.is = "player_joined" -> AddPlayer(st, e.who)
    [] e.is = "player_left" -> RemovePlayer(st, e.who)
    [] e.is = "round_started" -> StartRound(st, e.round)
    [] e.is = "round_ended" -> SetRoundResults(st)
    [] e.is = "game_ended" -> SetFinalScores(st)

\* Mutant: a new round leaves the controls locked.
PageStaysLocked(st) ==
  IF st.round # store.round
    THEN [page EXCEPT !.pending = FALSE, !.results = FALSE]
    ELSE [page EXCEPT !.results = @ \/ st.status = "round_results"]

\* A new round clears what the page kept of the last one; results are shown.
PageOfRound(st) ==
  IF st.round # store.round
    THEN [page EXCEPT !.pending = FALSE, !.submitted = FALSE, !.results = FALSE]
    ELSE [page EXCEPT !.results = @ \/ st.status = "round_results"]

HandleEvent ==
  /\ wire # <<>>
  /\ LET e == Head(wire)
         st == Handled(store, e)
         m == IF e.is = "round_started" THEN missed \ {"round"} ELSE missed IN
     IF Landing(page.at, st) # page.at
       THEN /\ Show(page.at, page.id, st, gets, m \cup About(Tail(wire)))
            /\ post' = Leave(post)
       ELSE /\ store' = st
            /\ page' = IF page.at = "game" THEN PageOfRound(st) ELSE page
            /\ wire' = Tail(wire)
            /\ missed' = m
            /\ UNCHANGED <<socket, gets, post>>
  /\ UNCHANGED room

-----------------------------------------------------------------------------
(* The GETs of Room and Game.                                              *)

NotFound == [status |-> "gone", players |-> <<>>, host |-> FALSE]

\* The room as it is now; an earlier one has gone on meanwhile.
RoomAnswer(g) ==
  IF g.id # room.id
    THEN [status: {"active", "finished"} \cup (IF g.at = "room" THEN {"waiting"} ELSE {}),
          players: {<<Me>>}, host: {FALSE}]
    ELSE {[status |-> room.status, players |-> SetToSeq(room.players),
           host |-> room.host = Me]}

ServeGet ==
  /\ \E g \in gets :
       /\ g.answer = Nil
       /\ \E a \in RoomAnswer(g) \cup (IF "fail" \in MatchFaults THEN {NotFound} ELSE {}) :
            gets' = (gets \ {g}) \cup {[g EXCEPT !.answer = a]}
  /\ UNCHANGED <<room, store, page, socket, wire, post, missed>>

\* setRoom and setPlayers; an answer that comes to another page than the one
\* that asked may be of another room.
Restore(g) ==
  /\ store' = [store EXCEPT !.map = g.id, !.players = g.answer.players]
  /\ missed' = missed \cup (IF g.from = "here" THEN {} ELSE {"map", "players"})

\* Room does not look at the status: an active room is shown as a waiting room.
RoomLoaded(g) ==
  /\ g.at = "room" /\ g.answer.status # "gone"
  /\ Restore(g)
  /\ page' = IF g.from = "left" THEN page
             ELSE [page EXCEPT !.loaded = TRUE, !.host = g.answer.host]
  /\ gets' = gets \ {g}
  /\ UNCHANGED <<room, socket, wire, post>>

RoomNotFound(g) ==
  /\ g.at = "room" /\ g.answer.status = "gone"
  /\ page' = IF g.from = "left" THEN page ELSE [page EXCEPT !.error = TRUE]
  /\ missed' = missed \cup {"map", "players"}
  /\ gets' = gets \ {g}
  /\ UNCHANGED <<room, store, socket, wire, post>>

\* Game: an active room restores the store ...
GameLoaded(g) ==
  /\ g.at = "game" /\ g.answer.status = "active"
  /\ Restore(g)
  /\ gets' = gets \ {g}
  /\ UNCHANGED <<room, page, socket, wire, post>>

\* ... and any other answer navigates, wherever the player is by now.
GameElsewhere(g) ==
  /\ g.at = "game" /\ g.answer.status # "active"
  /\ Show(CASE g.answer.status = "finished" -> "over"
            [] g.answer.status = "waiting" -> "room"
            [] g.answer.status = "gone" -> "lobby",
          IF g.answer.status = "gone" THEN 0 ELSE g.id,
          store, gets \ {g}, missed \cup About(wire))
  /\ post' = Leave(post)
  /\ UNCHANGED room

GetAnswered ==
  \E g \in gets :
    /\ g.answer # Nil
    /\ RoomLoaded(g) \/ RoomNotFound(g) \/ GameLoaded(g) \/ GameElsewhere(g)

-----------------------------------------------------------------------------
(* What the player does.  Bound: one POST at a time.                       *)

Send(op) == post = Nil /\ post' = Request(op)

\* The maps are here and the first one is selected.  Nothing catches a failure:
\* Lobby then stays as it was mounted.
LobbyLoads == page.at = "lobby" /\ page' = [page EXCEPT !.loaded = TRUE]

\* Creating needs a map, joining only an id.
CreateRoom == page.at = "lobby" /\ page.loaded /\ Send("create")
JoinRoom == page.at = "lobby" /\ Send("join")

\* The error view and the loading view of Room have no such buttons.
InRoom == page.at = "room" /\ page.loaded /\ ~page.error

StartGame == InRoom /\ page.host /\ Send("start")
LeaveRoom == InRoom /\ Send("leave")

\* With a panorama known, Game shows the map popup until the guess was sent;
\* its floor is known once the map is.
OnMap == page.at = "game" /\ store.pano # 0 /\ store.map # 0 /\ ~page.submitted

SubmitGuess == OnMap /\ page.pending /\ Send("guess")

PlaceGuess == OnMap /\ page' = [page EXCEPT !.pending = TRUE]

DismissResults == page.at = "game" /\ page' = [page EXCEPT !.results = FALSE]

PlayerActs ==
  \/ /\ CreateRoom \/ JoinRoom \/ StartGame \/ LeaveRoom \/ SubmitGuess
     /\ UNCHANGED <<room, store, page, socket, wire, gets, missed>>
  \/ /\ LobbyLoads \/ PlaceGuess \/ DismissResults
     /\ UNCHANGED <<room, store, socket, wire, gets, post, missed>>
  \/ ToLobby

-----------------------------------------------------------------------------
(* The room server, one request at a time.                                 *)

Asked(op) == post # Nil /\ post.answer = Nil /\ post.op = op
Ok(id) == post' = [post EXCEPT !.answer = "ok", !.id = id]

\* A new room for this browser: Me creates it, or finds it waiting with its host.
\* Its number is one that the page and the open GETs do not name.
NewRoom(h) ==
  \E id \in 1..MaxRooms :
    /\ page.id # id /\ \A g \in gets : g.id # id
    /\ room' = [NoRoom(id) EXCEPT !.host = h, !.players = {h, Me}, !.status = "waiting"]
    /\ Ok(id)

Create == Asked("create") /\ NewRoom(Me) /\ Emit(<<>>)

Join ==
  /\ Asked("join")
  /\ \/ (\E h \in Other : NewRoom(h)) /\ Emit(<<Joined(Me)>>)
     \/ /\ room.status = "waiting" /\ Ok(room.id)
        /\ room' = [room EXCEPT !.players = @ \cup {Me}]
        /\ Emit(IF Me \in room.players THEN <<>> ELSE <<Joined(Me)>>)

Begin ==
  /\ room.status = "waiting"
  /\ room' = [room EXCEPT !.status = "active", !.round = 1]
  /\ Emit(<<Started(1)>>)

MayStart == post.id = room.id /\ room.host = Me /\ room.status = "waiting"
Start == Asked("start") /\ MayStart /\ Begin /\ Ok(room.id)

\* The host passes to another player; an empty room is deleted.
Without(p) ==
  LET ps == room.players \ {p} IN
  IF ps = {} THEN NoRoom(room.id)
  ELSE [room EXCEPT !.players = ps, !.guessed = @ /\ p # Me,
                    !.host = IF @ = p THEN CHOOSE q \in ps : TRUE ELSE @]

MayLeave == post.id = room.id /\ Me \in room.players
LeaveServed ==
  Asked("leave") /\ MayLeave /\ room' = Without(Me) /\ Emit(<<Left(Me)>>) /\ Ok(room.id)

MayGuess ==
  post.id = room.id /\ room.status = "active" /\ Me \in room.players /\ ~room.guessed
Guess ==
  /\ Asked("guess") /\ MayGuess
  /\ room' = [room EXCEPT !.guessed = TRUE]
  /\ Emit(<<>>) /\ Ok(room.id)

\* Refused, or lost on the way.
Refuse ==
  /\ post # Nil /\ post.answer = Nil
  /\ \/ "fail" \in MatchFaults
     \/ Asked("join") /\ room.status # "waiting"
     \/ Asked("start") /\ ~MayStart
     \/ Asked("leave") /\ ~MayLeave
     \/ Asked("guess") /\ ~MayGuess
  /\ post' = [post EXCEPT !.answer = "error"]
  /\ UNCHANGED <<room, wire, missed>>

Serve ==
  /\ Create \/ Join \/ Start \/ LeaveServed \/ Guess \/ Refuse
  /\ UNCHANGED <<store, page, socket, gets>>

OtherJoins ==
  /\ room.status = "waiting" /\ Len(store.players) < MaxShown
  /\ \E p \in Other \ room.players :
       room' = [room EXCEPT !.players = @ \cup {p}] /\ Emit(<<Joined(p)>>)

OtherLeaves == \E p \in Other \cap room.players : room' = Without(p) /\ Emit(<<Left(p)>>)

OtherStarts == room.host \in Other /\ Begin

\* All have guessed or the time is over, whenever that is; nothing is waited for
\* between round_ended and the next round_started.
CloseRound ==
  /\ room.status = "active"
  /\ IF room.round < MatchRounds
       THEN /\ room' = [room EXCEPT !.round = @ + 1, !.guessed = FALSE]
            /\ Emit(<<Ended, Started(room.round + 1)>>)
       ELSE /\ room' = [room EXCEPT !.status = "finished", !.guessed = FALSE]
            /\ Emit(<<Ended, Over>>)

RoomActs ==
  /\ OtherJoins \/ OtherLeaves \/ OtherStarts \/ CloseRound
  /\ UNCHANGED <<store, page, socket, gets, post>>

-----------------------------------------------------------------------------
(* The answers of the requests.                                            *)

Answered(op) == post # Nil /\ post.answer # Nil /\ post.op = op
Dead == post.answer = "error" \/ post.from = "dead"
StaysHere == UNCHANGED <<store, page, socket, wire, gets, missed>>

\* setRoom and navigate to the room; a refusal is shown and changes nothing.
EnterAnswered ==
  /\ Answered("create") \/ Answered("join")
  /\ IF Dead THEN StaysHere
     ELSE Show("room", post.id, [store EXCEPT !.map = post.id], gets, missed)

\* What comes of start arrives as an event; a refusal replaces the page.
StartAnswered ==
  /\ Answered("start")
  /\ page' = [page EXCEPT !.error = @ \/ (post.answer = "error" /\ post.from = "here")]
  /\ UNCHANGED <<store, socket, wire, gets, missed>>

\* leave navigates to Lobby whatever the answer, and wherever the player is.
LeaveAnswered ==
  /\ Answered("leave")
  /\ IF post.from = "dead" THEN StaysHere ELSE Show("lobby", 0, store, gets, {})

\* The guess was taken: the controls are locked, in whatever round this is.
GuessAnswered ==
  /\ Answered("guess")
  /\ IF Dead \/ post.from = "left" THEN StaysHere
     ELSE /\ page' = [page EXCEPT !.submitted = TRUE]
          /\ missed' = missed \cup (IF post.round = store.round THEN {} ELSE {"answer"})
          /\ UNCHANGED <<store, socket, wire, gets>>

PostAnswered ==
  /\ EnterAnswered \/ StartAnswered \/ LeaveAnswered \/ GuessAnswered
  /\ post' = Nil
  /\ UNCHANGED room

-----------------------------------------------------------------------------
(* The specification.  Connections, answers and the round timer make       *)
(* progress; players, reloads and failures need not come.                  *)

Progress == SocketJoins \/ HandleEvent \/ ServeGet \/ GetAnswered \/ Serve \/ PostAnswered

MatchNext == Progress \/ PlayerActs \/ RoomActs \/ Reload \/ SocketDrops

MatchSpec == MatchInit /\ [][MatchNext]_matchVars

TimerCloses == CloseRound /\ UNCHANGED <<store, page, socket, gets, post>>

MatchFairness ==
  /\ WF_matchVars(SocketJoins) /\ WF_matchVars(HandleEvent)
  /\ WF_matchVars(ServeGet) /\ WF_matchVars(GetAnswered)
  /\ WF_matchVars(Serve) /\ WF_matchVars(PostAnswered)
  /\ WF_matchVars(TimerCloses)

\* A page that is reloaded for ever never gets an answer.
SettlesDown == <>[][~Reload]_matchVars

MatchFairSpec == MatchSpec /\ MatchFairness /\ SettlesDown

-----------------------------------------------------------------------------
(* Properties.                                                             *)

RoomRecord == [id: 0..MaxRooms, host: Player, players: SUBSET Player,
               status: {"gone", "waiting", "active", "finished"},
               round: 0..MatchRounds, guessed: BOOLEAN]
Store == [map: 0..MaxRooms, players: Seq(Player), round: 0..MatchRounds,
          pano: 0..MatchRounds,
          status: {"waiting", "round_active", "round_results", "game_over"}]
Page == [at: {"lobby", "room", "game", "over"}, id: 0..MaxRooms, loaded: BOOLEAN,
         error: BOOLEAN, host: BOOLEAN, pending: BOOLEAN, submitted: BOOLEAN,
         results: BOOLEAN]
Event == {Ended, Over} \cup {Started(r) : r \in 1..MatchRounds}
           \cup {Joined(p) : p \in Player} \cup {Left(p) : p \in Player}
GetAnswer == [status: {"gone", "waiting", "active", "finished"},
              players: Seq(Player), host: BOOLEAN]
GetRecord == [at: {"room", "game"}, id: 0..MaxRooms, from: {"here", "left"},
              answer: {Nil} \cup GetAnswer]
PostRecord == [op: {"create", "join", "start", "leave", "guess"}, id: 0..MaxRooms,
               round: 0..MatchRounds, from: {"here", "left", "dead"},
               answer: {Nil, "ok", "error"}]

ASSUME NoRequestAssumption ==
  Nil \notin PostRecord /\ Nil \notin GetRecord /\ Nil \notin {"ok", "error"}

\* Every variable has its type.
MatchTypeOK ==
  /\ room \in RoomRecord /\ store \in Store /\ page \in Page
  /\ socket \in {"off", "joining", "joined"} /\ wire \in Seq(Event)
  /\ \A g \in gets : g \in GetRecord
  /\ post \in {Nil} \cup PostRecord
  /\ missed \subseteq {"round", "players", "map", "answer"}

\* Nobody is taken to a game that has not started or to a result that is not
\* final: what the store keeps of an earlier room never moves the player on in
\* the next one (Room and Game navigate on the status alone).
PageFollowsRoom ==
  page.id = room.id /\ room.status # "gone" =>
    /\ page.at = "game" => room.status \in {"active", "finished"}
    /\ page.at = "over" => room.status = "finished"

\* A game page that has heard every event of the round shows the round the
\* server plays, as an open one, whatever was reloaded or reconnected before.
CaughtUp ==
  page.at = "game" /\ page.id = room.id /\ store.pano # 0 /\ socket = "joined"
    /\ wire = <<>> /\ "round" \notin missed
  => /\ room.status \in {"active", "gone"}
     /\ room.status = "active" =>
          store.round = room.round /\ store.pano = room.round /\ store.status = "round_active"

\* The map a game page offers for guessing is the map of its room, or a GET that
\* will bring it is open.
MapOfTheRoom ==
  page.at = "game" /\ "map" \notin missed
  => store.map = page.id \/ \E g \in gets : g.id = page.id

\* The results of a round never cover a round that is being played.
NoResultsOverARound ==
  page.at = "game" /\ page.results => store.status # "round_active"

\* The page and the round on it follow the room: pages, store and socket keep
\* up with the server through joins, late answers, reloads and reconnections,
\* but for the events that went past the page.
GameInStep == PageFollowsRoom /\ CaughtUp /\ MapOfTheRoom /\ NoResultsOverARound

\* The waiting room lists the players of the room, each once, unless a change
\* went past the list while it was fetched or no socket had joined.
PlayersShown ==
  page.at = "room" /\ page.loaded /\ page.id = room.id /\ wire = <<>>
    /\ "players" \notin missed
  => ToSet(store.players) = room.players /\ Len(store.players) = Cardinality(room.players)

\* The guess controls are locked only when the guess of this very round was
\* counted, unless the answer came in a later round than the request.
LockedByGuess ==
  page.at = "game" /\ page.submitted /\ page.id = room.id /\ room.status = "active"
    /\ store.round = room.round /\ "answer" \notin missed
  => room.guessed \/ Me \notin room.players

\* A player whose controls are locked or whose match is over is taken on, to a
\* round he can play or off the page, unless an event of the round went past the
\* page: nothing fetches it later (useSocket asks for nothing on reconnect).
NobodyIsStuck ==
  page.at = "game" /\ page.id = room.id /\ (page.submitted \/ room.status = "finished")
    ~> \/ page.at # "game" \/ "round" \in missed
       \/ ~page.submitted /\ room.status # "finished"

=============================================================================
