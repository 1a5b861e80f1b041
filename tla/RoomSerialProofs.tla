-------------------------- MODULE RoomSerialProofs --------------------------
(***************************************************************************)
(* Proofs about RoomSerial: what the documentation promises of a room      *)
(* holds when requests and timers are served one at a time, for every      *)
(* number of players, panoramas, rounds and request slots.                 *)
(***************************************************************************)
EXTENDS RoomSerial, RoomGameProofs

\* Process q waits for a request or for its time.
Resting(q) == job[q] \in {Idle, Armed}

\* Nothing has been written since process p read the room: the version in its
\* hands is the stored room, or what p is about to make of it.
InStep(p) ==
  LET j == job[p] IN
  /\ j.pc \in Served => p \in Slot
  /\ j.pc \in Served \cup {"start", "timeout", "score"} => room # Nil /\ j.snap = room
  /\ j.pc = "launch" => /\ room # Nil /\ room.status = "waiting"
                        /\ j.snap.players = room.players
                        /\ j.snap.round = 1 /\ j.snap.rounds <= Rounds
  /\ j.pc = "advance" => RoundOpen(j.token)
  /\ j.pc \in {"next", "finish"} => room # Nil /\ j.snap = NobodyGuessed(room)

\* A room in the lobby still has the rounds it was created with.
FullLength == room # Nil /\ room.status = "waiting" => room.rounds = Rounds

\* One process works at a time, in step with the stored room.
Alone ==
  /\ \A p, q \in Proc : ~Resting(p) /\ ~Resting(q) => p = q
  /\ \A p \in Proc : InStep(p)
  /\ FullLength

\* A round has been scored and the room is not yet turned to what follows; a
\* match is inserted and the room is not yet turned to it.
Between == \E p \in Proc : job[p].pc \in {"next", "finish"}
Launching == \E p \in Proc : job[p].pc = "launch"

\* How many rounds of the stored room's match have been announced.
RoundsDone ==
  IF room.status = "waiting" THEN 0
  ELSE IF room.status = "finished" \/ Between THEN room.round ELSE room.round - 1

\* The history of the room so far is that of one match, played in order.
InOrder ==
  /\ panos = Pano
  /\ OpenRoundIsDriven
  /\ Len(matches) <= 1
  /\ room # Nil =>
       /\ room.status = "waiting" => matches = <<>> \/ Launching
       /\ room.status = "finished" => room.round = room.rounds
       /\ ended = {room.match} \X (1..RoundsDone)

\* No SET and no statement fails.
NothingFails == Faults \cap {"set", "db"} = {}

-----------------------------------------------------------------------------
(* One process at a time.                                                  *)

LEMMA SerialStepIsStep == SerialNext => Next
BY DEF SerialNext, Next

\* The process that works is the only one.
OthersRest(p) == \A q \in Proc : q # p => Resting(q)

LEMMA WorkerIsAlone ==
  ASSUME Alone, NEW p \in Proc, ~Resting(p)
  PROVE  OthersRest(p)
BY DEF Alone, OthersRest

LEMMA QuietIsAlone ==
  ASSUME Quiet, NEW p \in Proc
  PROVE  OthersRest(p)
BY DEF Quiet, OthersRest, Resting

\* Whoever works does not rest.
LEMMA WorkerWorks ==
  ASSUME NEW p, job[p].pc \notin {"idle", "armed"}
  PROVE  ~Resting(p)
BY DEF Resting, Idle, Armed

LEMMA RestIsInStep ==
  ASSUME NEW q, Resting(q)
  PROVE  InStep(q) /\ job[q].pc \in {"idle", "armed"}
BY DEF Resting, InStep, Idle, Armed, Served

LEMMA TurnStaysAlone ==
  ASSUME IndInv, NEW p \in Proc, OthersRest(p), NEW j, Turn(p, j), InStep(p)', FullLength'
  PROVE  Alone'
<1>1. /\ job'[p] = j
      /\ \A q \in Proc : q # p => job'[q] = job[q]
      BY DEF IndInv, TypeOK, Turn
<1>2. \A q \in Proc : q # p => Resting(q)'
      BY <1>1 DEF OthersRest, Resting
<1>3. \A q \in Proc : InStep(q)'
  <2> SUFFICES ASSUME NEW q \in Proc, q # p PROVE InStep(q)' OBVIOUS
  <2>1. job'[q] \in {Idle, Armed} BY <1>2 DEF Resting
  <2> QED BY <2>1 DEF InStep, Idle, Armed, Served
<1> QED BY <1>2, <1>3 DEF Alone

LEMMA DoneStaysAlone ==
  ASSUME IndInv, NEW p \in Proc, OthersRest(p), Done(p), FullLength'
  PROVE  Alone'
<1>1. job'[p] = Idle BY DEF IndInv, TypeOK, Turn, Done
<1>2. InStep(p)' BY <1>1 DEF InStep, Idle, Served
<1> QED BY <1>2, TurnStaysAlone DEF Done

LEMMA ArmStaysAlone ==
  ASSUME IndInv, NEW p \in Proc, OthersRest(p), NEW s, DoneAndArm(p, s), FullLength'
  PROVE  Alone' /\ \A q \in Proc : Resting(q)'
<1>1. \A q \in Proc : job'[q] \in {Idle, Armed}
      BY DEF IndInv, TypeOK, DoneAndArm, OthersRest, Resting
<1>2. \A q \in Proc : InStep(q)'
      BY <1>1 DEF InStep, Idle, Armed, Served
<1> QED BY <1>1, <1>2 DEF Alone, Resting

-----------------------------------------------------------------------------
(* What each write does to the stored room.                                *)

\* The room stays where it is in its life.
KeepsRound ==
  /\ room' # Nil
  /\ room'.status = room.status /\ room'.rounds = room.rounds /\ room'.round = room.round
  /\ room'.token = room.token /\ room'.match = room.match

\* What the process that works has in its hands.
LEMMA Held ==
  ASSUME IndInv, Alone, NEW p \in Proc
  PROVE  /\ job[p].pc \in Served \cup {"start", "timeout", "score"} =>
              room # Nil /\ job[p].snap = room /\ Good(room, matches, ended, stored)
         /\ job[p].pc \in {"next", "finish"} =>
              /\ room # Nil /\ Good(room, matches, ended, stored)
              /\ job[p].snap = NobodyGuessed(room)
<1>1. InStep(p) BY DEF Alone
<1>2. room # Nil => Good(room, matches, ended, stored) BY StoredRoom
<1> QED BY <1>1, <1>2 DEF InStep

LEMMA GoodIsRoom ==
  ASSUME NEW v, NEW ms, NEW en, NEW st, Good(v, ms, en, st)
  PROVE  v # Nil /\ v \in RoomState
BY NoRoomAssumption DEF Good

LEMMA JoinEffect ==
  ASSUME IndInv, Alone, NEW p \in Proc, JoinWrite(p)
  PROVE  /\ room # Nil /\ KeepsRound
         /\ ToSet(room.players) \subseteq ToSet(room'.players)
<1> DEFINE s == room
           u == job[p].user
           v == [s EXCEPT !.players = Append(@, u)]
<1>1. job[p].pc = "join" BY DEF JoinWrite
<1>2. room # Nil /\ job[p].snap = room /\ Good(room, matches, ended, stored)
      BY <1>1, Held DEF Served
<1>3. u \in User /\ s.status = "waiting" /\ Len(s.players) < MaxPlayers /\ u \notin ToSet(s.players)
      BY <1>1, <1>2, JobFields DEF IndInv, Justified, Checked, Served
<1>4. Good(v, matches, ended, stored) BY <1>2, <1>3, GoodJoined
<1>5. room' \in {room, v} BY <1>2 DEF JoinWrite, SetOk, SetError
<1>6. v # Nil /\ v \in RoomState BY <1>4, GoodIsRoom
<1>7. s \in RoomState /\ s.players \in Seq(User) /\ IsInjective(s.players)
      BY <1>2 DEF Good, Seated, RoomState
<1>8. PICK ps : ps = Append(s.players, u) OBVIOUS
<1>9. ToSet(ps) = ToSet(s.players) \cup {u} BY <1>3, <1>7, <1>8, AppendPlayers
<1>10. /\ v.status = s.status /\ v.rounds = s.rounds /\ v.round = s.round
       /\ v.token = s.token /\ v.match = s.match /\ v.players = ps
       BY <1>7, <1>8 DEF RoomState
<1> HIDE DEF v
<1> QED BY <1>2, <1>5, <1>6, <1>9, <1>10 DEF KeepsRound

\* Nobody but the user who leaves goes.
LEMMA OthersStay ==
  ASSUME NEW s \in RoomState, IsInjective(s.players), NEW u, NEW v, v = Left(s, u), v # Nil,
         NEW w \in ToSet(s.players), w # u
  PROVE  w \in ToSet(v.players)
<1>1. PICK ps : ps = Without(s.players, u) OBVIOUS
<1>2. s.players \in Seq(User) BY DEF RoomState
<1>3. ToSet(ps) = ToSet(s.players) \ {u} BY <1>1, <1>2, WithoutPlayers
<1>4. v = [s EXCEPT !.players = ps, !.guessed = @ \ {u},
                    !.host = IF @ = u THEN Head(ps) ELSE @]
      BY <1>1 DEF Left
<1>5. v.players = ps BY <1>4 DEF RoomState
<1> QED BY <1>3, <1>5

LEMMA LeaveEffect ==
  ASSUME IndInv, Alone, NEW p \in Proc, LeaveWrite(p)
  PROVE  /\ room # Nil
         /\ \/ room' = Nil
            \/ /\ KeepsRound
               /\ \A w \in ToSet(room.players) : w # job[p].user => w \in ToSet(room'.players)
         /\ p \in Slot
<1>0. PICK s, u, v : s = room /\ u = job[p].user /\ v = Left(s, u) OBVIOUS
<1>1. job[p].pc = "leave" BY DEF LeaveWrite
<1>2. room # Nil /\ job[p].snap = room /\ Good(s, matches, ended, stored)
      BY <1>0, <1>1, Held DEF Served
<1>3. room' \in {room, v} BY <1>0, <1>2 DEF LeaveWrite, SetOk, SetError
<1>4. v # Nil => /\ v.token = s.token /\ v.match = s.match /\ v.round = s.round
                 /\ v.rounds = s.rounds /\ v.status = s.status
      BY <1>0, <1>2, GoodLeft
<1>5. v # Nil => \A w \in ToSet(s.players) : w # u => w \in ToSet(v.players)
      BY <1>0, <1>2, OthersStay DEF Good, Seated
<1>6. p \in Slot BY <1>1 DEF Alone, InStep, Served
<1> QED BY <1>0, <1>2, <1>3, <1>4, <1>5, <1>6 DEF KeepsRound

LEMMA GuessEffect ==
  ASSUME IndInv, Alone, NEW p \in Proc, GuessWrite(p)
  PROVE  /\ room # Nil /\ room.status = "active" /\ KeepsRound
         /\ room'.players = room.players
         /\ \E j \in {Idle, Advance(room.token)} : Turn(p, j)
<1> DEFINE u == job[p].user
           v == [room EXCEPT !.guesses = @ \cup {u}, !.guessed = @ \cup {u}]
<1>1. job[p].pc = "guess" BY DEF GuessWrite
<1>2. room # Nil /\ job[p].snap = room /\ Good(room, matches, ended, stored)
      BY <1>1, Held DEF Served
<1>3. u \in User /\ room.status = "active" /\ u \in ToSet(room.players)
      BY <1>1, <1>2, JobFields DEF IndInv, Justified, Checked, Served
<1>4. v # Nil /\ room \in RoomState
  <2>1. Good(v, matches, ended, stored \cup {<<room.match, room.round, u>>})
        BY <1>2, <1>3, GoodGuessed
  <2>2. v # Nil BY <2>1, GoodIsRoom
  <2>3. room \in RoomState BY <1>2, GoodIsRoom
  <2> QED BY <2>2, <2>3
<1>5. room' \in {room, v} BY <1>2 DEF GuessWrite, SetOk, SetError
<1>6. /\ v.status = room.status /\ v.rounds = room.rounds /\ v.round = room.round
      /\ v.token = room.token /\ v.match = room.match /\ v.players = room.players
      BY <1>4 DEF RoomState
<1>7. \E j \in {Idle, Advance(room.token)} : Turn(p, j) BY <1>2 DEF GuessWrite, Done
<1> HIDE DEF v
<1> QED BY <1>2, <1>3, <1>4, <1>5, <1>6, <1>7 DEF KeepsRound

LEMMA TimerEffect ==
  ASSUME IndInv, Alone, NEW p \in Proc, TimerWrite(p)
  PROVE  /\ room # Nil /\ room.status = "active" /\ KeepsRound
         /\ room'.players = room.players
         /\ \/ Turn(p, Advance(room.token))
            \/ "set" \in Faults /\ Done(p)
<1> DEFINE v == [room EXCEPT !.guessed = ToSet(room.players)]
<1>1. job[p].pc = "timeout" BY DEF TimerWrite
<1>2. room # Nil /\ job[p].snap = room /\ Good(room, matches, ended, stored)
      BY <1>1, Held
<1>3. room.status = "active" BY <1>1, <1>2 DEF IndInv, Justified, Checked
<1>4. v # Nil /\ room \in RoomState BY <1>2, <1>3, GoodTimedOut, GoodIsRoom
<1>5. room' \in {room, v} BY <1>2 DEF TimerWrite, SetOk, SetError
<1>6. /\ v.status = room.status /\ v.rounds = room.rounds /\ v.round = room.round
      /\ v.token = room.token /\ v.match = room.match /\ v.players = room.players
      BY <1>4 DEF RoomState
<1>7. Turn(p, Advance(v.token)) \/ ("set" \in Faults /\ Done(p))
      BY <1>2 DEF TimerWrite, SetError
<1> HIDE DEF v
<1> QED BY <1>2, <1>3, <1>4, <1>5, <1>6, <1>7 DEF KeepsRound

\* The match that was inserted begins, or nothing changes.
LEMMA StartEffect ==
  ASSUME IndInv, Alone, NEW p \in Proc, StartWrite(p)
  PROVE  /\ room # Nil /\ room.status = "waiting"
         /\ \/ room' = room
            \/ /\ room' # Nil /\ room' = job[p].snap
               /\ room'.status = "active" /\ room'.round = 1
               /\ room'.rounds \in 1..Rounds /\ room'.players = room.players
         /\ \/ room' = job[p].snap /\ DoneAndArm(p, room')
            \/ "set" \in Faults /\ Done(p)
<1>1. job[p].pc = "launch" BY DEF StartWrite
<1>2. /\ room # Nil /\ room.status = "waiting"
      /\ job[p].snap.players = room.players
      /\ job[p].snap.round = 1 /\ job[p].snap.rounds <= Rounds
      BY <1>1 DEF Alone, InStep
<1>3. Good(job[p].snap, matches, ended, stored) /\ job[p].snap.status = "active"
      BY <1>1, JobFields DEF IndInv, Justified, Checked, Resolved
<1>4. job[p].snap # Nil /\ job[p].snap \in RoomState BY <1>3, GoodIsRoom
<1>5. job[p].snap.rounds \in 1..Rounds
  <2>1. job[p].snap.round \in 1..job[p].snap.rounds /\ job[p].snap.rounds \in Nat
        BY <1>3, <1>4 DEF Good, Playable, RoomState
  <2> QED BY <1>2, <2>1, RoomAssumption
<1>6. \/ room' = job[p].snap /\ DoneAndArm(p, room')
      \/ "set" \in Faults /\ room' \in {room, job[p].snap} /\ Done(p)
      BY DEF StartWrite, SetOk, SetError
<1> QED BY <1>2, <1>3, <1>4, <1>5, <1>6

LEMMA ScoreEffect ==
  ASSUME IndInv, Alone, NEW p \in Proc, AdvanceScore(p)
  PROVE  /\ room # Nil /\ room.status = "active" /\ job[p].snap = room
         /\ ended' = ended \cup {<<room.match, room.round>>}
         /\ UNCHANGED <<room, matches, panos>>
         /\ Turn(p, Resolve(AfterRound(room), NobodyGuessed(room)))
<1>1. job[p].pc = "score" BY DEF AdvanceScore
<1>2. room # Nil /\ job[p].snap = room BY <1>1, Held
<1>3. room.status = "active" BY <1>1, <1>2 DEF IndInv, Justified, Checked
<1> QED BY <1>2, <1>3 DEF AdvanceScore

\* The version of the round that was scored, with nobody having guessed.
LEMMA ScoredVersion ==
  ASSUME IndInv, Alone, NEW p \in Proc, job[p].pc \in {"next", "finish"}
  PROVE  LET s == job[p].snap IN
         /\ room # Nil /\ room.status = "active" /\ room \in RoomState /\ s \in RoomState
         /\ Good(s, matches, ended, stored) /\ s.guesses = {}
         /\ s.status = room.status /\ s.rounds = room.rounds /\ s.round = room.round
         /\ s.token = room.token /\ s.match = room.match /\ s.players = room.players
         /\ s.panos = room.panos
         /\ <<s.match, s.round>> \in ended
         /\ IF job[p].pc = "next" THEN s.round < s.rounds ELSE s.round = s.rounds
<1>1. PICK s : s = job[p].snap OBVIOUS
<1>2. room # Nil /\ Good(room, matches, ended, stored) /\ s = NobodyGuessed(room)
      BY <1>1, Held
<1>3. /\ s.status = "active" /\ s.guesses = {} /\ <<s.match, s.round>> \in ended
      /\ IF job[p].pc = "next" THEN s.round < s.rounds ELSE s.round = s.rounds
      BY <1>1 DEF IndInv, Justified, Scored
<1>4. room \in RoomState BY <1>2, GoodIsRoom
<1>5. /\ s.status = room.status /\ s.rounds = room.rounds /\ s.round = room.round
      /\ s.token = room.token /\ s.match = room.match /\ s.players = room.players
      /\ s.panos = room.panos
      BY <1>2, <1>4 DEF NobodyGuessed, RoomState
<1>6. Good(s, matches, ended, stored) BY <1>1, JobFields DEF Resolved
<1>7. s \in RoomState BY <1>6, GoodIsRoom
<1> QED BY <1>1, <1>2, <1>3, <1>4, <1>5, <1>6, <1>7

LEMMA NextEffect ==
  ASSUME IndInv, Alone, NEW p \in Proc, AdvanceNext(p)
  PROVE  /\ room # Nil /\ room.status = "active" /\ room.round < room.rounds
         /\ \/ room' = room /\ "set" \in Faults
            \/ /\ room' # Nil /\ room'.status = "active" /\ room'.rounds = room.rounds
               /\ room'.round = room.round + 1 /\ room'.match = room.match
               /\ room'.players = room.players /\ room'.token \in Token
         /\ \E v : DoneAndArm(p, v) /\ (v = room' \/ "set" \in Faults)
<1>1. PICK s : s = job[p].snap OBVIOUS
<1>2. job[p].pc = "next" BY DEF AdvanceNext
<1>3. /\ room # Nil /\ room.status = "active" /\ s \in RoomState
      /\ Good(s, matches, ended, stored) /\ s.guesses = {}
      /\ s.status = room.status /\ s.rounds = room.rounds /\ s.round = room.round
      /\ s.match = room.match /\ s.players = room.players
      /\ <<s.match, s.round>> \in ended /\ s.round < s.rounds
      BY <1>1, <1>2, ScoredVersion
<1>4. PICK t \in FreshTokens :
        \E v : /\ v = [s EXCEPT !.round = @ + 1, !.pano = s.panos[s.round + 1], !.token = t]
               /\ SetOk(v) \/ SetError(v)
               /\ DoneAndArm(p, v)
      BY <1>1, Zenon DEF AdvanceNext
<1>5. PICK v : /\ v = [s EXCEPT !.round = @ + 1, !.pano = s.panos[s.round + 1], !.token = t]
               /\ SetOk(v) \/ SetError(v)
               /\ DoneAndArm(p, v)
      BY <1>4
<1>6. t \in Token BY FreshToken
<1>7. v # Nil BY <1>3, <1>5, <1>6, GoodNext, GoodIsRoom
<1>8. /\ v.status = s.status /\ v.rounds = s.rounds /\ v.round = s.round + 1
      /\ v.match = s.match /\ v.players = s.players /\ v.token = t
      BY <1>3, <1>5 DEF RoomState
<1>9. room' = v \/ (room' = room /\ "set" \in Faults) BY <1>5 DEF SetOk, SetError
<1> QED BY <1>3, <1>5, <1>6, <1>7, <1>8, <1>9

LEMMA FinishEffect ==
  ASSUME IndInv, Alone, NEW p \in Proc, AdvanceFinish(p)
  PROVE  /\ room # Nil /\ room.status = "active" /\ room.round = room.rounds
         /\ \/ room' = room /\ "set" \in Faults
            \/ /\ room' # Nil /\ room'.status = "finished" /\ room'.rounds = room.rounds
               /\ room'.round = room.round /\ room'.match = room.match
               /\ room'.players = room.players
         /\ \E m : Turn(p, Close("close", m))
<1>1. PICK s : s = job[p].snap OBVIOUS
<1>2. job[p].pc = "finish" BY DEF AdvanceFinish
<1>3. /\ room # Nil /\ room.status = "active" /\ s \in RoomState
      /\ Good(s, matches, ended, stored)
      /\ s.status = room.status /\ s.rounds = room.rounds /\ s.round = room.round
      /\ s.match = room.match /\ s.players = room.players
      /\ <<s.match, s.round>> \in ended /\ s.round = s.rounds
      BY <1>1, <1>2, ScoredVersion
<1>4. PICK v : v = [s EXCEPT !.status = "finished"] OBVIOUS
<1>5. v # Nil BY <1>3, <1>4, GoodOver, GoodIsRoom
<1>6. /\ v.status = "finished" /\ v.rounds = s.rounds /\ v.round = s.round
      /\ v.match = s.match /\ v.players = s.players
      BY <1>3, <1>4 DEF RoomState
<1>7. room' = v \/ (room' = room /\ "set" \in Faults)
      BY <1>1, <1>4 DEF AdvanceFinish, SetOk, SetError
<1>8. \E m : Turn(p, Close("close", m)) BY DEF AdvanceFinish
<1> QED BY <1>3, <1>5, <1>6, <1>7, <1>8


-----------------------------------------------------------------------------
(* Every step leaves one process at work, in step with the stored room.    *)

LEMMA StoredLength ==
  ASSUME Alone, room' = room \/ room' = Nil \/ (room # Nil /\ KeepsRound)
  PROVE  FullLength'
<1>1. FullLength BY DEF Alone
<1> QED BY <1>1 DEF FullLength, KeepsRound

LEMMA ReadStaysAlone ==
  ASSUME IndInv, Alone, NEW p \in Proc, OthersRest(p), NEW j, Turn(p, j), UNCHANGED room,
         room # Nil, j.pc \in {"join", "leave", "guess"} => p \in Slot,
         j.pc \in {"join", "leave", "guess", "start", "timeout", "score"}, j.snap = room
  PROVE  Alone'
<1>1. job'[p] = j BY DEF IndInv, TypeOK, Turn
<1>2. InStep(p)' BY <1>1 DEF InStep, Served
<1> QED BY <1>2, StoredLength, TurnStaysAlone

LEMMA AskStaysAlone ==
  ASSUME IndInv, Alone, Quiet, NEW p \in Slot, NEW u \in User, Ask(p, u)
  PROVE  Alone'
<1>1. p \in Proc /\ OthersRest(p) BY QuietIsAlone DEF Proc
<1>2. PICK j : /\ Turn(p, j) /\ j.snap = room
               /\ j.pc \in {"join", "leave", "guess", "start"}
      BY DEF Ask, JoinRead, LeaveRead, StartRead, GuessRead, Serve, Resolve
<1>3. room # Nil /\ UNCHANGED room
      BY DEF Ask, JoinRead, LeaveRead, StartRead, GuessRead
<1> QED BY <1>1, <1>2, <1>3, ReadStaysAlone

LEMMA FireStaysAlone ==
  ASSUME IndInv, Alone, Quiet, NEW t \in Token, Fire(t)
  PROVE  Alone'
<1>1. t \in Proc /\ OthersRest(t) BY QuietIsAlone DEF Proc
<1>2. UNCHANGED room BY DEF Fire, TimerFire, TimerStale
<1>3. CASE TimerFire(t)
  <2>1. room # Nil BY <1>3 DEF TimerFire, RoundOpen
  <2>2. PICK j : j = Resolve("timeout", room) OBVIOUS
  <2>3. Turn(t, j) /\ j.pc = "timeout" /\ j.snap = room BY <1>3, <2>2 DEF TimerFire, Resolve
  <2> QED BY <1>1, <1>2, <2>1, <2>3, ReadStaysAlone
<1>4. CASE TimerStale(t) BY <1>1, <1>2, <1>4, StoredLength, DoneStaysAlone DEF TimerStale
<1> QED BY <1>3, <1>4 DEF Fire

\* A process that is about to resolve the round it has just written.
LEMMA AdvanceStaysAlone ==
  ASSUME IndInv, Alone, NEW p \in Proc, OthersRest(p), Turn(p, Advance(room.token)),
         room # Nil, room.status = "active", KeepsRound
  PROVE  Alone'
<1>1. job'[p] = Advance(room.token) BY DEF IndInv, TypeOK, Turn
<1>2. InStep(p)' BY <1>1 DEF InStep, Advance, Served, KeepsRound, RoundOpen
<1> QED BY <1>2, StoredLength, TurnStaysAlone

\* A draw is no longer than what was asked for.
LEMMA DrawnLength ==
  ASSUME panos \subseteq Pano, NEW n \in Nat, NEW qs \in Draws(n)
  PROVE  Len(qs) <= n
<1>1. Cardinality(panos) \in Nat BY FS_Subset, FS_CardinalityType, RoomAssumption
<1>2. PICK k \in Nat : k <= n /\ qs \in [1..k -> panos] BY <1>1 DEF Draws, Injection
<1>3. Len(qs) = k BY <1>2
<1> QED BY <1>2, <1>3

LEMMA StartInsertStaysAlone ==
  ASSUME IndInv, Alone, NEW p \in Proc, OthersRest(p), StartInsert(p)
  PROVE  Alone' /\ room # Nil /\ room.status = "waiting"
<1>1. job[p].pc = "start" BY DEF StartInsert
<1>2. room # Nil /\ job[p].snap = room /\ Good(room, matches, ended, stored)
      BY <1>1, Held
<1>3. room.status = "waiting" BY <1>1, <1>2 DEF IndInv, Justified, Checked
<1>4. room.rounds = Rounds BY <1>2, <1>3 DEF Alone, FullLength
<1>5. PICK qs \in Draws(Rounds), t \in FreshTokens, m \in {Len(matches) + 1} :
        Turn(p, Resolve("launch", Started(room, qs, m, t)))
      BY <1>2, <1>4 DEF StartInsert
<1>6. Len(qs) <= Rounds BY <1>5, DrawnLength, RoomAssumption DEF IndInv, TypeOK
<1>7. PICK v : v = Started(room, qs, m, t) OBVIOUS
<1>8. v.players = room.players /\ v.round = 1 /\ v.rounds = Len(qs)
      BY <1>2, <1>7 DEF Good, RoomState, Started
<1>9. PICK j : j = Resolve("launch", v) OBVIOUS
<1>10. j.pc = "launch" /\ j.snap = v BY <1>9 DEF Resolve
<1>11. job'[p] = j BY <1>5, <1>7, <1>9 DEF IndInv, TypeOK, Turn
<1>12. UNCHANGED room BY DEF StartInsert
<1>13. InStep(p)' BY <1>2, <1>3, <1>6, <1>8, <1>10, <1>11, <1>12 DEF InStep, Served
<1>14. Turn(p, j) BY <1>5, <1>7, <1>9
<1> QED BY <1>2, <1>3, <1>12, <1>13, <1>14, StoredLength, TurnStaysAlone

LEMMA ScoreStaysAlone ==
  ASSUME IndInv, Alone, NEW p \in Proc, OthersRest(p), AdvanceScore(p)
  PROVE  Alone'
<1>1. PICK j : j = Resolve(AfterRound(room), NobodyGuessed(room)) OBVIOUS
<1>2. room # Nil /\ UNCHANGED room /\ Turn(p, j) BY <1>1, ScoreEffect
<1>3. j.pc \in {"next", "finish"} /\ j.snap = NobodyGuessed(room)
      BY <1>1 DEF Resolve, AfterRound
<1>4. job'[p] = j BY <1>2 DEF IndInv, TypeOK, Turn
<1>5. (NobodyGuessed(room))' = NobodyGuessed(room) BY <1>2
<1>6. InStep(p)' BY <1>2, <1>3, <1>4, <1>5 DEF InStep, Served
<1> QED BY <1>2, <1>6, StoredLength, TurnStaysAlone

\* A process that closes the match.
LEMMA CloseStaysAlone ==
  ASSUME IndInv, NEW p \in Proc, OthersRest(p), NEW pc \in Closed, NEW m,
         Turn(p, Close(pc, m)), FullLength'
  PROVE  Alone'
<1>1. job'[p] = Close(pc, m) BY DEF IndInv, TypeOK, Turn
<1>2. InStep(p)' BY <1>1 DEF InStep, Close, Closed, Served
<1> QED BY <1>2, TurnStaysAlone

LEMMA Workers ==
  ASSUME NEW p \in Proc, Work(p) \/ TimerWrite(p)
  PROVE  ~Resting(p)
<1>1. job[p].pc \notin {"idle", "armed"}
      BY DEF Work, TimerWrite, JoinWrite, LeaveWrite, StartInsert, StartRefused, StartWrite,
             GuessWrite, AdvanceRead, AdvanceStale, AdvanceScore, AdvanceLost, AdvanceNext,
             AdvanceFinish, CloseMatch, TriggerElo
<1> QED BY <1>1, WorkerWorks

LEMMA WorkStaysAlone ==
  ASSUME IndInv, Alone, NEW p \in Proc, Work(p) \/ TimerWrite(p)
  PROVE  Alone'
<1>0. OthersRest(p) BY Workers, WorkerIsAlone
<1>1. CASE JoinWrite(p)
      BY <1>0, <1>1, JoinEffect, StoredLength, DoneStaysAlone DEF JoinWrite
<1>2. CASE LeaveWrite(p)
      BY <1>0, <1>2, LeaveEffect, StoredLength, DoneStaysAlone DEF LeaveWrite
<1>3. CASE StartInsert(p) BY <1>0, <1>3, StartInsertStaysAlone
<1>4. CASE StartRefused(p) \/ AdvanceStale(p) \/ AdvanceLost(p)
  <2>1. Done(p) /\ UNCHANGED room BY <1>4 DEF StartRefused, AdvanceStale, AdvanceLost
  <2> QED BY <1>0, <2>1, StoredLength, DoneStaysAlone
<1>5. CASE StartWrite(p)
  <2>1. /\ room' = room \/ room'.status = "active"
        /\ DoneAndArm(p, room') \/ Done(p)
        BY <1>5, StartEffect
  <2>2. FullLength' BY <2>1 DEF Alone, FullLength
  <2>3. CASE Done(p) BY <1>0, <2>2, <2>3, DoneStaysAlone
  <2>4. CASE DoneAndArm(p, room')
    <3>1. PICK s : s = room' OBVIOUS
    <3> QED BY <1>0, <2>2, <2>4, <3>1, ArmStaysAlone
  <2> QED BY <2>1, <2>3, <2>4
<1>6. CASE GuessWrite(p)
  <2>1. /\ room # Nil /\ room.status = "active" /\ KeepsRound
        /\ Turn(p, Idle) \/ Turn(p, Advance(room.token))
        BY <1>6, GuessEffect
  <2>2. CASE Turn(p, Idle) BY <1>0, <2>1, <2>2, StoredLength, DoneStaysAlone DEF Done
  <2>3. CASE Turn(p, Advance(room.token)) BY <1>0, <2>1, <2>3, AdvanceStaysAlone
  <2> QED BY <2>1, <2>2, <2>3
<1>7. CASE TimerWrite(p)
  <2>1. /\ room # Nil /\ room.status = "active" /\ KeepsRound
        /\ Turn(p, Advance(room.token)) \/ Done(p)
        BY <1>7, TimerEffect
  <2> QED BY <1>0, <2>1, StoredLength, DoneStaysAlone, AdvanceStaysAlone
<1>8. CASE AdvanceRead(p)
  <2>1. PICK j : j = Resolve("score", room) OBVIOUS
  <2>2. /\ room # Nil /\ UNCHANGED room /\ Turn(p, j) /\ j.snap = room /\ j.pc = "score"
        BY <1>8, <2>1 DEF AdvanceRead, RoundOpen, Resolve
  <2> QED BY <1>0, <2>2, ReadStaysAlone
<1>9. CASE AdvanceScore(p) BY <1>0, <1>9, ScoreStaysAlone
<1>10. CASE AdvanceNext(p)
  <2>1. PICK v : DoneAndArm(p, v) BY <1>10, NextEffect
  <2>2. room' = room \/ room'.status = "active" BY <1>10, NextEffect
  <2>3. FullLength' BY <2>2 DEF Alone, FullLength
  <2> QED BY <1>0, <2>1, <2>3, ArmStaysAlone
<1>11. CASE AdvanceFinish(p)
  <2>1. PICK m : Turn(p, Close("close", m)) BY <1>11, FinishEffect
  <2>2. room' = room \/ room'.status = "finished" BY <1>11, FinishEffect
  <2>3. FullLength' BY <2>2 DEF Alone, FullLength
  <2> QED BY <1>0, <2>1, <2>3, CloseStaysAlone DEF Closed
<1>12. CASE CloseMatch(p)
  <2>1. Turn(p, Close("elo", job[p].match)) /\ UNCHANGED room BY <1>12 DEF CloseMatch
  <2>2. PICK m : m = job[p].match OBVIOUS
  <2> QED BY <1>0, <2>1, <2>2, StoredLength, CloseStaysAlone DEF Closed
<1>13. CASE TriggerElo(p)
  <2>1. Done(p) /\ UNCHANGED room BY <1>13 DEF TriggerElo
  <2> QED BY <1>0, <2>1, StoredLength, DoneStaysAlone
<1> QED BY <1>1, <1>2, <1>3, <1>4, <1>5, <1>6, <1>7, <1>8, <1>9, <1>10, <1>11, <1>12, <1>13
        DEF Work

LEMMA StepStaysAlone == IndInv /\ Alone /\ [SerialNext]_vars => Alone'
<1> SUFFICES ASSUME IndInv, Alone, [SerialNext]_vars PROVE Alone' OBVIOUS
<1>1. CASE \E p \in Slot, u \in User : Quiet /\ Ask(p, u) BY <1>1, AskStaysAlone
<1>2. CASE \E t \in Token : Quiet /\ Fire(t) BY <1>2, FireStaysAlone
<1>3. CASE \E p \in Proc : Work(p) BY <1>3, WorkStaysAlone
<1>4. CASE \E t \in Token : TimerWrite(t) BY <1>4, WorkStaysAlone DEF Proc
<1>5. CASE Quiet /\ Expire
  <2>1. room' = Nil /\ UNCHANGED job BY <1>5 DEF Expire
  <2>2. \A q \in Proc : job'[q] \in {Idle, Armed} BY <1>5, <2>1 DEF Quiet
  <2>3. \A q \in Proc : InStep(q)' BY <2>2 DEF InStep, Idle, Armed, Served
  <2> QED BY <2>1, <2>2, <2>3 DEF Alone, FullLength, Resting
<1>6. CASE UNCHANGED vars
  BY <1>6 DEF vars, Alone, InStep, Resting, FullLength, RoundOpen, NobodyGuessed
<1> QED BY <1>1, <1>2, <1>3, <1>4, <1>5, <1>6 DEF SerialNext

LEMMA InitIsAlone == Init => Alone
<1> SUFFICES ASSUME Init PROVE Alone OBVIOUS
<1>1. \A q \in Proc : job[q] = Idle BY DEF Init
<1>2. \A q \in Proc : InStep(q) BY <1>1 DEF InStep, Idle, Served
<1>3. FullLength BY DEF Init, NewRoom, FullLength
<1> QED BY <1>1, <1>2, <1>3 DEF Alone, Resting

-----------------------------------------------------------------------------
(* A player goes by a Leave of his own.                                    *)

\* The players a step takes out of the stored room.
LEMMA WhoGoes ==
  ASSUME IndInv, Alone, SerialNext, NEW u \in User,
         room # Nil, u \in ToSet(room.players), room' # Nil, u \notin ToSet(room'.players)
  PROVE  \E p \in Slot : job[p].pc = "leave" /\ job[p].user = u /\ LeaveWrite(p)
<1>1. room' # room OBVIOUS
<1>2. PICK p \in Proc : Work(p) \/ TimerWrite(p)
  <2>1. ~Expire BY DEF Expire
  <2>2. \A p \in Slot, x \in User : Ask(p, x) => UNCHANGED room
        BY DEF Ask, JoinRead, LeaveRead, StartRead, GuessRead
  <2>3. \A t \in Token : Fire(t) => UNCHANGED room BY DEF Fire, TimerFire, TimerStale
  <2> QED BY <1>1, <2>1, <2>2, <2>3 DEF SerialNext, Proc
<1>3. room'.players # room.players OBVIOUS
<1>4. /\ ~StartInsert(p) /\ ~StartRefused(p) /\ ~AdvanceRead(p) /\ ~AdvanceStale(p)
      /\ ~AdvanceScore(p) /\ ~AdvanceLost(p) /\ ~CloseMatch(p) /\ ~TriggerElo(p)
      BY <1>1 DEF StartInsert, StartRefused, AdvanceRead, AdvanceStale, AdvanceScore,
                  AdvanceLost, CloseMatch, TriggerElo
<1>5. ~JoinWrite(p) BY JoinEffect
<1>6. ~GuessWrite(p) BY <1>3, GuessEffect
<1>7. ~TimerWrite(p) BY <1>3, TimerEffect
<1>8. ~StartWrite(p) BY <1>3, StartEffect
<1>9. ~AdvanceNext(p) BY <1>3, NextEffect
<1>10. ~AdvanceFinish(p) BY <1>3, FinishEffect
<1>11. LeaveWrite(p) BY <1>2, <1>4, <1>5, <1>6, <1>7, <1>8, <1>9, <1>10 DEF Work
<1>12. p \in Slot /\ job[p].user = u BY <1>11, LeaveEffect
<1> QED BY <1>11, <1>12 DEF LeaveWrite

-----------------------------------------------------------------------------
(* The match is played in order.                                           *)

\* Who is between rounds, and who launches, when p works alone.
LEMMA Standing ==
  ASSUME NEW p \in Proc, OthersRest(p)
  PROVE  /\ Between <=> job[p].pc \in {"next", "finish"}
         /\ Launching <=> job[p].pc = "launch"
<1>1. \A q \in Proc : q # p => job[q].pc \in {"idle", "armed"}
      BY RestIsInStep DEF OthersRest
<1> QED BY <1>1 DEF Between, Launching

LEMMA StandingNext ==
  ASSUME IndInv, NEW p \in Proc, OthersRest(p), NEW j, Turn(p, j)
  PROVE  /\ job'[p] = j /\ \A q \in Proc : q # p => job'[q] = job[q]
         /\ Between' <=> j.pc \in {"next", "finish"}
         /\ Launching' <=> j.pc = "launch"
<1>1. job'[p] = j /\ \A q \in Proc : q # p => job'[q] = job[q]
      BY DEF IndInv, TypeOK, Turn
<1>2. \A q \in Proc : q # p => job'[q].pc \in {"idle", "armed"}
      BY <1>1, RestIsInStep DEF OthersRest
<1> QED BY <1>1, <1>2 DEF Between, Launching

\* Job j resolves the round of token t.
Resolver(j, t) ==
  \/ j = Advance(t)
  \/ j.pc \in {"timeout", "score", "next", "finish"} /\ j.snap.token = t

LEMMA ResolvingOne ==
  ASSUME NEW p \in Proc, OthersRest(p), NEW t, Resolving(t)
  PROVE  job[t] = Armed \/ Resolver(job[p], t)
<1>1. \A q \in Proc : q # p => job[q].pc \in {"idle", "armed"}
      BY RestIsInStep DEF OthersRest
<1>2. \A q \in Proc : q # p => ~Resolver(job[q], t)
      BY <1>1 DEF Resolver, Advance
<1>3. job[t] = Armed \/ \E q \in Proc : Resolver(job[q], t) BY DEF Resolving, Resolver
<1> QED BY <1>2, <1>3

\* The round stays driven while p turns to j.
LEMMA StaysResolving ==
  ASSUME IndInv, NEW p \in Proc, OthersRest(p), NEW j, Turn(p, j),
         NEW t \in Token, Resolving(t),
         Resolver(job[p], t) => Resolver(j, t),
         p = t /\ job[p] = Armed => Resolver(j, t)
  PROVE  Resolving(t)'
<1>1. t \in Proc BY DEF Proc
<1>2. job'[p] = j /\ \A q \in Proc : q # p => job'[q] = job[q] BY StandingNext
<1>3. CASE Resolver(j, t) BY <1>2, <1>3 DEF Resolver, Resolving
<1>4. CASE ~Resolver(j, t)
  <2>1. job[t] = Armed /\ p # t BY <1>4, ResolvingOne
  <2> QED BY <1>1, <1>2, <2>1 DEF Resolving
<1> QED BY <1>3, <1>4

\* A process that resolves nothing does not hold the round.
LEMMA NoResolver ==
  ASSUME NEW j, j.pc \notin {"advance", "timeout", "score", "next", "finish"}
  PROVE  \A t : ~Resolver(j, t)
BY DEF Resolver, Advance

\* The stored room in words the lemmas below use.
LEMMA StoredRound ==
  ASSUME IndInv, room # Nil
  PROVE  /\ room \in RoomState /\ room.status \in Status
         /\ room.status = "waiting" => room.match = 0 /\ room.round = 0
         /\ room.status # "waiting" => /\ room.match \in 1..Len(matches)
                                       /\ room.round \in 1..room.rounds
                                       /\ room.token \in Token
                                       /\ room.pano \in Pano
<1>1. Good(room, matches, ended, stored) /\ room \in RoomState BY StoredRoom
<1>2. room.status \in Status /\ room.token \in Token \cup {Nil} /\ room.panos \in Seq(Pano)
      BY <1>1 DEF RoomState
<1>3. room.status = "waiting" => room.match = 0 /\ room.round = 0
      BY <1>1 DEF Good, Playable
<1>4. room.status # "waiting" =>
        /\ room.match \in 1..Len(matches) /\ room.round \in 1..room.rounds
        /\ room.token \in Token
        /\ room.rounds = Len(room.panos) /\ room.pano = room.panos[room.round]
      BY <1>1, <1>2 DEF Good, Playable
<1>5. room.status # "waiting" => room.pano \in Pano BY <1>2, <1>4, ElementOfSeq
<1> QED BY <1>1, <1>2, <1>3, <1>4, <1>5

\* A step that leaves the room in its round and announces nothing.
LEMMA SameRoundInOrder ==
  ASSUME IndInv, InOrder, NEW p \in Proc, OthersRest(p), NEW j, Turn(p, j),
         room' = room \/ KeepsRound, room # Nil, UNCHANGED <<panos, ended>>,
         Len(matches') = Len(matches), matches = <<>> => matches' = <<>>,
         room.status = "active" => /\ Resolver(job[p], room.token) => Resolver(j, room.token)
                                   /\ p = room.token /\ job[p] = Armed => Resolver(j, room.token),
         job[p].pc # "launch", job[p].pc \notin {"next", "finish"},
         j.pc \notin {"next", "finish"}
  PROVE  InOrder'
<1>1. /\ room' # Nil
      /\ room'.status = room.status /\ room'.rounds = room.rounds /\ room'.round = room.round
      /\ room'.token = room.token /\ room'.match = room.match
      BY DEF KeepsRound
<1>2. ~Between /\ ~Launching /\ ~Between' BY Standing, StandingNext
<1>3. ASSUME room.status = "active" PROVE Resolving(room.token)'
  <2>1. PICK t : t = room.token OBVIOUS
  <2>2. t \in Token BY <1>3, <2>1, StoredRound
  <2>3. Resolving(t) BY <1>3, <2>1 DEF InOrder, OpenRoundIsDriven
  <2>4. Resolving(t)' BY <1>3, <2>1, <2>2, <2>3, StaysResolving
  <2> QED BY <1>1, <2>1, <2>4 DEF Resolving
<1>4. OpenRoundIsDriven' BY <1>1, <1>3 DEF OpenRoundIsDriven
<1>5. RoundsDone' = RoundsDone BY <1>1, <1>2 DEF RoundsDone
<1> QED BY <1>1, <1>2, <1>4, <1>5 DEF InOrder

\* A room that is gone has no round to be driven.
LEMMA GoneInOrder ==
  ASSUME InOrder, room' = Nil, UNCHANGED panos, Len(matches') = Len(matches)
  PROVE  InOrder'
BY DEF InOrder, OpenRoundIsDriven

LEMMA AskInOrder ==
  ASSUME IndInv, InOrder, Quiet, NEW p \in Slot, NEW u \in User, Ask(p, u)
  PROVE  InOrder'
<1>1. p \in Proc /\ OthersRest(p) BY QuietIsAlone DEF Proc
<1>2. PICK j : Turn(p, j) /\ j.pc \in {"join", "leave", "guess", "start"}
      BY DEF Ask, JoinRead, LeaveRead, StartRead, GuessRead, Serve, Resolve
<1>3. /\ room # Nil /\ UNCHANGED <<room, panos, matches, ended>>
      /\ job[p].pc = "idle"
      BY DEF Ask, JoinRead, LeaveRead, StartRead, GuessRead, database, history, Idle
<1>4. ~Resolver(job[p], room.token) /\ job[p] # Armed
      BY <1>3, NoResolver DEF Armed
<1> QED BY <1>1, <1>2, <1>3, <1>4, SameRoundInOrder

LEMMA FireInOrder ==
  ASSUME IndInv, InOrder, Quiet, NEW t \in Token, Fire(t)
  PROVE  InOrder'
<1>1. t \in Proc /\ OthersRest(t) BY QuietIsAlone DEF Proc
<1>2. UNCHANGED <<room, panos, matches, ended>> /\ job[t].pc = "armed"
      BY DEF Fire, TimerFire, TimerStale, database, history
<1>3. ~Resolver(job[t], room.token) BY <1>2, NoResolver
<1>4. CASE TimerFire(t)
  <2>1. PICK j : j = Resolve("timeout", room) OBVIOUS
  <2>2. room # Nil /\ Turn(t, j) BY <1>4, <2>1 DEF TimerFire, RoundOpen
  <2>3. j.pc = "timeout" /\ j.snap = room BY <2>1 DEF Resolve
  <2>4. Resolver(j, room.token) BY <2>3 DEF Resolver
  <2> QED BY <1>1, <1>2, <2>2, <2>3, <2>4, SameRoundInOrder
<1>5. CASE TimerStale(t) /\ room = Nil BY <1>2, <1>5, GoneInOrder
<1>6. CASE TimerStale(t) /\ room # Nil
  <2>1. Turn(t, Idle) /\ Idle.pc = "idle" BY <1>6 DEF TimerStale, Done, Idle
  <2>2. room.status = "active" => t # room.token BY <1>6 DEF TimerStale, RoundOpen
  <2> QED BY <1>1, <1>2, <1>3, <1>6, <2>1, <2>2, SameRoundInOrder
<1> QED BY <1>4, <1>5, <1>6 DEF Fire

\* A process that works on nothing the round waits for stops.
LEMMA DoneInOrder ==
  ASSUME IndInv, InOrder, NEW p \in Proc, OthersRest(p), Done(p),
         job[p].pc \in {"join", "leave", "guess", "start", "close", "elo"},
         UNCHANGED <<panos, matches, ended>>,
         room' = Nil \/ room' = room \/ (room # Nil /\ KeepsRound)
  PROVE  InOrder'
<1>1. Turn(p, Idle) /\ Idle.pc = "idle" BY DEF Done, Idle
<1>2. \A t : ~Resolver(job[p], t) BY NoResolver
<1>3. job[p] # Armed BY DEF Armed
<1>4. CASE room' = Nil BY <1>4, GoneInOrder
<1>5. CASE room' # Nil BY <1>1, <1>2, <1>3, <1>5, SameRoundInOrder
<1> QED BY <1>4, <1>5

\* A process that goes on to resolve the round it holds.
LEMMA DrivesOn ==
  ASSUME IndInv, InOrder, NEW p \in Proc, OthersRest(p), NEW j, Turn(p, j),
         Resolver(j, room.token), j.pc \in {"advance", "score"},
         job[p].pc \in {"guess", "timeout", "advance"},
         UNCHANGED <<panos, matches, ended>>,
         room # Nil, room' = room \/ KeepsRound
  PROVE  InOrder'
BY SameRoundInOrder

LEMMA StartInsertInOrder ==
  ASSUME IndInv, Alone, InOrder, NEW p \in Proc, OthersRest(p), StartInsert(p)
  PROVE  InOrder'
<1>1. job[p].pc = "start" /\ UNCHANGED <<room, panos, ended>>
      BY DEF StartInsert, history
<1>2. room # Nil /\ room.status = "waiting" BY StartInsertStaysAlone
<1>3. PICK j : Turn(p, j) /\ j.pc = "launch" BY DEF StartInsert, Resolve
<1>4. ~Between /\ ~Launching /\ ~Between' /\ Launching'
      BY <1>1, <1>3, Standing, StandingNext
<1>5. matches = <<>> BY <1>2, <1>4 DEF InOrder
<1>6. PICK e : matches' = Append(matches, e) BY DEF StartInsert
<1>7. Len(matches') = 1 BY <1>5, <1>6
<1>8. OpenRoundIsDriven' BY <1>1, <1>2 DEF OpenRoundIsDriven
<1>9. RoundsDone' = RoundsDone BY <1>1, <1>2 DEF RoundsDone
<1> QED BY <1>1, <1>2, <1>4, <1>7, <1>8, <1>9 DEF InOrder

\* The timer of the round that was opened is armed.
LEMMA ArmedInOrder ==
  ASSUME IndInv, NEW p \in Proc, OthersRest(p), DoneAndArm(p, room'), room'.token \in Token
  PROVE  Resolving(room.token)' /\ ~Between' /\ ~Launching'
<1>1. job'[room'.token] = Armed BY DEF IndInv, TypeOK, DoneAndArm, Proc
<1>2. \A q \in Proc : job'[q] \in {Idle, Armed}
      BY DEF IndInv, TypeOK, DoneAndArm, OthersRest, Resting
<1>3. \A q \in Proc : job'[q].pc \in {"idle", "armed"} BY <1>2 DEF Idle, Armed
<1> QED BY <1>1, <1>3 DEF Resolving, Between, Launching

LEMMA StartWriteInOrder ==
  ASSUME IndInv, Alone, InOrder, NothingFails, NEW p \in Proc, OthersRest(p), StartWrite(p)
  PROVE  InOrder'
<1>1. job[p].pc = "launch" /\ UNCHANGED <<panos, matches, ended>>
      BY DEF StartWrite, database, history
<1>2. room # Nil /\ room.status = "waiting" /\ room' = job[p].snap /\ DoneAndArm(p, room')
      BY StartEffect DEF NothingFails
<1>3. /\ job[p].snap # Nil /\ job[p].snap.status = "active" /\ job[p].snap.round = 1
      /\ job[p].snap.token \in Token /\ job[p].snap.match \in 1..Len(matches)
  <2>1. Good(job[p].snap, matches, ended, stored) /\ job[p].snap.status = "active"
        BY <1>1, JobFields DEF IndInv, Justified, Checked, Resolved
  <2>2. job[p].snap # Nil /\ job[p].snap \in RoomState BY <2>1, GoodIsRoom
  <2>3. job[p].snap.round = 1 BY <1>1 DEF Alone, InStep
  <2> QED BY <2>1, <2>2, <2>3 DEF Good, Playable, RoomState
<1>4. Resolving(room.token)' /\ ~Between' BY <1>2, <1>3, ArmedInOrder
<1>5. RoundsDone = 0 BY <1>2 DEF RoundsDone
<1>6. ended = {} BY <1>2, <1>5 DEF InOrder
<1>7. RoundsDone' = 0 BY <1>2, <1>3, <1>4 DEF RoundsDone
<1>8. ended' = {room'.match} \X (1..RoundsDone') BY <1>1, <1>6, <1>7
<1> QED BY <1>1, <1>2, <1>3, <1>4, <1>8 DEF InOrder, OpenRoundIsDriven

LEMMA ScoreInOrder ==
  ASSUME IndInv, Alone, InOrder, NEW p \in Proc, OthersRest(p), AdvanceScore(p)
  PROVE  InOrder'
<1>1. job[p].pc = "score" BY DEF AdvanceScore
<1>2. PICK j : j = Resolve(AfterRound(room), NobodyGuessed(room)) OBVIOUS
<1>3. /\ room # Nil /\ room.status = "active" /\ job[p].snap = room
      /\ ended' = ended \cup {<<room.match, room.round>>}
      /\ UNCHANGED <<room, matches, panos>> /\ Turn(p, j)
      BY <1>2, ScoreEffect
<1>4. /\ room \in RoomState /\ room.match \in 1..Len(matches) /\ room.round \in 1..room.rounds
      /\ room.token \in Token /\ room.rounds \in Nat
      BY <1>3, StoredRound DEF RoomState
<1>5. j.pc \in {"next", "finish"} /\ j.snap.token = room.token
      BY <1>2, <1>4 DEF Resolve, AfterRound, NobodyGuessed, RoomState
<1>6. ~Between /\ ~Launching /\ Between' BY <1>1, <1>3, <1>5, Standing, StandingNext
<1>7. PICK t : t = room.token OBVIOUS
<1>8. Resolving(t)'
  <2>1. Resolving(t) BY <1>3, <1>7 DEF InOrder, OpenRoundIsDriven
  <2>2. Resolver(j, t) BY <1>5, <1>7 DEF Resolver
  <2> QED BY <1>3, <1>4, <1>7, <2>1, <2>2, StaysResolving
<1>9. OpenRoundIsDriven' BY <1>3, <1>7, <1>8 DEF OpenRoundIsDriven, Resolving
<1>10. RoundsDone = room.round - 1 /\ RoundsDone' = room.round
       BY <1>3, <1>6 DEF RoundsDone
<1>11. ended = {room.match} \X (1..(room.round - 1)) BY <1>3, <1>10 DEF InOrder
<1>12. 1..room.round = 1..(room.round - 1) \cup {room.round} BY <1>4
<1>13. ended' = {room.match} \X (1..room.round) BY <1>3, <1>11, <1>12
<1>14. room'.match = room.match /\ room' # Nil /\ room'.status = "active" BY <1>3
<1> QED BY <1>3, <1>9, <1>10, <1>13, <1>14 DEF InOrder

LEMMA NextInOrder ==
  ASSUME IndInv, Alone, InOrder, NothingFails, NEW p \in Proc, OthersRest(p), AdvanceNext(p)
  PROVE  InOrder'
<1>1. job[p].pc = "next" /\ UNCHANGED <<panos, matches, ended>>
      BY DEF AdvanceNext, database, history
<1>2. /\ room # Nil /\ room.status = "active"
      /\ room' # Nil /\ room'.status = "active"
      /\ room'.round = room.round + 1 /\ room'.match = room.match /\ room'.token \in Token
      BY NextEffect DEF NothingFails
<1>3. DoneAndArm(p, room') BY NextEffect DEF NothingFails
<1>4. Resolving(room.token)' /\ ~Between' BY <1>2, <1>3, ArmedInOrder
<1>5. Between BY <1>1, Standing
<1>6. room.round \in Nat BY <1>2, StoredRound DEF RoomState
<1>7. RoundsDone = room.round /\ RoundsDone' = room.round
      BY <1>2, <1>4, <1>5, <1>6 DEF RoundsDone
<1> QED BY <1>1, <1>2, <1>4, <1>7 DEF InOrder, OpenRoundIsDriven

LEMMA FinishInOrder ==
  ASSUME IndInv, Alone, InOrder, NothingFails, NEW p \in Proc, OthersRest(p), AdvanceFinish(p)
  PROVE  InOrder'
<1>1. job[p].pc = "finish" /\ UNCHANGED <<panos, matches, ended>>
      BY DEF AdvanceFinish, database, history
<1>2. /\ room # Nil /\ room.status = "active" /\ room.round = room.rounds
      /\ room' # Nil /\ room'.status = "finished" /\ room'.rounds = room.rounds
      /\ room'.round = room.round /\ room'.match = room.match
      BY FinishEffect DEF NothingFails
<1>3. Between BY <1>1, Standing
<1>4. RoundsDone = room.round /\ RoundsDone' = room.round BY <1>2, <1>3 DEF RoundsDone
<1> QED BY <1>1, <1>2, <1>4 DEF InOrder, OpenRoundIsDriven

LEMMA CloseInOrder ==
  ASSUME IndInv, InOrder, NEW p \in Proc, OthersRest(p), CloseMatch(p)
  PROVE  InOrder'
<1>1. /\ job[p].pc = "close" /\ UNCHANGED <<room, panos, ended>>
      /\ Turn(p, Close("elo", job[p].match))
      BY DEF CloseMatch, history
<1>2. PICK j : j = Close("elo", job[p].match) OBVIOUS
<1>3. Turn(p, j) /\ j.pc = "elo" BY <1>1, <1>2 DEF Close
<1>4. Len(matches') = Len(matches) /\ matches # <<>>
  <2>1. job[p].match \in 1..Len(matches) BY <1>1 DEF IndInv, Justified, Over, Closed
  <2>2. PICK m, k : /\ m = job[p].match /\ k = [matches[m] EXCEPT !.status = "finished"]
                    /\ k \in [status: {"active", "finished"}, rounds: Nat]
    <3>1. PICK m, x : m = job[p].match /\ x = matches[m] OBVIOUS
    <3>2. x \in [status: {"active", "finished"}, rounds: Nat]
          BY <2>1, <3>1, ElementOfSeq DEF IndInv, TypeOK
    <3>3. PICK k : k = [x EXCEPT !.status = "finished"] OBVIOUS
    <3>4. k \in [status: {"active", "finished"}, rounds: Nat] BY <3>2, <3>3
    <3> QED BY <3>1, <3>3, <3>4
  <2>3. matches' = matches \/ matches' = [matches EXCEPT ![m] = k]
        BY <2>2 DEF CloseMatch
  <2>4. Len([matches EXCEPT ![m] = k]) = Len(matches)
        BY <2>1, <2>2, ExceptSeq DEF IndInv, TypeOK
  <2> QED BY <2>1, <2>3, <2>4
<1>5. \A t : ~Resolver(job[p], t) BY <1>1, NoResolver
<1>6. job[p] # Armed BY <1>1 DEF Armed
<1>7. CASE room = Nil BY <1>1, <1>4, <1>7, GoneInOrder
<1>8. CASE room # Nil BY <1>1, <1>3, <1>4, <1>5, <1>6, <1>8, SameRoundInOrder
<1> QED BY <1>7, <1>8

\* The panorama of the round can be read.
LEMMA NothingIsLost ==
  ASSUME IndInv, Alone, InOrder, NothingFails, NEW p \in Proc
  PROVE  ~AdvanceLost(p) /\ ~AdvanceStale(p)
<1>1. ~AdvanceLost(p)
  <2>1. SUFFICES ASSUME job[p].pc = "score"
                 PROVE  job[p].snap.pano \in panos
        BY DEF AdvanceLost, NothingFails
  <2>2. room # Nil /\ job[p].snap = room /\ room.status = "active"
        BY <2>1, Held DEF IndInv, Justified, Checked
  <2> QED BY <2>2, StoredRound DEF InOrder
<1>2. ~AdvanceStale(p) BY DEF AdvanceStale, Alone, InStep
<1> QED BY <1>1, <1>2

LEMMA WorkInOrder ==
  ASSUME IndInv, Alone, InOrder, NothingFails, NEW p \in Proc, Work(p) \/ TimerWrite(p)
  PROVE  InOrder'
<1>0. OthersRest(p) BY Workers, WorkerIsAlone
<1>1. CASE JoinWrite(p)
  <2>1. Done(p) /\ job[p].pc = "join" /\ UNCHANGED <<panos, matches, ended>>
        BY <1>1 DEF JoinWrite, database, history
  <2> QED BY <1>0, <1>1, <2>1, JoinEffect, DoneInOrder
<1>2. CASE LeaveWrite(p)
  <2>1. Done(p) /\ job[p].pc = "leave" /\ UNCHANGED <<panos, matches, ended>>
        BY <1>2 DEF LeaveWrite, database, history
  <2>2. room # Nil /\ (room' = Nil \/ KeepsRound) BY <1>2, LeaveEffect
  <2> QED BY <1>0, <2>1, <2>2, DoneInOrder
<1>3. CASE StartInsert(p) BY <1>0, <1>3, StartInsertInOrder
<1>4. CASE StartRefused(p)
  <2>1. Done(p) /\ job[p].pc = "start" /\ UNCHANGED <<room, panos, matches, ended>>
        BY <1>4 DEF StartRefused, database, history
  <2> QED BY <1>0, <2>1, DoneInOrder
<1>5. CASE StartWrite(p) BY <1>0, <1>5, StartWriteInOrder
<1>6. CASE GuessWrite(p)
  <2>1. job[p].pc = "guess" /\ UNCHANGED <<panos, matches, ended>>
        BY <1>6 DEF GuessWrite, database
  <2>2. /\ room # Nil /\ KeepsRound
        /\ Done(p) \/ Turn(p, Advance(room.token))
        BY <1>6, GuessEffect DEF Done
  <2>3. CASE Done(p) BY <1>0, <2>1, <2>2, <2>3, DoneInOrder
  <2>4. CASE Turn(p, Advance(room.token))
    <3>1. PICK j : j = Advance(room.token) OBVIOUS
    <3>2. Resolver(j, room.token) /\ j.pc = "advance" BY <3>1 DEF Resolver, Advance
    <3> QED BY <1>0, <2>1, <2>2, <2>4, <3>1, <3>2, DrivesOn
  <2> QED BY <2>2, <2>3, <2>4
<1>7. CASE TimerWrite(p)
  <2>1. job[p].pc = "timeout" /\ UNCHANGED <<panos, matches, ended>>
        BY <1>7 DEF TimerWrite, database, history
  <2>2. room # Nil /\ KeepsRound /\ Turn(p, Advance(room.token))
        BY <1>7, TimerEffect DEF NothingFails
  <2>3. PICK j : j = Advance(room.token) OBVIOUS
  <2>4. Resolver(j, room.token) /\ j.pc = "advance" BY <2>3 DEF Resolver, Advance
  <2> QED BY <1>0, <2>1, <2>2, <2>3, <2>4, DrivesOn
<1>8. CASE AdvanceRead(p)
  <2>1. PICK j : j = Resolve("score", room) OBVIOUS
  <2>2. /\ room # Nil /\ Turn(p, j) /\ job[p].pc = "advance"
        /\ UNCHANGED <<room, panos, matches, ended>>
        BY <1>8, <2>1 DEF AdvanceRead, RoundOpen, database, history
  <2>3. j.pc = "score" /\ Resolver(j, room.token) BY <2>1 DEF Resolver, Resolve
  <2> QED BY <1>0, <2>2, <2>3, DrivesOn
<1>9. CASE AdvanceScore(p) BY <1>0, <1>9, ScoreInOrder
<1>10. CASE AdvanceNext(p) BY <1>0, <1>10, NextInOrder
<1>11. CASE AdvanceFinish(p) BY <1>0, <1>11, FinishInOrder
<1>12. CASE CloseMatch(p) BY <1>0, <1>12, CloseInOrder
<1>13. CASE TriggerElo(p)
  <2>1. Done(p) /\ job[p].pc = "elo" /\ UNCHANGED <<room, panos, matches, ended>>
        BY <1>13 DEF TriggerElo, database
  <2> QED BY <1>0, <2>1, DoneInOrder
<1>14. ~AdvanceLost(p) /\ ~AdvanceStale(p) BY NothingIsLost
<1> QED BY <1>1, <1>2, <1>3, <1>4, <1>5, <1>6, <1>7, <1>8, <1>9, <1>10, <1>11, <1>12, <1>13,
           <1>14
        DEF Work

LEMMA StepInOrder ==
  IndInv /\ Alone /\ InOrder /\ NothingFails /\ [SerialNext]_vars => InOrder'
<1> SUFFICES ASSUME IndInv, Alone, InOrder, NothingFails, [SerialNext]_vars PROVE InOrder'
    OBVIOUS
<1>1. CASE \E p \in Slot, u \in User : Quiet /\ Ask(p, u) BY <1>1, AskInOrder
<1>2. CASE \E t \in Token : Quiet /\ Fire(t) BY <1>2, FireInOrder
<1>3. CASE \E p \in Proc : Work(p) BY <1>3, WorkInOrder
<1>4. CASE \E t \in Token : TimerWrite(t) BY <1>4, WorkInOrder DEF Proc
<1>5. CASE Quiet /\ Expire BY <1>5, GoneInOrder DEF Expire, database
<1>6. CASE UNCHANGED vars
      BY <1>6 DEF vars, InOrder, OpenRoundIsDriven, Resolving, Launching, Between, RoundsDone
<1> QED BY <1>1, <1>2, <1>3, <1>4, <1>5, <1>6 DEF SerialNext

LEMMA InitIsInOrder == Init => InOrder
<1> SUFFICES ASSUME Init PROVE InOrder OBVIOUS
<1>1. /\ panos = Pano /\ matches = <<>> /\ ended = {}
      /\ room.status = "waiting" /\ room.match = 0
      BY DEF Init, NewRoom
<1>2. RoundsDone = 0 BY <1>1 DEF RoundsDone
<1> QED BY <1>1, <1>2 DEF InOrder, OpenRoundIsDriven

-----------------------------------------------------------------------------
(* What the invariant says of a match and of a round.                      *)

LEMMA InvariantImpliesOneMatch == IndInv /\ InOrder => OneMatch
<1> SUFFICES ASSUME IndInv, InOrder PROVE OneMatch OBVIOUS
<1>1. Len(matches) \in Nat /\ Len(matches) <= 1
      BY LenProperties DEF IndInv, TypeOK, InOrder
<1>2. ASSUME Quiet, room # Nil PROVE room.match = Len(matches)
  <2>1. \A q \in Proc : job[q].pc \in {"idle", "armed"} BY <1>2 DEF Quiet, Idle, Armed
  <2>2. ~Launching BY <2>1 DEF Launching
  <2>3. CASE room.status = "waiting"
    <3>1. matches = <<>> BY <1>2, <2>2, <2>3 DEF InOrder
    <3> QED BY <1>2, <2>3, <3>1, StoredRound
  <2>4. CASE room.status # "waiting"
    <3>1. room.match \in 1..Len(matches) BY <1>2, <2>4, StoredRound
    <3> QED BY <1>1, <3>1
  <2> QED BY <2>3, <2>4
<1> QED BY <1>1, <1>2 DEF OneMatch

LEMMA ScoredOnce ==
  ASSUME IndInv, Alone, InOrder, NEW p \in Proc, AdvanceScore(p)
  PROVE  <<job[p].snap.match, job[p].snap.round>> \notin ended
<1>1. job[p].pc = "score" BY DEF AdvanceScore
<1>2. OthersRest(p) BY <1>1, WorkerWorks, WorkerIsAlone
<1>3. room # Nil /\ room.status = "active" /\ job[p].snap = room BY ScoreEffect
<1>4. ~Between BY <1>1, <1>2, Standing
<1>5. RoundsDone = room.round - 1 /\ room.round \in Nat
      BY <1>3, <1>4, StoredRound DEF RoundsDone, RoomState
<1>6. ended = {room.match} \X (1..(room.round - 1)) BY <1>3, <1>5 DEF InOrder
<1> QED BY <1>3, <1>5, <1>6

-----------------------------------------------------------------------------
(* The lifecycle.                                                          *)

LEMMA CountedRounds ==
  ASSUME NEW m, NEW n \in Nat, ended = {m} \X (1..n)
  PROVE  RoundsClosed(m) = n
<1>1. {e \in ended : e[1] = m} = {m} \X (1..n) OBVIOUS
<1>2. IsFiniteSet({m}) /\ Cardinality({m}) = 1 BY FS_Singleton
<1>3. IsFiniteSet(1..n) /\ Cardinality(1..n) = n BY FS_Interval
<1>4. Cardinality({m} \X (1..n)) = 1 * n BY <1>2, <1>3, FS_Product
<1>5. RoundsClosed(m) = Cardinality({m} \X (1..n)) BY <1>1, Zenon DEF RoundsClosed
<1> QED BY <1>4, <1>5

\* How the stored room is mapped.
MappedRoom ==
  /\ RoundsAnnounced = RoundsDone /\ RoundsDone \in Nat
  /\ Round = room.round /\ Round \in Nat
  /\ Length = IF room.status = "waiting" THEN 0 ELSE room.rounds
  /\ Phase = IF room.status = "waiting" THEN "open"
             ELSE IF room.status = "active" THEN "playing" ELSE "over"

LEMMA Mapped == IndInv /\ InOrder /\ room # Nil => MappedRoom
<1> SUFFICES ASSUME IndInv, InOrder, room # Nil PROVE MappedRoom OBVIOUS
<1>1. room.status \in Status /\ room.round \in Nat
      BY StoredRound DEF RoomState
<1>2. room.status # "waiting" => room.round >= 1 BY StoredRound
<1>3. RoundsDone \in Nat BY <1>1, <1>2 DEF RoundsDone
<1>4. PICK m, n : m = room.match /\ n = RoundsDone OBVIOUS
<1>5. ended = {m} \X (1..n) BY <1>4 DEF InOrder
<1>6. RoundsClosed(m) = n BY <1>3, <1>4, <1>5, CountedRounds
<1>7. RoundsAnnounced = RoundsDone BY <1>4, <1>6 DEF RoundsAnnounced
<1> QED BY <1>1, <1>3, <1>7 DEF MappedRoom, Round, Length, Phase, Status

LEMMA MappedNext == (IndInv /\ InOrder /\ room # Nil)' => MappedRoom'
BY Mapped, PTL

LEMMA MappedGoneNext ==
  room' = Nil => Phase' = "gone" /\ Length' = 0 /\ Round' = 0 /\ RoundsAnnounced' = 0
BY DEF Phase, Length, Round, RoundsAnnounced

\* The invariant of the serial room before and after a step.
SerialInv == IndInv /\ Alone /\ InOrder

LEMMA StutterMaps ==
  ASSUME SerialInv, UNCHANGED ended, room # Nil, room' = room \/ KeepsRound
  PROVE  UNCHANGED Lifecycle!lvars
<1>1. /\ room' # Nil
      /\ room'.status = room.status /\ room'.rounds = room.rounds /\ room'.round = room.round
      /\ room'.match = room.match
      BY DEF KeepsRound
<1>2. RoundsClosed(room.match)' = RoundsClosed(room.match) BY <1>1 DEF RoundsClosed
<1>3. UNCHANGED <<Length, Round, RoundsAnnounced>>
      BY <1>1, <1>2 DEF Length, Round, RoundsAnnounced
<1>4. room.status \in Status BY StoredRound DEF SerialInv
<1>5. UNCHANGED Phase BY <1>1, <1>4 DEF Phase, Status
<1> QED BY <1>3, <1>5 DEF Lifecycle!lvars

LEMMA VanishMaps ==
  ASSUME SerialInv, room # Nil, room' = Nil
  PROVE  Lifecycle!Next
<1>1. Phase # "gone" BY Mapped DEF SerialInv, MappedRoom
<1> QED BY <1>1, MappedGoneNext DEF Lifecycle!Next, Lifecycle!Vanish

LEMMA StartMaps ==
  ASSUME SerialInv, SerialInv', NothingFails, NEW p \in Proc, StartWrite(p)
  PROVE  Lifecycle!Next
<1>1. /\ room # Nil /\ room.status = "waiting"
      /\ room' # Nil /\ room'.status = "active" /\ room'.round = 1 /\ room'.rounds \in 1..Rounds
  <2>1. job[p].pc = "launch" BY DEF StartWrite
  <2>2. room # Nil /\ room.status = "waiting" /\ room' = job[p].snap
        BY StartEffect DEF SerialInv, NothingFails
  <2>3. job[p].snap.status = "active"
        BY <2>1, <2>2 DEF SerialInv, IndInv, Justified, Checked
  <2> QED BY <2>2, <2>3, StartEffect DEF SerialInv
<1>2. MappedRoom /\ MappedRoom' BY <1>1, Mapped, MappedNext DEF SerialInv
<1>3. RoundsDone = 0 BY <1>1 DEF RoundsDone
<1>4. RoundsDone' = 0
  <2>1. UNCHANGED ended BY DEF StartWrite, history
  <2>2. ended' = {} BY <1>1, <1>3, <2>1 DEF SerialInv, InOrder
  <2>3. ended' = {room'.match} \X (1..RoundsDone') BY <1>1 DEF SerialInv, InOrder
  <2>4. PICK m, n : m = room'.match /\ n = RoundsDone' /\ n \in Nat BY <1>2 DEF MappedRoom
  <2>5. n >= 1 => <<m, 1>> \in {m} \X (1..n) OBVIOUS
  <2> QED BY <2>2, <2>3, <2>4, <2>5
<1>5. /\ Phase = "open" /\ Phase' = "playing" /\ Length' \in 1..Rounds /\ Round' = 1
      /\ RoundsAnnounced' = RoundsAnnounced
      BY <1>1, <1>2, <1>3, <1>4 DEF MappedRoom
<1> QED BY <1>5 DEF Lifecycle!Next, Lifecycle!Start

LEMMA ScoreMaps ==
  ASSUME SerialInv, SerialInv', NEW p \in Proc, AdvanceScore(p)
  PROVE  Lifecycle!Next
<1>1. job[p].pc = "score" /\ OthersRest(p)
      BY WorkerWorks, WorkerIsAlone DEF AdvanceScore, SerialInv
<1>2. PICK j : j = Resolve(AfterRound(room), NobodyGuessed(room)) OBVIOUS
<1>3. room # Nil /\ room.status = "active" /\ UNCHANGED room /\ Turn(p, j)
      BY <1>2, ScoreEffect DEF SerialInv
<1>4. j.pc \in {"next", "finish"} BY <1>2 DEF Resolve, AfterRound
<1>5. ~Between /\ Between' BY <1>1, <1>3, <1>4, Standing, StandingNext DEF SerialInv
<1>6. MappedRoom /\ MappedRoom' BY <1>3, Mapped, MappedNext DEF SerialInv
<1>7. RoundsDone = room.round - 1 /\ RoundsDone' = room.round
      BY <1>3, <1>5 DEF RoundsDone
<1>8. /\ Phase = "playing" /\ RoundsAnnounced = Round - 1 /\ RoundsAnnounced' = Round
      /\ UNCHANGED <<Phase, Length, Round>>
      BY <1>3, <1>6, <1>7 DEF MappedRoom
<1> QED BY <1>8 DEF Lifecycle!Next, Lifecycle!Announce

LEMMA NextMaps ==
  ASSUME SerialInv, SerialInv', NothingFails, NEW p \in Proc, AdvanceNext(p)
  PROVE  Lifecycle!Next
<1>1. job[p].pc = "next" /\ OthersRest(p)
      BY WorkerWorks, WorkerIsAlone DEF AdvanceNext, SerialInv
<1>2. /\ room # Nil /\ room.status = "active" /\ room.round < room.rounds
      /\ room' # Nil /\ room'.status = "active" /\ room'.rounds = room.rounds
      /\ room'.round = room.round + 1 /\ room'.token \in Token
      /\ DoneAndArm(p, room')
      BY NextEffect DEF SerialInv, NothingFails
<1>3. Between /\ ~Between' BY <1>1, <1>2, Standing, ArmedInOrder DEF SerialInv
<1>4. MappedRoom /\ MappedRoom' BY <1>2, Mapped, MappedNext DEF SerialInv
<1>5. RoundsDone = room.round /\ RoundsDone' = room'.round - 1
      BY <1>2, <1>3 DEF RoundsDone
<1>6. /\ Phase = "playing" /\ RoundsAnnounced = Round /\ Round < Length /\ Round' = Round + 1
      /\ UNCHANGED <<Phase, Length, RoundsAnnounced>>
      BY <1>2, <1>4, <1>5 DEF MappedRoom
<1> QED BY <1>6 DEF Lifecycle!Next, Lifecycle!NextRound

LEMMA FinishMaps ==
  ASSUME SerialInv, SerialInv', NothingFails, NEW p \in Proc, AdvanceFinish(p)
  PROVE  Lifecycle!Next
<1>1. job[p].pc = "finish" /\ OthersRest(p)
      BY WorkerWorks, WorkerIsAlone DEF AdvanceFinish, SerialInv
<1>2. /\ room # Nil /\ room.status = "active" /\ room.round = room.rounds
      /\ room' # Nil /\ room'.status = "finished" /\ room'.rounds = room.rounds
      /\ room'.round = room.round
      BY FinishEffect DEF SerialInv, NothingFails
<1>3. Between BY <1>1, Standing
<1>4. MappedRoom /\ MappedRoom' BY <1>2, Mapped, MappedNext DEF SerialInv
<1>5. RoundsDone = room.round /\ RoundsDone' = room.round BY <1>2, <1>3 DEF RoundsDone
<1>6. /\ Phase = "playing" /\ RoundsAnnounced = Length /\ Phase' = "over"
      /\ UNCHANGED <<Length, Round, RoundsAnnounced>>
      BY <1>2, <1>4, <1>5 DEF MappedRoom
<1> QED BY <1>6 DEF Lifecycle!Next, Lifecycle!Finish

\* A step that does not write the room and announces nothing.
LEMMA IdleMaps ==
  ASSUME UNCHANGED <<room, ended>>
  PROVE  UNCHANGED Lifecycle!lvars
BY DEF Lifecycle!lvars, Phase, Length, Round, RoundsAnnounced, RoundsClosed

LEMMA WorkMaps ==
  ASSUME SerialInv, SerialInv', NothingFails, NEW p \in Proc, Work(p) \/ TimerWrite(p)
  PROVE  [Lifecycle!Next]_(Lifecycle!lvars)
<1>1. CASE JoinWrite(p)
      BY <1>1, JoinEffect, StutterMaps DEF SerialInv, JoinWrite, history
<1>2. CASE LeaveWrite(p)
  <2>1. UNCHANGED ended BY <1>2 DEF LeaveWrite, history
  <2>2. room # Nil /\ (room' = Nil \/ KeepsRound) BY <1>2, LeaveEffect DEF SerialInv
  <2> QED BY <2>1, <2>2, StutterMaps, VanishMaps
<1>3. CASE \/ StartInsert(p) \/ StartRefused(p) \/ AdvanceRead(p) \/ AdvanceStale(p)
           \/ AdvanceLost(p) \/ CloseMatch(p) \/ TriggerElo(p)
  <2>1. UNCHANGED <<room, ended>>
        BY <1>3 DEF StartInsert, StartRefused, AdvanceRead, AdvanceStale, AdvanceLost,
                    CloseMatch, TriggerElo, history
  <2> QED BY <2>1, IdleMaps
<1>4. CASE StartWrite(p) BY <1>4, StartMaps
<1>5. CASE GuessWrite(p)
      BY <1>5, GuessEffect, StutterMaps DEF SerialInv, GuessWrite
<1>6. CASE TimerWrite(p)
      BY <1>6, TimerEffect, StutterMaps DEF SerialInv, TimerWrite, history
<1>7. CASE AdvanceScore(p) BY <1>7, ScoreMaps
<1>8. CASE AdvanceNext(p) BY <1>8, NextMaps
<1>9. CASE AdvanceFinish(p) BY <1>9, FinishMaps
<1> QED BY <1>1, <1>2, <1>3, <1>4, <1>5, <1>6, <1>7, <1>8, <1>9 DEF Work

LEMMA StepMaps ==
  SerialInv /\ SerialInv' /\ NothingFails /\ [SerialNext]_vars
    => [Lifecycle!Next]_(Lifecycle!lvars)
<1> SUFFICES ASSUME SerialInv, SerialInv', NothingFails, [SerialNext]_vars
             PROVE  [Lifecycle!Next]_(Lifecycle!lvars)
    OBVIOUS
<1>1. CASE \/ \E p \in Slot, u \in User : Quiet /\ Ask(p, u)
           \/ \E t \in Token : Quiet /\ Fire(t)
           \/ UNCHANGED vars
  <2>1. UNCHANGED <<room, ended>>
        BY <1>1 DEF Ask, JoinRead, LeaveRead, StartRead, GuessRead, Fire, TimerFire, TimerStale,
                    history, vars
  <2> QED BY <2>1, IdleMaps
<1>2. CASE \E p \in Proc : Work(p) BY <1>2, WorkMaps
<1>3. CASE \E t \in Token : TimerWrite(t) BY <1>3, WorkMaps DEF Proc
<1>4. CASE Quiet /\ Expire BY <1>4, VanishMaps DEF Expire
<1> QED BY <1>1, <1>2, <1>3, <1>4 DEF SerialNext

LEMMA InitMaps == Init => Lifecycle!Init
<1> SUFFICES ASSUME Init PROVE Lifecycle!Init OBVIOUS
<1>1. IndInv /\ InOrder BY InitEstablishesInvariant, InitIsInOrder
<1>2. room # Nil /\ room.status = "waiting" /\ room.round = 0
  <2>1. PICK h \in User : room = NewRoom(h) BY DEF Init
  <2>2. room \in RoomState BY <2>1, RoomAssumption DEF NewRoom, RoomState, Status
  <2> QED BY <2>1, <2>2, NoRoomAssumption DEF NewRoom
<1>3. RoundsDone = 0 BY <1>2 DEF RoundsDone
<1> QED BY <1>1, <1>2, <1>3, Mapped DEF MappedRoom, Lifecycle!Init

-----------------------------------------------------------------------------
(* The theorems.                                                           *)

LEMMA SerialAlone == SerialSpec => [](IndInv /\ Alone)
<1>1. Init => IndInv /\ Alone BY InitEstablishesInvariant, InitIsAlone
<1>2. IndInv /\ Alone /\ [SerialNext]_vars => (IndInv /\ Alone)'
      BY SerialStepIsStep, StepKeepsInvariant, StepStaysAlone
<1> QED BY <1>1, <1>2, PTL DEF SerialSpec

LEMMA SerialInductive == ASSUME NothingFails PROVE SerialSpec => []SerialInv
<1>1. Init => SerialInv
      BY InitEstablishesInvariant, InitIsAlone, InitIsInOrder DEF SerialInv
<1>2. SerialInv /\ [SerialNext]_vars => SerialInv'
      BY SerialStepIsStep, StepKeepsInvariant, StepStaysAlone, StepInOrder DEF SerialInv
<1> QED BY <1>1, <1>2, PTL DEF SerialSpec

\* README 2.6: served one at a time, nobody but DELETE /leave takes a player
\* out of the room, whichever SET or statement fails.
THEOREM PlayersLeaveByThemselves == SerialSpec => RemovedByLeaveOnly
<1>1. IndInv /\ Alone /\ [SerialNext]_vars =>
        [\A u \in User :
           /\ room # Nil /\ u \in ToSet(room.players)
           /\ room' # Nil /\ u \notin ToSet(room'.players)
           => \E p \in Slot : job[p].pc = "leave" /\ job[p].user = u /\ LeaveWrite(p)]_vars
      BY WhoGoes
<1> QED BY <1>1, SerialAlone, PTL DEF SerialSpec, RemovedByLeaveOnly

\* Served one at a time and with no failing SET or statement, an open round
\* always has a process that will close it.
THEOREM OpenRoundsAreDriven == ASSUME NothingFails PROVE SerialSpec => []OpenRoundIsDriven
<1>1. SerialInv => OpenRoundIsDriven BY DEF SerialInv, InOrder
<1> QED BY <1>1, SerialInductive, PTL

\* A room never has a second match, nor one its game does not play.
THEOREM OneMatchForARoom == ASSUME NothingFails PROVE SerialSpec => []OneMatch
<1>1. SerialInv => OneMatch BY InvariantImpliesOneMatch DEF SerialInv
<1> QED BY <1>1, SerialInductive, PTL

\* README 2.6: no round is scored and announced a second time.
THEOREM RoundsAreScoredOnce == ASSUME NothingFails PROVE SerialSpec => NoDoubleAdvance
<1>1. SerialInv /\ [SerialNext]_vars =>
        [\A p \in Proc :
           AdvanceScore(p) => <<job[p].snap.match, job[p].snap.round>> \notin ended]_vars
      BY ScoredOnce DEF SerialInv
<1> QED BY <1>1, SerialInductive, PTL DEF SerialSpec, NoDoubleAdvance

\* Every step the room takes is a step of the lifecycle README 2.6 promises, or
\* none of it.
THEOREM RoomsFollowTheLifecycle == ASSUME NothingFails PROVE SerialSpec => Lifecycle!Safety
<1>1. SerialInv /\ SerialInv' /\ [SerialNext]_vars => [Lifecycle!Next]_(Lifecycle!lvars)
      BY StepMaps
<1> QED BY <1>1, InitMaps, SerialInductive, PTL DEF SerialSpec, Lifecycle!Safety

=============================================================================
