----------------------------- MODULE RoomSerial -----------------------------
(***************************************************************************)
(* RoomGame when nothing overlaps: a request is served, or a timer handled,*)
(* to its last step (advanceRound and its ELO request included) before the *)
(* next one begins.  This is how the room behaves when it is tried by hand *)
(* and what README 2.6 describes; the promises RoomGame breaks hold here,  *)
(* so it is the overlap of a GET and a later SET alone that breaks them.   *)
(***************************************************************************)
EXTENDS RoomGame

\* No request and no timer is being served.
Quiet == \A p \in Proc : job[p] \in {Idle, Armed}

SerialNext ==
  \/ Quiet /\ \E p \in Slot, u \in User : Ask(p, u)
  \/ Quiet /\ \E t \in Token : Fire(t)
  \/ \E p \in Proc : Work(p)
  \/ \E t \in Token : TimerWrite(t)
  \/ Quiet /\ Expire

\* Requests may keep coming, so a timer that is due is Quiet again and again
\* rather than for good: its turn comes by strong fairness.
SerialSpec ==
  /\ Init /\ [][SerialNext]_vars
  /\ \A p \in Proc : WF_vars(Work(p))
  /\ \A t \in Token : WF_vars(TimerWrite(t)) /\ SF_vars(Quiet /\ Fire(t))

\* Whoever closes the round of the stored room.
Resolving(t) ==
  \/ job[t] = Armed
  \/ \E p \in Proc : \/ job[p] = Advance(t)
                     \/ job[p].pc \in {"timeout", "score", "next", "finish"}
                          /\ job[p].snap.token = t

\* A round that is open is being timed or being resolved: no open round is
\* left without a process that will close it.
OpenRoundIsDriven ==
  room # Nil /\ room.status = "active" => Resolving(room.token)

\* At most one match is inserted for a room and none is left behind: the one
\* match belongs to the room's game, or the room is gone.
OneMatch ==
  /\ Len(matches) <= 1
  /\ Quiet /\ room # Nil => room.match = Len(matches)

-----------------------------------------------------------------------------
(* The lifecycle README 2.6 promises, read off the stored room.            *)

RoundsClosed(m) == Cardinality({e \in ended : e[1] = m})

Phase ==
  IF room = Nil THEN "gone"
  ELSE CASE room.status = "waiting" -> "open"
         [] room.status = "active" -> "playing"
         [] room.status = "finished" -> "over"

Length == IF room = Nil \/ room.status = "waiting" THEN 0 ELSE room.rounds
Round == IF room = Nil THEN 0 ELSE room.round
RoundsAnnounced == IF room = Nil THEN 0 ELSE RoundsClosed(room.match)

Lifecycle == INSTANCE RoomLifecycle WITH
  MaxRounds <- Rounds, phase <- Phase, length <- Length, round <- Round,
  closed <- RoundsAnnounced

\* Served one at a time, requests and timers take the room through its
\* lifecycle: each round announced once, in order, up to the last.
PlaysLifecycle == Lifecycle!Spec

=============================================================================
