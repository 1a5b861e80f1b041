--------------------------- MODULE RoomLifecycle ---------------------------
(***************************************************************************)
(* What a room promises its players (README 2.6): it is open until the     *)
(* host starts it, then plays its rounds one after the other, each round   *)
(* closed exactly once, and is over after the last of them.  Until then it *)
(* may disappear, when its last player leaves or its key expires.  Once a  *)
(* game is under way it goes on to its end without anybody's help.         *)
(***************************************************************************)
EXTENDS Naturals

CONSTANT MaxRounds  \* rounds the room was created for, at least one

VARIABLES
  phase,   \* "open", "playing", "over" or "gone"
  length,  \* rounds of the game, at most MaxRounds; 0 before it starts
  round,   \* the round being played
  closed   \* rounds whose result was announced

lvars == <<phase, length, round, closed>>

Init == phase = "open" /\ length = 0 /\ round = 0 /\ closed = 0

\* The host starts: as many rounds as there are panoramas, up to MaxRounds.
Start ==
  /\ phase = "open"
  /\ length' \in 1..MaxRounds
  /\ phase' = "playing" /\ round' = 1
  /\ UNCHANGED closed

\* The result of the round being played is announced, once.
Announce ==
  /\ phase = "playing"
  /\ closed = round - 1
  /\ closed' = round
  /\ UNCHANGED <<phase, length, round>>

NextRound ==
  /\ phase = "playing"
  /\ closed = round /\ round < length
  /\ round' = round + 1
  /\ UNCHANGED <<phase, length, closed>>

Finish ==
  /\ phase = "playing"
  /\ closed = length
  /\ phase' = "over"
  /\ UNCHANGED <<length, round, closed>>

\* The last player leaves and the room is deleted, or its key expires.
Vanish ==
  /\ phase # "gone"
  /\ phase' = "gone" /\ length' = 0 /\ round' = 0 /\ closed' = 0

Next == Start \/ Announce \/ NextRound \/ Finish \/ Vanish

Safety == Init /\ [][Next]_lvars

Spec == Safety /\ WF_lvars(Announce \/ NextRound \/ Finish)

=============================================================================
