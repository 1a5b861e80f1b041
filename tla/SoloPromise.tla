---------------------------- MODULE SoloPromise ----------------------------
(***************************************************************************)
(* What a solo session promises its player (README 3.3): each round is     *)
(* guessed once, the total is the sum of the scores, the session ends      *)
(* after its last round or when it is abandoned, and a finished one earns  *)
(* a thousandth of its total in XP, once.                                  *)
(***************************************************************************)
EXTENDS Integers, Sequences

CONSTANTS
  MaxRounds,    \* rounds asked for, at least one
  Scores,       \* possible scores of a guess
  PointsPerXp   \* points that make one XP

VARIABLES
  phase,   \* "new", "active", "finished" or "abandoned"
  length,  \* rounds of the session
  scores,  \* scores of the rounds guessed so far
  total,   \* points shown
  xp       \* XP earned

pvars == <<phase, length, scores, total, xp>>

Sum(s) ==
  LET sum[n \in 0..Len(s)] == IF n = 0 THEN 0 ELSE sum[n - 1] + s[n]
  IN sum[Len(s)]

Init == phase = "new" /\ length = 0 /\ scores = <<>> /\ total = 0 /\ xp = 0

Open ==
  /\ phase = "new"
  /\ phase' = "active"
  /\ length' \in 1..MaxRounds
  /\ UNCHANGED <<scores, total, xp>>

\* A guess, once the one before it has been counted.
Play ==
  /\ phase = "active" /\ Len(scores) < length
  /\ total = Sum(scores)
  /\ \E s \in Scores : scores' = Append(scores, s)
  /\ UNCHANGED <<phase, length, total, xp>>

\* The total follows, and after the last round the session is finished.
Count ==
  /\ phase = "active"
  /\ total' = Sum(scores)
  /\ phase' = IF Len(scores) = length THEN "finished" ELSE "active"
  /\ UNCHANGED <<length, scores, xp>>

Earn ==
  /\ phase = "finished" /\ xp = 0
  /\ xp' = total \div PointsPerXp
  /\ UNCHANGED <<phase, length, scores, total>>

Abandon ==
  /\ phase = "active" /\ total = Sum(scores) /\ Len(scores) < length
  /\ phase' = "abandoned"
  /\ UNCHANGED <<length, scores, total, xp>>

Next == Open \/ Play \/ Count \/ Earn \/ Abandon

Safety == Init /\ [][Next]_pvars

\* A guess is counted and XP earned without anybody's help.
Spec == Safety /\ WF_pvars(Count) /\ WF_pvars(Earn)

=============================================================================
