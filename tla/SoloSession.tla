---------------------------- MODULE SoloSession ----------------------------
(***************************************************************************)
(* One solo session (services/game/internal/solo).  Its progress is a JSON *)
(* blob in Valkey that Guess reads and later replaces, its row in          *)
(* solo_sessions is overwritten on the way without a look at its status,   *)
(* and nothing keeps two requests of the player (a second tab, a repeated  *)
(* submit, Abandon) from overlapping.                                      *)
(***************************************************************************)
EXTENDS Integers, FiniteSets, SequencesExt

CONSTANTS
  Slot,    \* requests that can be in flight at once
  Pano,    \* panoramas of the map
  Nil,     \* no session, no row
  Asked,   \* rounds of the start request
  Scores,  \* scores a guess may get, some of 0..MaxScore
  MaxXp,   \* bound: no more guesses once the session has earned this much
  Faults   \* the failures that may happen, a subset of FaultKind

FaultKind == {"set", "db", "crash", "expire", "panoDelete"}
MaxScore == 5000
PointsPerXp == 1000

ActiveSession == [round: Nat, total: Nat, panos: Seq(Pano)]
Row == [status: {"active", "finished", "abandoned"}, panos: Seq(Pano), rounds: Nat,
        round: Nat, total: Nat]
Guess == [round: Nat, pano: Pano, score: 0..MaxScore]

ASSUME SoloAssumption ==
  /\ Nil \notin Row
  /\ IsFiniteSet(Pano)
  /\ Asked \in Int
  /\ Scores \subseteq 0..MaxScore
  /\ MaxXp \in Nat
  /\ Faults \subseteq FaultKind

VARIABLES
  session,  \* the blob under solo:{id}, or Nil
  row,      \* the row of solo_sessions, or Nil before Start
  guesses,  \* the rows of solo_guesses
  lost,     \* rounds that a failed INSERT or a deleted panorama lost (history)
  xp,       \* what the session has added to users.xp
  panos,    \* panoramas that exist (tiled and clean when Start draws)
  job       \* what each request does

vars == <<session, row, guesses, lost, xp, panos, job>>

\* A request does nothing, has a guess of some score to record, holds a
\* session to write somewhere, has XP to award, or ends the session.
Idle == [pc |-> "idle"]
Record(s, sc) == [pc |-> "record", snap |-> s, score |-> sc]
Hold(pc, s) == [pc |-> pc, snap |-> s]
Award(n) == [pc |-> "award", gain |-> n]
Drop == [pc |-> "drop"]
Abandon == [pc |-> "abandon"]

Init ==
  /\ session = Nil /\ row = Nil
  /\ guesses = {} /\ lost = {} /\ xp = 0
  /\ panos = Pano
  /\ job = [p \in Slot |-> Idle]

Turn(p, j) == job' = [job EXCEPT ![p] = j]
Done(p) == Turn(p, Idle)

\* A SET or DEL in Valkey; a failing one may or may not have got there.
StoreOk(new) == session' = new
StoreError(new) == "set" \in Faults /\ session' \in {session, new}

-----------------------------------------------------------------------------
(* Start.  One session is modelled, so it happens once.                    *)

Rounds == IF Asked <= 0 THEN 5 ELSE IF Asked > 20 THEN 20 ELSE Asked

\* ORDER BY RANDOM() LIMIT Rounds.
Draws ==
  LET k == IF Cardinality(panos) < Rounds THEN Cardinality(panos) ELSE Rounds
  IN Injection(1..k, panos)

\* Mutant: the rounds of the row are those asked for.
NewRowAsked(qs) ==
  [status |-> "active", panos |-> qs, rounds |-> Rounds, round |-> 1, total |-> 0]

NewRow(qs) ==
  [status |-> "active", panos |-> qs, rounds |-> Len(qs), round |-> 1, total |-> 0]

Start(p) ==
  /\ job[p] = Idle
  /\ row = Nil
  /\ \E qs \in Draws :
       /\ qs # <<>>
       /\ row' = NewRow(qs)
       /\ Turn(p, Hold("save", [round |-> 1, total |-> 0, panos |-> qs]))
  /\ UNCHANGED <<session, guesses, lost, xp, panos>>

\* setSession, at the end of Start and of a Guess that is not the last.
Save(p) ==
  /\ job[p].pc = "save"
  /\ StoreOk(job[p].snap) \/ StoreError(job[p].snap)
  /\ Done(p)
  /\ UNCHANGED <<row, guesses, lost, xp, panos>>

-----------------------------------------------------------------------------
(* Guess.                                                                  *)

\* The session is read and the guess scored against the round's panorama.
GuessRead(p) ==
  /\ job[p] = Idle
  /\ session # Nil
  /\ session.panos[session.round] \in panos
  /\ xp <= MaxXp
  /\ \E sc \in Scores : Turn(p, Record(session, sc))
  /\ UNCHANGED <<session, row, guesses, lost, xp, panos>>

\* Mutants: the round before the last is taken for it; a score counts twice.
AfterGuessEarly(s) == IF s.round + 1 >= Len(s.panos) THEN "finish" ELSE "progress"
CountedTwice(s, sc) == [s EXCEPT !.total = @ + 2 * sc]

AfterGuess(s) == IF s.round >= Len(s.panos) THEN "finish" ELSE "progress"
Counted(s, sc) == [s EXCEPT !.total = @ + sc]

\* INSERT ... ON CONFLICT (session_id, round) DO NOTHING.
Inserted(s, sc) ==
  IF \E g \in guesses : g.round = s.round THEN guesses
  ELSE guesses \cup {[round |-> s.round, pano |-> s.panos[s.round], score |-> sc]}

\* The INSERT fails when the panorama is gone; its error is dropped and the
\* score counted all the same.
GuessRecord(p) ==
  LET s == job[p].snap IN
  /\ job[p].pc = "record"
  /\ \/ /\ s.panos[s.round] \in panos
        /\ guesses' = Inserted(s, job[p].score)
        /\ UNCHANGED lost
     \/ /\ s.panos[s.round] \notin panos \/ "db" \in Faults
        /\ lost' = lost \cup {s.round}
        /\ UNCHANGED guesses
  /\ Turn(p, Hold(AfterGuess(s), Counted(s, job[p].score)))
  /\ UNCHANGED <<session, row, xp, panos>>

\* UPDATE of the row for the next round, which Save then opens.
Progress(p) ==
  LET next == [job[p].snap EXCEPT !.round = @ + 1] IN
  /\ job[p].pc = "progress"
  /\ \/ row' = [row EXCEPT !.round = next.round, !.total = next.total]
     \/ "db" \in Faults /\ UNCHANGED row
  /\ Turn(p, Hold("save", next))
  /\ UNCHANGED <<session, guesses, lost, xp, panos>>

XpGained(total) == total \div PointsPerXp

\* Mutant: the last UPDATE leaves the total as it was.
FinishStatusOnly(p) ==
  LET s == job[p].snap IN
  /\ job[p].pc = "finish"
  /\ row' = [row EXCEPT !.status = "finished"]
  /\ Turn(p, IF XpGained(s.total) > 0 THEN Award(XpGained(s.total)) ELSE Drop)
  /\ UNCHANGED <<session, guesses, lost, xp, panos>>

\* After the last round: UPDATE of the row, XP if there is any, DEL.
Finish(p) ==
  LET s == job[p].snap IN
  /\ job[p].pc = "finish"
  /\ \/ row' = [row EXCEPT !.status = "finished", !.total = s.total]
     \/ "db" \in Faults /\ UNCHANGED row
  /\ Turn(p, IF XpGained(s.total) > 0 THEN Award(XpGained(s.total)) ELSE Drop)
  /\ UNCHANGED <<session, guesses, lost, xp, panos>>

AwardXp(p) ==
  /\ job[p].pc = "award"
  /\ \/ xp' = xp + job[p].gain
     \/ "db" \in Faults /\ UNCHANGED xp
  /\ Turn(p, Drop)
  /\ UNCHANGED <<session, row, guesses, lost, panos>>

\* Mutants: the session is left in Valkey, or an empty value is left there.
DropNothing(p) ==
  /\ job[p].pc = "drop"
  /\ Done(p)
  /\ UNCHANGED <<session, row, guesses, lost, xp, panos>>
DropEmpty(p) ==
  /\ job[p].pc = "drop"
  /\ StoreOk(<<>>)
  /\ Done(p)
  /\ UNCHANGED <<row, guesses, lost, xp, panos>>

DropSession(p) ==
  /\ job[p].pc = "drop"
  /\ StoreOk(Nil) \/ StoreError(Nil)
  /\ Done(p)
  /\ UNCHANGED <<row, guesses, lost, xp, panos>>

(* Abandon.                                                                *)

AbandonRead(p) ==
  /\ job[p] = Idle
  /\ session # Nil
  /\ Turn(p, Abandon)
  /\ UNCHANGED <<session, row, guesses, lost, xp, panos>>

AbandonRow(p) ==
  /\ job[p].pc = "abandon"
  /\ \/ row' = [row EXCEPT !.status = "abandoned"]
     \/ "db" \in Faults /\ UNCHANGED row
  /\ Turn(p, Drop)
  /\ UNCHANGED <<session, guesses, lost, xp, panos>>

-----------------------------------------------------------------------------
(* What else may happen.                                                   *)

Crash(p) ==
  /\ "crash" \in Faults
  /\ job[p] # Idle
  /\ Done(p)
  /\ UNCHANGED <<session, row, guesses, lost, xp, panos>>

\* The two hours of the key run out.
Expire ==
  /\ "expire" \in Faults
  /\ session # Nil
  /\ session' = Nil
  /\ UNCHANGED <<row, guesses, lost, xp, panos, job>>

\* A panorama is deleted, and with it the guesses made on it.
DeletePano(q) ==
  /\ "panoDelete" \in Faults
  /\ q \in panos
  /\ panos' = panos \ {q}
  /\ guesses' = {g \in guesses : g.pano # q}
  /\ lost' = lost \cup {g.round : g \in guesses \ guesses'}
  /\ UNCHANGED <<session, row, xp, job>>

Ask(p) == Start(p) \/ GuessRead(p) \/ AbandonRead(p)

Work(p) ==
  \/ Save(p) \/ GuessRecord(p) \/ Progress(p) \/ Finish(p)
  \/ AwardXp(p) \/ DropSession(p) \/ AbandonRow(p)

Next ==
  \/ \E p \in Slot : Ask(p) \/ Work(p) \/ Crash(p)
  \/ Expire
  \/ \E q \in Pano : DeletePano(q)

Spec == Init /\ [][Next]_vars

\* Requests one at a time, each to its end.
Quiet == \A p \in Slot : job[p] = Idle
SerialNext == \E p \in Slot : (Quiet /\ Ask(p)) \/ Work(p)
SerialSpec == Init /\ [][SerialNext]_vars /\ \A p \in Slot : WF_vars(Work(p))

-----------------------------------------------------------------------------
(* Invariants.                                                             *)

Job == [pc: {"idle", "drop", "abandon"}] \cup [pc: {"record"}, snap: ActiveSession, score: 0..MaxScore]
         \cup [pc: {"save", "progress", "finish"}, snap: ActiveSession]
         \cup [pc: {"award"}, gain: Nat]

\* Every variable has its type; a request that works has a session in hand.
TypeOK ==
  /\ session \in ActiveSession \cup {Nil}
  /\ row \in Row \cup {Nil}
  /\ guesses \subseteq Guess
  /\ lost \subseteq Nat
  /\ xp \in Nat
  /\ panos \subseteq Pano
  /\ job \in [Slot -> Job]

\* Every session stored or in somebody's hands, with the number of rounds its
\* total counts.
Versions ==
  {<<s, s.round - 1>> : s \in {session} \ {Nil}}
    \cup {<<job[p].snap, job[p].snap.round - 1>> : p \in {q \in Slot : job[q].pc \in {"save", "record"}}}
    \cup {<<job[p].snap, job[p].snap.round>> : p \in {q \in Slot : job[q].pc \in {"progress", "finish"}}}

\* However requests overlap, every session is of the row's game: its round
\* indexes its panoramas (handler.go:245 indexes without a check) and its
\* total is one that the rounds it counts can give; and the recorded guesses
\* were made on the panoramas of their rounds.
SessionCoherent ==
  /\ \A v \in Versions :
       LET s == v[1] IN
       /\ row # Nil /\ s.panos = row.panos /\ Len(s.panos) = row.rounds
       /\ s.round \in 1..row.rounds
       /\ s.total <= MaxScore * v[2]
  /\ row # Nil => \A g \in guesses : g.round \in 1..row.rounds /\ g.pano = row.panos[g.round]

\* The result page divides the total by 5000 points a round: the total of the
\* row is never above that, whichever requests have overlapped.
TotalWithinReach == row # Nil => row.total <= MaxScore * row.rounds

Accounted == lost \cup {g.round : g \in guesses}

\* No round is missing from the breakdown without a cause: a session that
\* counts n rounds has each of them recorded, or lost to a failed statement or
\* a deleted panorama, and a finished row all of them.
RoundsRecorded ==
  /\ \A v \in Versions : 1..v[2] \subseteq Accounted
  /\ row # Nil /\ row.status = "finished" => 1..row.rounds \subseteq Accounted

-----------------------------------------------------------------------------
(* What the documentation promises of a session.                           *)

\* README 3.3: XP = total_score / 1000, once the session is over.
XpFollowsTotal ==
  Quiet /\ row # Nil /\ row.status = "finished" => xp = XpGained(row.total)

\* A session that is over is out of Valkey, so it cannot be played again.
NothingLeftBehind == Quiet /\ row # Nil /\ row.status # "active" => session = Nil

\* The scores recorded so far, by round.
Recorded == [r \in 1..Cardinality(guesses) |-> (CHOOSE g \in guesses : g.round = r).score]

\* The row says how far the session is; the round it has is not of the promise.
Phase == IF row = Nil THEN "new" ELSE row.status
Length == IF row = Nil THEN 0 ELSE row.rounds
Total == IF row = Nil THEN 0 ELSE row.total

Promise == INSTANCE SoloPromise WITH
  MaxRounds <- Rounds, phase <- Phase, length <- Length, scores <- Recorded, total <- Total

\* One request at a time, the session keeps its promise.
KeepsPromise == Promise!Spec

=============================================================================
