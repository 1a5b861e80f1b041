------------------------- MODULE SoloSessionProofs -------------------------
(***************************************************************************)
(* Proofs about SoloSession, for every number of overlapping requests, of  *)
(* panoramas and rounds, all scores, and with every failure allowed.       *)
(***************************************************************************)
EXTENDS SoloSession, TLAPS, FiniteSetTheorems, NaturalsInduction, WellFoundedInduction

\* Session s counts n rounds of the game of row r; rounds a are accounted for.
Fits(s, n, r, a) ==
  /\ r # Nil /\ s.panos = r.panos
  /\ s.round \in 1..r.rounds
  /\ n \in 0..r.rounds /\ s.total <= MaxScore * n
  /\ 1..n \subseteq a

\* What a request knows of what it holds.
JobFits(j, r, a) ==
  /\ j # Idle => r # Nil
  /\ j.pc \in {"save", "record"} => Fits(j.snap, j.snap.round - 1, r, a)
  /\ j.pc \in {"progress", "finish"} => Fits(j.snap, j.snap.round, r, a)
  /\ j.pc = "progress" => j.snap.round < r.rounds
  /\ j.pc = "finish" => j.snap.round = r.rounds

RowFits(r, gs, a) ==
  IF r = Nil THEN gs = {}
  ELSE /\ r.rounds = Len(r.panos)
       /\ r.total <= MaxScore * r.rounds
       /\ \A g \in gs : g.round \in 1..r.rounds /\ g.pano = r.panos[g.round]
       /\ r.status = "finished" => 1..r.rounds \subseteq a

\* The inductive invariant.
IndInv ==
  /\ TypeOK
  /\ session # Nil => Fits(session, session.round - 1, row, Accounted)
  /\ RowFits(row, guesses, Accounted)
  /\ \A p \in Slot : JobFits(job[p], row, Accounted)

-----------------------------------------------------------------------------
(* What follows from the invariant.                                        *)

LEMMA CoherentFromInd == IndInv => SessionCoherent
<1> SUFFICES ASSUME IndInv PROVE SessionCoherent OBVIOUS
<1>1. ASSUME NEW v \in Versions
      PROVE  Fits(v[1], v[2], row, Accounted)
  <2>1. CASE v \in {<<s, s.round - 1>> : s \in {session} \ {Nil}}
        BY <2>1 DEF IndInv
  <2>2. CASE v \in {<<job[p].snap, job[p].snap.round - 1>> :
                      p \in {q \in Slot : job[q].pc \in {"save", "record"}}}
        BY <2>2 DEF IndInv, JobFits
  <2>3. CASE v \in {<<job[p].snap, job[p].snap.round>> :
                      p \in {q \in Slot : job[q].pc \in {"progress", "finish"}}}
        BY <2>3 DEF IndInv, JobFits
  <2> QED BY <2>1, <2>2, <2>3, Zenon DEF Versions
<1>2. row # Nil => row.rounds = Len(row.panos) BY DEF IndInv, RowFits
<1>3. row # Nil => \A g \in guesses : g.round \in 1..row.rounds /\ g.pano = row.panos[g.round]
      BY DEF IndInv, RowFits
<1> QED BY <1>1, <1>2, <1>3 DEF SessionCoherent, Fits

LEMMA ReachFromInd == IndInv => TotalWithinReach
BY DEF IndInv, RowFits, TotalWithinReach

LEMMA RecordedFromInd == IndInv => RoundsRecorded
<1> SUFFICES ASSUME IndInv PROVE RoundsRecorded OBVIOUS
<1>1. ASSUME NEW v \in Versions
      PROVE  1..v[2] \subseteq Accounted
  <2>1. CASE v \in {<<s, s.round - 1>> : s \in {session} \ {Nil}}
        BY <2>1 DEF IndInv, Fits
  <2>2. CASE v \in {<<job[p].snap, job[p].snap.round - 1>> :
                      p \in {q \in Slot : job[q].pc \in {"save", "record"}}}
        BY <2>2 DEF IndInv, JobFits, Fits
  <2>3. CASE v \in {<<job[p].snap, job[p].snap.round>> :
                      p \in {q \in Slot : job[q].pc \in {"progress", "finish"}}}
        BY <2>3 DEF IndInv, JobFits, Fits
  <2> QED BY <2>1, <2>2, <2>3, Zenon DEF Versions
<1>2. row # Nil /\ row.status = "finished" => 1..row.rounds \subseteq Accounted
      BY DEF IndInv, RowFits
<1> QED BY <1>1, <1>2 DEF RoundsRecorded

-----------------------------------------------------------------------------
(* Lemmas about the steps.                                                 *)

\* The fields of the job of a request, by its program counter.
LEMMA JobFields ==
  ASSUME TypeOK, NEW p \in Slot
  PROVE  /\ job[p] \in Job
         /\ job[p].pc \in {"save", "record", "progress", "finish"} => job[p].snap \in ActiveSession
         /\ job[p].pc = "record" => job[p].score \in 0..MaxScore
         /\ job[p].pc = "award" => job[p].gain \in Nat
BY DEF TypeOK, Job

\* Rounds accounted for that grow, under a row that keeps its game, keep every
\* session and request fit.
LEMMA FitsMonotone ==
  ASSUME NEW s, NEW n, NEW r, NEW q, NEW a, NEW b,
         r # Nil => q # Nil /\ q.panos = r.panos /\ q.rounds = r.rounds,
         a \subseteq b, Fits(s, n, r, a)
  PROVE  Fits(s, n, q, b)
BY DEF Fits

LEMMA JobFitsMonotone ==
  ASSUME NEW j, NEW r, NEW q, NEW a, NEW b,
         r # Nil => q # Nil /\ q.panos = r.panos /\ q.rounds = r.rounds,
         a \subseteq b, JobFits(j, r, a)
  PROVE  JobFits(j, q, b)
<1>1. j.pc \in {"save", "record"} => Fits(j.snap, j.snap.round - 1, q, b)
      BY FitsMonotone DEF JobFits
<1>2. j.pc \in {"progress", "finish"} => Fits(j.snap, j.snap.round, q, b)
      BY FitsMonotone DEF JobFits
<1>3. j # Idle => q # Nil BY DEF JobFits
<1>4. j.pc \in {"progress", "finish"} => q.rounds = r.rounds
      BY DEF JobFits, Fits
<1>5. /\ j.pc = "progress" => j.snap.round < q.rounds
      /\ j.pc = "finish" => j.snap.round = q.rounds
      BY <1>4 DEF JobFits
<1> QED BY <1>1, <1>2, <1>3, <1>5, Zenon DEF JobFits

\* Steps that leave guesses and what is lost alone account for the same rounds.
LEMMA SameAccount == UNCHANGED <<guesses, lost>> => Accounted' = Accounted
BY DEF Accounted

\* A step of p that keeps the game: the others go on as they were.
LEMMA StepKeepsInvariant ==
  ASSUME IndInv, NEW p \in Slot, NEW j, Turn(p, j), TypeOK', panos' = panos,
         row # Nil => row' # Nil /\ row'.panos = row.panos /\ row'.rounds = row.rounds,
         Accounted \subseteq Accounted',
         session' # Nil => Fits(session', session'.round - 1, row', Accounted'),
         RowFits(row', guesses', Accounted'),
         JobFits(j, row', Accounted')
  PROVE  IndInv'
<1>1. ASSUME NEW q \in Slot PROVE JobFits(job'[q], row', Accounted')
  <2>1. CASE q = p BY <2>1 DEF Turn, IndInv, TypeOK
  <2>2. CASE q # p
    <3>1. job'[q] = job[q] BY <2>2 DEF Turn, IndInv, TypeOK
    <3>2. JobFits(job[q], row, Accounted) BY DEF IndInv
    <3>3. JobFits(job[q], row', Accounted') BY <3>2, JobFitsMonotone
    <3> QED BY <3>1, <3>3
  <2> QED BY <2>1, <2>2
<1> QED BY <1>1 DEF IndInv

\* A step of p in Job keeps job well typed.
LEMMA TurnTyped ==
  ASSUME TypeOK, NEW p \in Slot, NEW j \in Job, Turn(p, j)
  PROVE  job' \in [Slot -> Job]
BY DEF TypeOK, Turn

LEMMA IdleFits ==
  ASSUME NEW r, NEW a PROVE JobFits(Idle, r, a) /\ Idle \in Job
BY DEF JobFits, Idle, Job

\* A session that stays, under a row that keeps its game, stays fit.
LEMMA SessionStays ==
  ASSUME IndInv, session' = session,
         row # Nil => row' # Nil /\ row'.panos = row.panos /\ row'.rounds = row.rounds,
         Accounted \subseteq Accounted'
  PROVE  session' # Nil => Fits(session', session'.round - 1, row', Accounted')
BY FitsMonotone DEF IndInv

-----------------------------------------------------------------------------
(* The initial state and one lemma per action.                             *)

LEMMA InitInvariant == Init => IndInv
<1> SUFFICES ASSUME Init PROVE IndInv OBVIOUS
<1>1. TypeOK BY DEF Init, TypeOK, Job, Idle
<1>2. ASSUME NEW p \in Slot PROVE JobFits(job[p], row, Accounted)
      BY IdleFits DEF Init
<1> QED BY <1>1, <1>2 DEF Init, IndInv, RowFits

LEMMA DrawsAreSequences ==
  ASSUME TypeOK, NEW qs \in Draws PROVE qs \in Seq(Pano)
<1>1. PICK k \in Nat : qs \in [1..k -> panos]
  <2>1. IsFiniteSet(panos)
        BY SoloAssumption, FS_Subset DEF TypeOK
  <2>2. Cardinality(panos) \in Nat BY <2>1, FS_CardinalityType
  <2>3. Rounds \in Nat BY SoloAssumption DEF Rounds
  <2> QED BY <2>2, <2>3 DEF Draws, Injection
<1>2. qs \in [1..k -> Pano] BY <1>1 DEF TypeOK
<1> QED BY <1>2

LEMMA StartKeepsInvariant ==
  ASSUME IndInv, NEW p \in Slot, Start(p) PROVE IndInv'
<1>1. PICK qs \in Draws :
        /\ qs # <<>> /\ row' = NewRow(qs)
        /\ Turn(p, Hold("save", [round |-> 1, total |-> 0, panos |-> qs]))
      BY DEF Start
<1>2. PICK j : j = Hold("save", [round |-> 1, total |-> 0, panos |-> qs]) OBVIOUS
<1>3. qs \in Seq(Pano) /\ Len(qs) \in Nat \ {0}
      BY <1>1, DrawsAreSequences DEF IndInv
<1>4. /\ row' \in Row /\ row'.panos = qs /\ row'.rounds = Len(qs)
      /\ row'.status = "active" /\ row'.total = 0
      BY <1>1, <1>3 DEF NewRow, Row
<1>5. row = Nil /\ guesses = {} /\ session = Nil
      BY DEF Start, IndInv, RowFits, Fits
<1>6. j \in Job
  <2>1. [round |-> 1, total |-> 0, panos |-> qs] \in ActiveSession BY <1>3 DEF ActiveSession
  <2> QED BY <1>2, <2>1 DEF Job, Hold
<1>7. TypeOK' BY <1>1, <1>2, <1>4, <1>6, TurnTyped DEF Start, IndInv, TypeOK
<1>8. RowFits(row', guesses', Accounted')
  <2>1. row'.total <= MaxScore * row'.rounds BY <1>3, <1>4 DEF MaxScore
  <2>2. guesses' = {} BY <1>5 DEF Start
  <2>3. row' # Nil BY <1>4, SoloAssumption
  <2> QED BY <1>4, <2>1, <2>2, <2>3 DEF RowFits
<1>9. JobFits(j, row', Accounted')
  <2>1. row' # Nil BY <1>4, SoloAssumption
  <2>2. j.pc = "save" /\ j.snap = [round |-> 1, total |-> 0, panos |-> qs]
        BY <1>2 DEF Hold
  <2>3. 1..0 = {} OBVIOUS
  <2>4. Fits(j.snap, j.snap.round - 1, row', Accounted')
        BY <1>3, <1>4, <2>1, <2>2, <2>3 DEF Fits, MaxScore
  <2> QED BY <2>1, <2>2, <2>4 DEF JobFits
<1>10. session' = Nil /\ Accounted' = Accounted BY <1>5, SameAccount DEF Start
<1> QED BY <1>1, <1>2, <1>5, <1>7, <1>8, <1>9, <1>10, StepKeepsInvariant DEF Start

LEMMA SaveKeepsInvariant ==
  ASSUME IndInv, NEW p \in Slot, Save(p) PROVE IndInv'
<1>1. PICK s : s = job[p].snap OBVIOUS
<1>2. s \in ActiveSession /\ Fits(s, s.round - 1, row, Accounted)
      BY <1>1, JobFields DEF Save, IndInv, JobFits
<1>3. Turn(p, Idle) /\ UNCHANGED <<row, guesses, lost, xp, panos>> BY DEF Save, Done
<1>0. Accounted' = Accounted BY <1>3, SameAccount
<1>4. session' \in {session, s}
      BY <1>1, Zenon DEF Save, StoreOk, StoreError
<1>5. TypeOK'
      BY <1>2, <1>3, <1>4, TurnTyped, IdleFits DEF IndInv, TypeOK
<1>6. session' # Nil => Fits(session', session'.round - 1, row', Accounted')
      BY <1>0, <1>2, <1>3, <1>4 DEF IndInv
<1> QED BY <1>0, <1>3, <1>5, <1>6, IdleFits, StepKeepsInvariant DEF IndInv

LEMMA GuessReadKeepsInvariant ==
  ASSUME IndInv, NEW p \in Slot, GuessRead(p) PROVE IndInv'
<1>1. PICK sc \in Scores : Turn(p, Record(session, sc)) BY DEF GuessRead
<1>2. UNCHANGED <<session, row, guesses, lost, xp, panos>> /\ session # Nil BY DEF GuessRead
<1>0. Accounted' = Accounted BY <1>2, SameAccount
<1>3. session \in ActiveSession /\ sc \in 0..MaxScore
      BY <1>2, SoloAssumption DEF IndInv, TypeOK
<1>4. Record(session, sc) \in Job BY <1>3 DEF Record, Job
<1>5. TypeOK' BY <1>1, <1>2, <1>4, TurnTyped DEF IndInv, TypeOK
<1>6. JobFits(Record(session, sc), row', Accounted')
      BY <1>0, <1>2 DEF JobFits, Record, IndInv, Fits
<1> QED BY <1>0, <1>1, <1>2, <1>5, <1>6, StepKeepsInvariant DEF IndInv

\* An INSERT keeps what is recorded and records the round, by this guess or an
\* earlier one, on the panorama of the round.
LEMMA InsertedGuess ==
  ASSUME TypeOK, NEW s \in ActiveSession, NEW sc \in 0..MaxScore,
         s.round \in 1..Len(s.panos)
  PROVE  /\ guesses \subseteq Inserted(s, sc)
         /\ Inserted(s, sc) \subseteq Guess
         /\ \A g \in Inserted(s, sc) \ guesses : g.round = s.round /\ g.pano = s.panos[s.round]
         /\ \E g \in Inserted(s, sc) : g.round = s.round
<1>1. s.panos[s.round] \in Pano BY DEF ActiveSession
<1>2. PICK new : new = [round |-> s.round, pano |-> s.panos[s.round], score |-> sc] OBVIOUS
<1>3. new \in Guess /\ new.round = s.round /\ new.pano = s.panos[s.round]
      BY <1>1, <1>2 DEF Guess, ActiveSession
<1>4. Inserted(s, sc) = IF \E g \in guesses : g.round = s.round
                        THEN guesses ELSE guesses \cup {new}
      BY <1>2 DEF Inserted
<1> QED BY <1>3, <1>4 DEF TypeOK

\* A total that the rounds before round n can give is, with one more score, one
\* that n rounds can give.
LEMMA OneMoreScore ==
  ASSUME NEW n \in Nat, NEW t \in Nat, NEW sc \in 0..MaxScore, t <= MaxScore * (n - 1)
  PROVE  t + sc <= MaxScore * n
BY DEF MaxScore

LEMMA GuessRecordKeepsInvariant ==
  ASSUME IndInv, NEW p \in Slot, GuessRecord(p) PROVE IndInv'
<1>1. PICK s, sc : s = job[p].snap /\ sc = job[p].score OBVIOUS
<1>2. PICK c : c = Counted(s, sc) OBVIOUS
<1>3. s \in ActiveSession /\ sc \in 0..MaxScore /\ Fits(s, s.round - 1, row, Accounted)
      BY <1>1, JobFields DEF GuessRecord, IndInv, JobFits
<1>4. c \in ActiveSession /\ c.round = s.round /\ c.panos = s.panos /\ c.total = s.total + sc
      BY <1>2, <1>3 DEF Counted, ActiveSession
<1>5. row # Nil /\ s.panos = row.panos /\ row.rounds = Len(s.panos) /\ s.round \in 1..row.rounds
      BY <1>3 DEF Fits, IndInv, RowFits
<1>6. /\ \/ guesses' = Inserted(s, sc) /\ lost' = lost
         \/ guesses' = guesses /\ lost' = lost \cup {s.round}
      /\ Turn(p, Hold(AfterGuess(s), c))
      /\ UNCHANGED <<session, row, xp, panos>>
      BY <1>1, <1>2, Zenon DEF GuessRecord
<1>7. /\ guesses \subseteq Inserted(s, sc) /\ Inserted(s, sc) \subseteq Guess
      /\ \A g \in Inserted(s, sc) \ guesses : g.round = s.round /\ g.pano = s.panos[s.round]
      /\ \E g \in Inserted(s, sc) : g.round = s.round
      BY <1>3, <1>5, InsertedGuess DEF IndInv
<1>8. Accounted \subseteq Accounted' /\ s.round \in Accounted'
      BY <1>6, <1>7 DEF Accounted
<1>9. Hold(AfterGuess(s), c) \in Job BY <1>4 DEF Hold, AfterGuess, Job
<1>10. guesses' \subseteq Guess /\ lost' \subseteq Nat BY <1>3, <1>6, <1>7 DEF IndInv, TypeOK, ActiveSession
<1>11. TypeOK' BY <1>6, <1>9, <1>10, TurnTyped DEF IndInv, TypeOK
<1>12. RowFits(row', guesses', Accounted')
  <2>1. \A g \in guesses' : g.round \in 1..row.rounds /\ g.pano = row.panos[g.round]
        BY <1>5, <1>6, <1>7 DEF IndInv, RowFits
  <2> QED BY <1>5, <1>6, <1>8, <2>1 DEF IndInv, RowFits
<1>13. Fits(c, c.round, row', Accounted')
  <2>1. 1..c.round \subseteq Accounted'
    <3>1. s.round \in Nat /\ 1..(s.round - 1) \subseteq Accounted BY <1>3 DEF Fits, ActiveSession
    <3>2. 1..s.round \subseteq 1..(s.round - 1) \cup {s.round} BY <3>1
    <3> QED BY <1>4, <1>8, <3>1, <3>2
  <2>2. row.rounds \in Nat BY <1>5 DEF IndInv, TypeOK, Row
  <2>3. c.total <= MaxScore * c.round
    <3>1. s.total <= MaxScore * (s.round - 1) /\ s.round \in Nat /\ s.total \in Nat
          BY <1>3 DEF Fits, ActiveSession
    <3>2. sc \in 0..MaxScore /\ c.round = s.round /\ c.total = s.total + sc BY <1>3, <1>4
    <3>3. s.total + sc <= MaxScore * s.round BY <3>1, <3>2, OneMoreScore
    <3> QED BY <3>2, <3>3
  <2> QED BY <1>4, <1>5, <1>6, <2>1, <2>2, <2>3 DEF Fits
<1>14. JobFits(Hold(AfterGuess(s), c), row', Accounted')
  <2>1. PICK j : j = Hold(AfterGuess(s), c) OBVIOUS
  <2>2. /\ j.pc = AfterGuess(s) /\ j.snap = c BY <2>1 DEF Hold
  <2>3. AfterGuess(s) = IF s.round >= row.rounds THEN "finish" ELSE "progress"
        BY <1>5 DEF AfterGuess
  <2>4. row' = row /\ row.rounds \in Nat BY <1>5, <1>6 DEF IndInv, TypeOK, Row
  <2> QED BY <1>4, <1>5, <1>13, <2>1, <2>2, <2>3, <2>4 DEF JobFits
<1>15. session' # Nil => Fits(session', session'.round - 1, row', Accounted')
      BY <1>6, <1>7, <1>8, SessionStays
<1> QED BY <1>6, <1>7, <1>8, <1>11, <1>12, <1>14, <1>15, StepKeepsInvariant

LEMMA ProgressKeepsInvariant ==
  ASSUME IndInv, NEW p \in Slot, Progress(p) PROVE IndInv'
<1>1. PICK s : s = job[p].snap OBVIOUS
<1>2. PICK n : n = [s EXCEPT !.round = @ + 1] OBVIOUS
<1>3. s \in ActiveSession /\ Fits(s, s.round, row, Accounted) /\ s.round < row.rounds
      BY <1>1, JobFields DEF Progress, IndInv, JobFits
<1>4. n \in ActiveSession /\ n.round = s.round + 1 /\ n.panos = s.panos /\ n.total = s.total
      BY <1>2, <1>3 DEF ActiveSession
<1>5. /\ row' = [row EXCEPT !.round = n.round, !.total = n.total] \/ row' = row
      /\ Turn(p, Hold("save", n))
      /\ UNCHANGED <<session, guesses, lost, xp, panos>>
      BY <1>1, <1>2, Zenon DEF Progress
<1>0. Accounted' = Accounted BY <1>5, SameAccount
<1>6. row \in Row /\ row # Nil BY <1>3 DEF Fits, IndInv, TypeOK
<1>7. /\ row' \in Row /\ row'.panos = row.panos /\ row'.rounds = row.rounds
      /\ row'.status = row.status /\ row'.total \in {row.total, n.total}
      BY <1>4, <1>5, <1>6 DEF Row, ActiveSession
<1>8. row' # Nil BY <1>7, SoloAssumption
<1>9. Hold("save", n) \in Job BY <1>4 DEF Hold, Job
<1>10. TypeOK' BY <1>5, <1>7, <1>9, TurnTyped DEF IndInv, TypeOK
<1>11. n.total <= MaxScore * row.rounds
  <2>1. s.total <= MaxScore * s.round /\ s.round \in Nat /\ row.rounds \in Nat
        BY <1>3, <1>6 DEF Fits, ActiveSession, Row
  <2> QED BY <1>3, <1>4, <2>1 DEF MaxScore, ActiveSession
<1>12. RowFits(row', guesses', Accounted')
      BY <1>0, <1>5, <1>6, <1>7, <1>8, <1>11 DEF IndInv, RowFits
<1>13. Fits(n, n.round - 1, row', Accounted')
      BY <1>0, <1>3, <1>4, <1>5, <1>6, <1>7, <1>8 DEF Fits, ActiveSession, Row
<1>14. JobFits(Hold("save", n), row', Accounted')
      BY <1>8, <1>13 DEF JobFits, Hold
<1>15. session' # Nil => Fits(session', session'.round - 1, row', Accounted')
      BY <1>0, <1>5, <1>7, <1>8, SessionStays
<1> QED BY <1>0, <1>5, <1>6, <1>7, <1>8, <1>10, <1>12, <1>14, <1>15, StepKeepsInvariant

LEMMA FinishKeepsInvariant ==
  ASSUME IndInv, NEW p \in Slot, Finish(p) PROVE IndInv'
<1>1. PICK s : s = job[p].snap OBVIOUS
<1>2. PICK j : j = IF XpGained(s.total) > 0 THEN Award(XpGained(s.total)) ELSE Drop OBVIOUS
<1>3. s \in ActiveSession /\ Fits(s, s.round, row, Accounted) /\ s.round = row.rounds
      BY <1>1, JobFields DEF Finish, IndInv, JobFits
<1>4. /\ row' = [row EXCEPT !.status = "finished", !.total = s.total] \/ row' = row
      /\ Turn(p, j)
      /\ UNCHANGED <<session, guesses, lost, xp, panos>>
      BY <1>1, <1>2, Zenon DEF Finish
<1>0. Accounted' = Accounted BY <1>4, SameAccount
<1>5. row \in Row /\ row # Nil BY <1>3 DEF Fits, IndInv, TypeOK
<1>6. /\ row' \in Row /\ row'.panos = row.panos /\ row'.rounds = row.rounds
      /\ row'.total \in {row.total, s.total}
      BY <1>3, <1>4, <1>5 DEF Row, ActiveSession
<1>7. row' # Nil BY <1>6, SoloAssumption
<1>8. j \in Job /\ j.pc \in {"award", "drop"}
  <2>1. XpGained(s.total) \in Nat BY <1>3 DEF XpGained, PointsPerXp, ActiveSession
  <2> QED BY <1>2, <2>1 DEF Award, Drop, Job
<1>9. TypeOK' BY <1>4, <1>6, <1>8, TurnTyped DEF IndInv, TypeOK
<1>10. s.total <= MaxScore * row.rounds /\ 1..row.rounds \subseteq Accounted
      BY <1>3 DEF Fits
<1>11. RowFits(row', guesses', Accounted')
      BY <1>0, <1>4, <1>5, <1>6, <1>7, <1>10 DEF IndInv, RowFits
<1>12. JobFits(j, row', Accounted') BY <1>7, <1>8 DEF JobFits
<1>13. session' # Nil => Fits(session', session'.round - 1, row', Accounted')
      BY <1>0, <1>4, <1>6, <1>7, SessionStays
<1> QED BY <1>0, <1>4, <1>6, <1>7, <1>9, <1>11, <1>12, <1>13, StepKeepsInvariant

\* A step that leaves the game alone, of a request that then holds nothing.
LEMMA PlainStepKeepsInvariant ==
  ASSUME IndInv, NEW p \in Slot, job[p] # Idle, NEW j \in Job,
         j.pc \in {"idle", "drop"}, Turn(p, j),
         UNCHANGED <<guesses, lost, panos>>, session' \in {session, Nil}, xp' \in Nat,
         row' \in {row} \cup {[row EXCEPT !.status = "abandoned"]}
  PROVE  IndInv'
<1>0. Accounted' = Accounted BY SameAccount
<1>1. row \in Row /\ row # Nil BY DEF IndInv, JobFits, TypeOK
<1>2. /\ row' \in Row /\ row'.panos = row.panos /\ row'.rounds = row.rounds
      /\ row'.total = row.total /\ row'.status \in {row.status, "abandoned"}
      BY <1>1 DEF Row
<1>3. row' # Nil BY <1>2, SoloAssumption
<1>4. TypeOK' BY <1>2, TurnTyped DEF IndInv, TypeOK
<1>5. RowFits(row', guesses', Accounted') BY <1>0, <1>1, <1>2, <1>3 DEF IndInv, RowFits
<1>6. JobFits(j, row', Accounted') BY <1>3 DEF JobFits
<1>7. session' # Nil => Fits(session', session'.round - 1, row', Accounted')
      BY <1>0, <1>2, <1>3, SessionStays
<1> QED BY <1>0, <1>2, <1>3, <1>4, <1>5, <1>6, <1>7, StepKeepsInvariant

LEMMA OtherWorkKeepsInvariant ==
  ASSUME IndInv, NEW p \in Slot,
         AwardXp(p) \/ DropSession(p) \/ AbandonRow(p) \/ Crash(p)
  PROVE  IndInv'
<1>1. Idle \in Job /\ Idle.pc = "idle" /\ Drop \in Job /\ Drop.pc = "drop"
      BY DEF Idle, Drop, Job
<1>2. xp \in Nat BY DEF IndInv, TypeOK
<1>3. CASE AwardXp(p)
  <2>1. job[p].pc = "award" /\ job[p].gain \in Nat BY <1>3, JobFields DEF AwardXp, IndInv
  <2>2. job[p] # Idle BY <1>1, <2>1
  <2>3. /\ xp' \in Nat /\ Turn(p, Drop) /\ UNCHANGED <<session, row, guesses, lost, panos>>
        BY <1>2, <1>3, <2>1 DEF AwardXp
  <2> QED BY <1>1, <2>2, <2>3, PlainStepKeepsInvariant
<1>4. CASE DropSession(p)
  <2>1. job[p] # Idle BY <1>1, <1>4 DEF DropSession
  <2>2. session' \in {session, Nil} BY <1>4 DEF DropSession, StoreOk, StoreError
  <2>3. Turn(p, Idle) /\ UNCHANGED <<row, guesses, lost, xp, panos>> BY <1>4 DEF DropSession, Done
  <2> QED BY <1>1, <1>2, <2>1, <2>2, <2>3, PlainStepKeepsInvariant
<1>5. CASE AbandonRow(p)
  <2>1. job[p] # Idle BY <1>1, <1>5 DEF AbandonRow
  <2>2. row' \in {row} \cup {[row EXCEPT !.status = "abandoned"]} BY <1>5 DEF AbandonRow
  <2>3. Turn(p, Drop) /\ UNCHANGED <<session, guesses, lost, xp, panos>> BY <1>5 DEF AbandonRow
  <2> QED BY <1>1, <1>2, <2>1, <2>2, <2>3, PlainStepKeepsInvariant
<1>6. CASE Crash(p)
  <2>1. job[p] # Idle /\ Turn(p, Idle) /\ UNCHANGED <<session, row, guesses, lost, xp, panos>>
        BY <1>6 DEF Crash, Done
  <2> QED BY <1>1, <1>2, <2>1, PlainStepKeepsInvariant
<1> QED BY <1>3, <1>4, <1>5, <1>6

\* A panorama is deleted: the rounds recorded on it are lost, and accounted for.
LEMMA DeletePanoKeepsInvariant ==
  ASSUME IndInv, NEW q \in Pano, DeletePano(q) PROVE IndInv'
<1>1. /\ guesses' \subseteq guesses /\ panos' \subseteq panos
      /\ lost' = lost \cup {g.round : g \in guesses \ guesses'}
      /\ UNCHANGED <<session, row, xp, job>>
      BY DEF DeletePano
<1>2. Accounted' = Accounted BY <1>1 DEF Accounted
<1>3. TypeOK'
  <2>1. \A g \in guesses : g.round \in Nat BY DEF IndInv, TypeOK, Guess
  <2> QED BY <1>1, <2>1 DEF IndInv, TypeOK
<1>4. RowFits(row', guesses', Accounted') BY <1>1, <1>2 DEF IndInv, RowFits
<1>5. session' # Nil => Fits(session', session'.round - 1, row', Accounted')
      BY <1>1, <1>2 DEF IndInv
<1>6. ASSUME NEW p \in Slot PROVE JobFits(job'[p], row', Accounted')
      BY <1>1, <1>2 DEF IndInv
<1> QED BY <1>3, <1>4, <1>5, <1>6 DEF IndInv

LEMMA AbandonReadKeepsInvariant ==
  ASSUME IndInv, NEW p \in Slot, AbandonRead(p) PROVE IndInv'
<1>1. Turn(p, Abandon) /\ session # Nil /\ UNCHANGED <<session, row, guesses, lost, xp, panos>>
      BY DEF AbandonRead
<1>0. Accounted' = Accounted BY <1>1, SameAccount
<1>2. Abandon \in Job /\ Abandon.pc = "abandon" BY DEF Abandon, Job
<1>3. row # Nil BY <1>1 DEF IndInv, Fits
<1>4. TypeOK' BY <1>1, <1>2, TurnTyped DEF IndInv, TypeOK
<1>5. JobFits(Abandon, row', Accounted') BY <1>1, <1>2, <1>3 DEF JobFits
<1> QED BY <1>0, <1>1, <1>4, <1>5, StepKeepsInvariant DEF IndInv

LEMMA ExpireKeepsInvariant ==
  ASSUME IndInv, Expire PROVE IndInv'
<1>1. session' = Nil /\ UNCHANGED <<row, guesses, lost, xp, panos, job>> BY DEF Expire
<1>0. Accounted' = Accounted BY <1>1, SameAccount
<1>2. TypeOK' BY <1>1 DEF IndInv, TypeOK
<1> QED BY <1>0, <1>1, <1>2 DEF IndInv

LEMMA StutterKeepsInvariant == IndInv /\ UNCHANGED vars => IndInv'
<1> SUFFICES ASSUME IndInv, UNCHANGED vars PROVE IndInv' OBVIOUS
<1>1. UNCHANGED <<session, row, guesses, lost, xp, panos, job>> BY DEF vars
<1>0. Accounted' = Accounted BY <1>1, SameAccount
<1>2. TypeOK' BY <1>1 DEF IndInv, TypeOK
<1> QED BY <1>0, <1>1, <1>2 DEF IndInv

LEMMA NextKeepsInvariant == IndInv /\ [Next]_vars => IndInv'
<1> SUFFICES ASSUME IndInv, [Next]_vars PROVE IndInv' OBVIOUS
<1>1. CASE UNCHANGED vars BY <1>1, StutterKeepsInvariant
<1>2. ASSUME NEW p \in Slot, Ask(p) PROVE IndInv'
      BY <1>2, StartKeepsInvariant, GuessReadKeepsInvariant, AbandonReadKeepsInvariant DEF Ask
<1>3. ASSUME NEW p \in Slot, Work(p) PROVE IndInv'
      BY <1>3, SaveKeepsInvariant, GuessRecordKeepsInvariant, ProgressKeepsInvariant,
         FinishKeepsInvariant, OtherWorkKeepsInvariant DEF Work
<1>4. ASSUME NEW p \in Slot, Crash(p) PROVE IndInv'
      BY <1>4, OtherWorkKeepsInvariant
<1>5. CASE Expire BY <1>5, ExpireKeepsInvariant
<1>6. ASSUME NEW q \in Pano, DeletePano(q) PROVE IndInv'
      BY <1>6, DeletePanoKeepsInvariant
<1> QED BY <1>1, <1>2, <1>3, <1>4, <1>5, <1>6, Zenon DEF Next

-----------------------------------------------------------------------------
(* Requests one at a time, of which no SET or statement fails.  What the   *)
(* row and the XP say then depends on how far the one request at work is.  *)

NothingFails == Faults \cap {"set", "db"} = {}

Alone == \A p, q \in Slot : job[p] # Idle /\ job[q] # Idle => p = q

\* What a request at work finds of the row r and the XP x: an open session
\* that has earned nothing, a finished one whose XP it holds, or one that is
\* over and paid.
InHand(j, r, x) ==
  /\ j.pc \in {"save", "record", "progress", "finish", "abandon"} =>
       r.status = "active" /\ x = 0
  /\ j.pc = "award" => r.status = "finished" /\ x = 0 /\ j.gain = XpGained(r.total)
  /\ j.pc = "drop" =>
       r.status # "active" /\ (r.status = "finished" => x = XpGained(r.total))

\* What a request finds that arrives: session s, row r, XP x.
AtRest(s, r, x) ==
  IF r = Nil THEN s = Nil /\ x = 0
  ELSE /\ r.status = "active" => x = 0
       /\ r.status # "active" => s = Nil
       /\ r.status = "finished" => x = XpGained(r.total)

SerialInv ==
  /\ Alone
  /\ \A p \in Slot : InHand(job[p], row, xp)
  /\ Quiet => AtRest(session, row, xp)

LEMMA NextOfSerialNext == SerialNext => Next
BY Zenon DEF SerialNext, Next

LEMMA SerialKeepsInvariant == IndInv /\ [SerialNext]_vars => IndInv'
BY NextOfSerialNext, NextKeepsInvariant

LEMMA IdleInHand ==
  ASSUME NEW r, NEW x PROVE InHand(Idle, r, x)
BY DEF InHand, Idle

LEMMA OthersIdle ==
  ASSUME SerialInv, NEW p \in Slot, job[p] # Idle \/ Quiet
  PROVE  \A q \in Slot : q # p => job[q] = Idle
BY DEF SerialInv, Alone, Quiet

\* A step of the only request at work, p.
LEMMA SerialStep ==
  ASSUME TypeOK, NEW p \in Slot, NEW j, Turn(p, j),
         \A q \in Slot : q # p => job[q] = Idle,
         InHand(j, row', xp'),
         j = Idle => AtRest(session', row', xp')
  PROVE  SerialInv'
<1>1. job'[p] = j /\ \A q \in Slot : q # p => job'[q] = Idle
      BY DEF Turn, TypeOK
<1>2. Alone' BY <1>1 DEF Alone
<1>3. \A q \in Slot : InHand(job'[q], row', xp') BY <1>1, IdleInHand
<1>4. Quiet' => AtRest(session', row', xp') BY <1>1 DEF Quiet
<1> QED BY <1>2, <1>3, <1>4 DEF SerialInv

LEMMA AskKeepsSerial ==
  ASSUME IndInv, SerialInv, NEW p \in Slot, Quiet, Ask(p)
  PROVE  SerialInv'
<1>1. \A q \in Slot : q # p => job[q] = Idle BY DEF Quiet
<1>2. TypeOK /\ AtRest(session, row, xp) BY DEF IndInv, SerialInv
<1>3. session # Nil => row # Nil /\ row.status = "active" /\ xp = 0
      BY <1>2 DEF AtRest
<1>4. CASE Start(p)
  <2>1. PICK qs \in Draws :
          /\ row' = NewRow(qs)
          /\ Turn(p, Hold("save", [round |-> 1, total |-> 0, panos |-> qs]))
        BY <1>4 DEF Start
  <2>2. PICK j : j = Hold("save", [round |-> 1, total |-> 0, panos |-> qs]) OBVIOUS
  <2>3. row'.status = "active" BY <2>1 DEF NewRow
  <2>4. xp' = 0 BY <1>2, <1>4 DEF Start, AtRest
  <2>5. j.pc = "save" BY <2>2 DEF Hold
  <2>6. j # Idle BY <2>5 DEF Idle
  <2>7. InHand(j, row', xp') BY <2>3, <2>4, <2>5 DEF InHand
  <2> QED BY <1>1, <1>2, <2>1, <2>2, <2>6, <2>7, SerialStep
<1>5. CASE GuessRead(p)
  <2>1. PICK sc \in Scores : Turn(p, Record(session, sc)) BY <1>5 DEF GuessRead
  <2>2. PICK j : j = Record(session, sc) OBVIOUS
  <2>3. row' = row /\ xp' = xp /\ session # Nil BY <1>5 DEF GuessRead
  <2>4. j.pc = "record" BY <2>2 DEF Record
  <2>5. j # Idle BY <2>4 DEF Idle
  <2>6. InHand(j, row', xp') BY <1>3, <2>3, <2>4 DEF InHand
  <2> QED BY <1>1, <1>2, <2>1, <2>2, <2>5, <2>6, SerialStep
<1>6. CASE AbandonRead(p)
  <2>1. Turn(p, Abandon) /\ row' = row /\ xp' = xp /\ session # Nil BY <1>6 DEF AbandonRead
  <2>2. Abandon.pc = "abandon" BY DEF Abandon
  <2>3. Abandon # Idle BY DEF Abandon, Idle
  <2>4. InHand(Abandon, row', xp') BY <1>3, <2>1, <2>2 DEF InHand
  <2> QED BY <1>1, <1>2, <2>1, <2>3, <2>4, SerialStep
<1> QED BY <1>4, <1>5, <1>6 DEF Ask

LEMMA GuessKeepsSerial ==
  ASSUME NothingFails, IndInv, SerialInv, NEW p \in Slot,
         Save(p) \/ GuessRecord(p) \/ Progress(p)
  PROVE  SerialInv'
<1>1. job[p].pc \in {"save", "record", "progress"}
      BY DEF Save, GuessRecord, Progress
<1>2. job[p] # Idle BY <1>1 DEF Idle
<1>3. \A q \in Slot : q # p => job[q] = Idle BY <1>2, OthersIdle
<1>4. TypeOK /\ row # Nil /\ row.status = "active" /\ xp = 0
      BY <1>1, <1>2 DEF IndInv, JobFits, SerialInv, InHand
<1>5. row \in Row BY <1>4 DEF TypeOK
<1>6. CASE Save(p)
  <2>1. row' = row /\ xp' = xp /\ Turn(p, Idle) BY <1>6 DEF Save, Done
  <2>2. AtRest(session', row', xp') BY <1>4, <2>1 DEF AtRest
  <2> QED BY <1>3, <1>4, <2>1, <2>2, IdleInHand, SerialStep
<1>7. CASE GuessRecord(p)
  <2>1. PICK s, sc : s = job[p].snap /\ sc = job[p].score OBVIOUS
  <2>2. PICK j : j = Hold(AfterGuess(s), Counted(s, sc)) OBVIOUS
  <2>3. row' = row /\ xp' = xp /\ Turn(p, j) BY <1>7, <2>1, <2>2 DEF GuessRecord
  <2>4. j.pc \in {"progress", "finish"} BY <2>2 DEF Hold, AfterGuess
  <2>5. j # Idle BY <2>4 DEF Idle
  <2>6. InHand(j, row', xp') BY <1>4, <2>3, <2>4 DEF InHand
  <2> QED BY <1>3, <1>4, <2>3, <2>5, <2>6, SerialStep
<1>8. CASE Progress(p)
  <2>1. PICK n : n = [job[p].snap EXCEPT !.round = @ + 1] OBVIOUS
  <2>2. PICK j : j = Hold("save", n) OBVIOUS
  <2>3. /\ row' = [row EXCEPT !.round = n.round, !.total = n.total] \/ row' = row
        /\ xp' = xp /\ Turn(p, j)
        BY <1>8, <2>1, <2>2, Zenon DEF Progress
  <2>4. row'.status = "active" BY <1>4, <1>5, <2>3 DEF Row
  <2>5. j.pc = "save" BY <2>2 DEF Hold
  <2>6. j # Idle BY <2>5 DEF Idle
  <2>7. InHand(j, row', xp') BY <1>4, <2>3, <2>4, <2>5 DEF InHand
  <2> QED BY <1>3, <1>4, <2>3, <2>6, <2>7, SerialStep
<1> QED BY <1>6, <1>7, <1>8

\* The row takes the total of the session and the request its XP, or there is
\* none to award.
LEMMA FinishKeepsSerial ==
  ASSUME NothingFails, IndInv, SerialInv, NEW p \in Slot, Finish(p)
  PROVE  SerialInv'
<1>1. job[p].pc = "finish" BY DEF Finish
<1>2. job[p] # Idle BY <1>1 DEF Idle
<1>3. \A q \in Slot : q # p => job[q] = Idle BY <1>2, OthersIdle
<1>4. TypeOK /\ row # Nil /\ xp = 0
      BY <1>1, <1>2 DEF IndInv, JobFits, SerialInv, InHand
<1>5. row \in Row BY <1>4 DEF TypeOK
<1>6. PICK s : s = job[p].snap OBVIOUS
<1>7. s.total \in Nat BY <1>1, <1>4, <1>6, JobFields DEF ActiveSession
<1>8. PICK g : g = XpGained(s.total) OBVIOUS
<1>9. PICK j : j = IF g > 0 THEN Award(g) ELSE Drop OBVIOUS
<1>10. /\ row' = [row EXCEPT !.status = "finished", !.total = s.total]
       /\ xp' = xp /\ Turn(p, j)
       BY <1>6, <1>8, <1>9, Zenon DEF Finish, NothingFails
<1>11. row'.status = "finished" /\ XpGained(row'.total) = g
       BY <1>5, <1>8, <1>10 DEF Row
<1>12. g \in Nat BY <1>7, <1>8 DEF XpGained, PointsPerXp
<1>13. CASE g > 0
  <2>1. j.pc = "award" /\ j.gain = g BY <1>9, <1>13 DEF Award
  <2>2. j # Idle BY <2>1 DEF Idle
  <2>3. InHand(j, row', xp') BY <1>4, <1>10, <1>11, <2>1 DEF InHand
  <2> QED BY <1>3, <1>4, <1>10, <2>2, <2>3, SerialStep
<1>14. CASE g = 0
  <2>1. j.pc = "drop" BY <1>9, <1>14 DEF Drop
  <2>2. j # Idle BY <2>1 DEF Idle
  <2>3. InHand(j, row', xp') BY <1>4, <1>10, <1>11, <1>14, <2>1 DEF InHand
  <2> QED BY <1>3, <1>4, <1>10, <2>2, <2>3, SerialStep
<1> QED BY <1>12, <1>13, <1>14

LEMMA EndKeepsSerial ==
  ASSUME NothingFails, IndInv, SerialInv, NEW p \in Slot,
         AwardXp(p) \/ DropSession(p) \/ AbandonRow(p)
  PROVE  SerialInv'
<1>1. job[p].pc \in {"award", "drop", "abandon"}
      BY DEF AwardXp, DropSession, AbandonRow
<1>2. job[p] # Idle BY <1>1 DEF Idle
<1>3. \A q \in Slot : q # p => job[q] = Idle BY <1>2, OthersIdle
<1>4. TypeOK /\ row # Nil /\ InHand(job[p], row, xp)
      BY <1>2 DEF IndInv, JobFits, SerialInv
<1>5. row \in Row BY <1>4 DEF TypeOK
<1>6. Drop.pc = "drop" /\ Drop # Idle BY DEF Drop, Idle
<1>7. CASE AwardXp(p)
  <2>1. xp' = xp + job[p].gain /\ row' = row /\ Turn(p, Drop)
        BY <1>7 DEF AwardXp, NothingFails
  <2>2. /\ row.status = "finished" /\ xp = 0
        /\ job[p].gain = XpGained(row.total) /\ job[p].gain \in Nat
        BY <1>4, <1>7, JobFields DEF AwardXp, InHand
  <2>3. xp' = XpGained(row'.total) /\ row'.status = "finished" BY <2>1, <2>2
  <2>4. InHand(Drop, row', xp') BY <1>6, <2>3 DEF InHand
  <2> QED BY <1>3, <1>4, <1>6, <2>1, <2>4, SerialStep
<1>8. CASE DropSession(p)
  <2>1. session' = Nil /\ row' = row /\ xp' = xp /\ Turn(p, Idle)
        BY <1>8 DEF DropSession, StoreOk, StoreError, NothingFails, Done
  <2>2. row.status # "active" /\ (row.status = "finished" => xp = XpGained(row.total))
        BY <1>4, <1>8 DEF DropSession, InHand
  <2>3. AtRest(session', row', xp') BY <1>4, <2>1, <2>2 DEF AtRest
  <2> QED BY <1>3, <1>4, <2>1, <2>3, IdleInHand, SerialStep
<1>9. CASE AbandonRow(p)
  <2>1. row' = [row EXCEPT !.status = "abandoned"] /\ xp' = xp /\ Turn(p, Drop)
        BY <1>9 DEF AbandonRow, NothingFails
  <2>2. row'.status = "abandoned" BY <1>5, <2>1 DEF Row
  <2>3. InHand(Drop, row', xp') BY <1>6, <2>2 DEF InHand
  <2> QED BY <1>3, <1>4, <1>6, <2>1, <2>3, SerialStep
<1> QED BY <1>7, <1>8, <1>9

LEMMA SerialNextKeepsSerial ==
  ASSUME NothingFails PROVE IndInv /\ SerialInv /\ [SerialNext]_vars => SerialInv'
<1> SUFFICES ASSUME IndInv, SerialInv, [SerialNext]_vars PROVE SerialInv' OBVIOUS
<1>1. CASE UNCHANGED vars
      BY <1>1 DEF vars, SerialInv, Alone, Quiet
<1>2. ASSUME NEW p \in Slot, Quiet, Ask(p) PROVE SerialInv' BY <1>2, AskKeepsSerial
<1>3. ASSUME NEW p \in Slot, Work(p) PROVE SerialInv'
      BY <1>3, GuessKeepsSerial, FinishKeepsSerial, EndKeepsSerial DEF Work
<1> QED BY <1>1, <1>2, <1>3, Zenon DEF SerialNext

LEMMA InitSerial == Init => SerialInv
<1> SUFFICES ASSUME Init PROVE SerialInv OBVIOUS
<1>1. \A p \in Slot : job[p] = Idle BY DEF Init
<1>2. AtRest(session, row, xp) BY DEF Init, AtRest
<1> QED BY <1>1, <1>2, IdleInHand DEF SerialInv, Alone

-----------------------------------------------------------------------------
(* The sum of the scores.                                                  *)

\* Induction over the naturals for a set, from the well-foundedness of <: the
\* library's induction theorem takes an operator, this one does not.
LEMMA LeastRound ==
  ASSUME NEW T, T \subseteq Nat, T # {}
  PROVE  \E x \in T : \A y \in T : x <= y
<1>1. PICK R : R = OpToRel(<, Nat) OBVIOUS
<1>2. IsWellFoundedOn(R, Nat) BY <1>1, NatLessThanWellFounded, Zenon
<1>3. PICK x \in T : \A y \in T : ~ (<<y, x>> \in R) BY <1>2, WFMin
<1>4. \A y \in T : ~ (y < x) BY <1>1, <1>3 DEF OpToRel
<1> QED BY <1>4

LEMMA RoundInduction ==
  ASSUME NEW T, 0 \in T, \A n \in Nat : n \in T => n + 1 \in T
  PROVE  Nat \subseteq T
<1> SUFFICES ASSUME Nat \ T # {} PROVE FALSE OBVIOUS
<1>1. PICK x \in Nat \ T : \A y \in Nat \ T : x <= y BY LeastRound
<1>2. x - 1 \in Nat /\ x - 1 \in T BY <1>1
<1> QED BY <1>2

\* f is what Sum computes by recursion, up to m.
Adds(f, s, m) == f = [n \in 0..m |-> IF n = 0 THEN 0 ELSE f[n - 1] + s[n]]

LEMMA AddsSteps ==
  ASSUME NEW s, NEW m \in Nat, NEW f, Adds(f, s, m)
  PROVE  f[0] = 0 /\ \A n \in 1..m : f[n] = f[n - 1] + s[n]
<1>1. f = [n \in 0..m |-> IF n = 0 THEN 0 ELSE f[n - 1] + s[n]] BY DEF Adds
<1>2. \A n \in 0..m : f[n] = IF n = 0 THEN 0 ELSE f[n - 1] + s[n] BY <1>1
<1>3. ASSUME NEW n \in 1..m PROVE f[n] = f[n - 1] + s[n]
  <2>1. n \in 0..m /\ n # 0 OBVIOUS
  <2> QED BY <1>2, <2>1
<1> QED BY <1>2, <1>3

\* The recursion has a solution.
LEMMA AddsExists ==
  ASSUME NEW s, NEW m \in Nat PROVE \E f : Adds(f, s, m)
<1>1. PICK T : T = {k \in Nat : \E f : Adds(f, s, k)} OBVIOUS
<1>2. 0 \in T
  <2>1. PICK f : f = [n \in 0..0 |-> 0] OBVIOUS
  <2>2. Adds(f, s, 0) BY <2>1 DEF Adds
  <2> QED BY <1>1, <2>2
<1>3. ASSUME NEW k \in Nat, k \in T PROVE k + 1 \in T
  <2>1. PICK f : Adds(f, s, k) BY <1>1, <1>3
  <2>2. PICK g : g = [n \in 0..(k + 1) |-> IF n <= k THEN f[n] ELSE f[n - 1] + s[n]]
        OBVIOUS
  <2>3. \A n \in 0..k : g[n] = f[n] BY <2>2
  <2>4. f[0] = 0 /\ \A n \in 1..k : f[n] = f[n - 1] + s[n] BY <2>1, AddsSteps
  <2>5. ASSUME NEW n \in 0..(k + 1)
        PROVE  g[n] = IF n = 0 THEN 0 ELSE g[n - 1] + s[n]
    <3>1. CASE n = 0 BY <2>3, <2>4, <3>1
    <3>2. CASE n # 0 /\ n <= k
      <4>1. n \in 1..k /\ n \in 0..k /\ n - 1 \in 0..k BY <3>2
      <4> QED BY <2>3, <2>4, <3>2, <4>1
    <3>3. CASE n = k + 1
      <4>1. g[n] = f[n - 1] + s[n] BY <2>2, <3>3
      <4>2. g[n - 1] = f[n - 1] BY <2>3, <3>3
      <4> QED BY <3>3, <4>1, <4>2
    <3> QED BY <3>1, <3>2, <3>3
  <2>6. g = [n \in 0..(k + 1) |-> g[n]] BY <2>2
  <2>7. Adds(g, s, k + 1) BY <2>5, <2>6 DEF Adds
  <2> QED BY <1>1, <2>7
<1> QED BY <1>1, <1>2, <1>3, RoundInduction

LEMMA SumAdds ==
  ASSUME NEW s, Len(s) \in Nat
  PROVE  \E f : Adds(f, s, Len(s)) /\ Promise!Sum(s) = f[Len(s)]
<1>1. PICK f : f = CHOOSE g : Adds(g, s, Len(s)) OBVIOUS
<1>2. \E g : Adds(g, s, Len(s)) BY AddsExists
<1>3. Adds(f, s, Len(s)) BY <1>1, <1>2
<1>4. Promise!Sum(s) = f[Len(s)] BY <1>1, Zenon DEF Promise!Sum, Adds
<1> QED BY <1>3, <1>4

\* One more score adds to the sum, and no score sums to zero.
LEMMA SumAppend ==
  ASSUME NEW S, NEW s \in Seq(S), NEW x \in S
  PROVE  Promise!Sum(Append(s, x)) = Promise!Sum(s) + x
<1>1. PICK t, m : t = Append(s, x) /\ m = Len(s) OBVIOUS
<1>2. t \in Seq(S) /\ m \in Nat /\ Len(t) = m + 1 /\ t[m + 1] = x
      /\ \A n \in 1..m : t[n] = s[n]
      BY <1>1
<1>3. PICK f : Adds(f, s, m) /\ Promise!Sum(s) = f[m] BY <1>1, <1>2, SumAdds
<1>4. PICK g : Adds(g, t, m + 1) /\ Promise!Sum(t) = g[m + 1] BY <1>2, SumAdds
<1>5. f[0] = 0 /\ \A n \in 1..m : f[n] = f[n - 1] + s[n] BY <1>2, <1>3, AddsSteps
<1>6. g[0] = 0 /\ \A n \in 1..(m + 1) : g[n] = g[n - 1] + t[n] BY <1>2, <1>4, AddsSteps
<1>7. PICK T : T = {k \in Nat : k <= m => f[k] = g[k]} OBVIOUS
<1>8. 0 \in T BY <1>5, <1>6, <1>7
<1>9. ASSUME NEW k \in Nat, k \in T PROVE k + 1 \in T
  <2>1. CASE k + 1 <= m
    <3>1. k + 1 \in 1..m /\ k + 1 \in 1..(m + 1) /\ (k + 1) - 1 = k BY <1>2, <2>1
    <3>2. f[k] = g[k] BY <1>2, <1>7, <1>9, <2>1
    <3>3. f[k + 1] = f[k] + s[k + 1] BY <1>5, <3>1
    <3>4. g[k + 1] = g[k] + t[k + 1] BY <1>6, <3>1
    <3>5. f[k + 1] = g[k + 1] BY <1>2, <3>1, <3>2, <3>3, <3>4
    <3> QED BY <1>7, <3>5
  <2>2. CASE ~ (k + 1 <= m) BY <1>7, <2>2
  <2> QED BY <2>1, <2>2
<1>10. m \in T BY <1>2, <1>7, <1>8, <1>9, RoundInduction
<1>11. f[m] = g[m] BY <1>2, <1>7, <1>10
<1>12. m + 1 \in 1..(m + 1) /\ (m + 1) - 1 = m BY <1>2
<1>13. g[m + 1] = g[m] + t[m + 1] BY <1>6, <1>12
<1> QED BY <1>1, <1>2, <1>3, <1>4, <1>11, <1>13

LEMMA SumEmpty == Promise!Sum(<<>>) = 0
<1>1. Len(<<>>) = 0 OBVIOUS
<1>2. PICK f : Adds(f, <<>>, 0) /\ Promise!Sum(<<>>) = f[0] BY <1>1, SumAdds
<1> QED BY <1>2, AddsSteps

-----------------------------------------------------------------------------
(* The promise, with requests one at a time of which nothing fails.        *)

\* Every round up to the last guessed has one guess.
OneByOne(gs) ==
  /\ {g.round : g \in gs} = 1..Cardinality(gs)
  /\ \A g, h \in gs : g.round = h.round => g = h

\* What a request at work knows once n rounds are guessed, of t points: before
\* its guess and after it.
InTurn(j, r, n, t) ==
  /\ j.pc \in {"save", "record"} => j.snap.round = n + 1 /\ j.snap.total = t /\ r.total = t
  /\ j.pc = "record" => j.score \in Scores
  /\ j.pc \in {"progress", "finish"} => j.snap.round = n /\ j.snap.total = t
  /\ j.pc = "abandon" => n < r.rounds /\ r.total = t

\* The session a request finds is at the next round, with every point.
AtTurn(s, r, n, t) ==
  s # Nil => s.round = n + 1 /\ s.total = t /\ r.total = t

Played == Cardinality(guesses)
Points == Promise!Sum(Recorded)

PromiseInv ==
  /\ panos = Pano
  /\ IsFiniteSet(guesses) /\ OneByOne(guesses)
  /\ \A p \in Slot : InTurn(job[p], row, Played, Points)
  /\ Quiet => AtTurn(session, row, Played, Points)

\* The scores of a set of guesses, by round.
ScoresOf(gs) == [r \in 1..Cardinality(gs) |-> (CHOOSE g \in gs : g.round = r).score]

LEMMA RecordedIs == Recorded = ScoresOf(guesses)
BY DEF Recorded, ScoresOf

LEMMA RecordedNext == Recorded' = ScoresOf(guesses')
BY DEF Recorded, ScoresOf

LEMMA SameGuesses ==
  guesses' = guesses => Played' = Played /\ Points' = Points /\ Recorded' = Recorded
<1> SUFFICES ASSUME guesses' = guesses
             PROVE  Played' = Played /\ Points' = Points /\ Recorded' = Recorded
    OBVIOUS
<1>1. Recorded' = Recorded BY RecordedIs, RecordedNext
<1> QED BY <1>1 DEF Played, Points

LEMMA NoGuesses ==
  ASSUME guesses = {}
  PROVE  /\ Played = 0 /\ Points = 0 /\ IsFiniteSet(guesses) /\ OneByOne(guesses)
         /\ Recorded = <<>>
<1>1. Cardinality(guesses) = 0 /\ IsFiniteSet(guesses) BY FS_EmptySet
<1>2. Recorded = <<>>
  <2>1. 1..0 = {} OBVIOUS
  <2>2. Recorded = [r \in {} |-> (CHOOSE g \in guesses : g.round = r).score]
        BY <1>1, <2>1 DEF Recorded
  <2> QED BY <2>2
<1>3. Points = 0 BY <1>2, SumEmpty DEF Points
<1>4. 1..0 = {} OBVIOUS
<1>5. OneByOne(guesses) BY <1>1, <1>4 DEF OneByOne
<1> QED BY <1>1, <1>2, <1>3, <1>5 DEF Played

\* The guess of the next round is one more score.
LEMMA OneMoreGuess ==
  ASSUME NEW gs, IsFiniteSet(gs), gs \subseteq Guess, OneByOne(gs),
         NEW g \in Guess, g.round = Cardinality(gs) + 1
  PROVE  /\ IsFiniteSet(gs \cup {g}) /\ Cardinality(gs \cup {g}) = Cardinality(gs) + 1
         /\ OneByOne(gs \cup {g})
         /\ ScoresOf(gs) \in Seq(0..MaxScore) /\ Len(ScoresOf(gs)) = Cardinality(gs)
         /\ ScoresOf(gs \cup {g}) = Append(ScoresOf(gs), g.score)
<1>1. PICK n : n = Cardinality(gs) OBVIOUS
<1>2. n \in Nat BY <1>1, FS_CardinalityType
<1>3. {h.round : h \in gs} = 1..n /\ \A h, k \in gs : h.round = k.round => h = k
      BY <1>1 DEF OneByOne
<1>4. g.round \notin 1..n BY <1>1, <1>2
<1>5. \A h \in gs : h.round # g.round BY <1>3, <1>4
<1>6. g \notin gs BY <1>5
<1>7. IsFiniteSet(gs \cup {g}) /\ Cardinality(gs \cup {g}) = n + 1
      BY <1>1, <1>6, FS_AddElement
<1>8. OneByOne(gs \cup {g})
  <2>1. {h.round : h \in gs \cup {g}} = {h.round : h \in gs} \cup {g.round} OBVIOUS
  <2>2. 1..(n + 1) = 1..n \cup {n + 1} BY <1>2
  <2>3. {h.round : h \in gs \cup {g}} = 1..(n + 1) BY <1>1, <1>3, <2>1, <2>2
  <2>4. \A h, k \in gs \cup {g} : h.round = k.round => h = k BY <1>3, <1>5
  <2> QED BY <1>7, <2>3, <2>4 DEF OneByOne
<1>9. \A r \in 1..n : \E h \in gs : h.round = r BY <1>3
<1>10. \A r \in 1..n :
         /\ (CHOOSE h \in gs : h.round = r) \in gs
         /\ (CHOOSE h \in gs : h.round = r).round = r
       BY <1>9
<1>11. \A r \in 1..n : (CHOOSE h \in gs \cup {g} : h.round = r) = (CHOOSE h \in gs : h.round = r)
  <2> TAKE r \in 1..n
  <2>1. PICK h : h = CHOOSE k \in gs : k.round = r OBVIOUS
  <2>2. PICK k : k = CHOOSE m \in gs \cup {g} : m.round = r OBVIOUS
  <2>3. h \in gs /\ h.round = r BY <1>10, <2>1
  <2>4. k \in gs \cup {g} /\ k.round = r BY <2>2, <2>3
  <2>5. k \in gs BY <1>4, <2>4
  <2>6. k = h BY <1>3, <2>3, <2>4, <2>5
  <2> QED BY <2>1, <2>2, <2>6
<1>12. (CHOOSE h \in gs \cup {g} : h.round = n + 1) = g
  <2>1. PICK h : h = CHOOSE k \in gs \cup {g} : k.round = n + 1 OBVIOUS
  <2>2. h \in gs \cup {g} /\ h.round = n + 1 BY <1>1, <2>1
  <2>3. h = g BY <1>1, <1>5, <2>2
  <2> QED BY <2>1, <2>3
<1>13. PICK s, t : s = ScoresOf(gs) /\ t = ScoresOf(gs \cup {g}) OBVIOUS
<1>14. /\ s = [r \in 1..n |-> (CHOOSE h \in gs : h.round = r).score]
       /\ t = [r \in 1..(n + 1) |-> (CHOOSE h \in gs \cup {g} : h.round = r).score]
       BY <1>1, <1>7, <1>13 DEF ScoresOf
<1>15. \A r \in 1..n : s[r] \in 0..MaxScore
  <2> TAKE r \in 1..n
  <2>1. PICK h : h = CHOOSE k \in gs : k.round = r OBVIOUS
  <2>2. h \in Guess BY <1>10, <2>1
  <2>3. s[r] = h.score BY <1>14, <2>1
  <2> QED BY <2>2, <2>3 DEF Guess
<1>16. s \in Seq(0..MaxScore) /\ Len(s) = n
  <2>1. s = [r \in 1..n |-> s[r]] BY <1>14
  <2>2. PICK S : S = 0..MaxScore OBVIOUS
  <2>3. s \in [1..n -> S] BY <1>15, <2>1, <2>2
  <2>4. s \in Seq(S) /\ Len(s) = n BY <1>2, <2>3
  <2> QED BY <2>2, <2>4
<1>17. t = Append(s, g.score)
  <2>1. PICK a : a = Append(s, g.score) OBVIOUS
  <2>2. \A r \in 1..n : r \in 1..(n + 1) BY <1>2
  <2>3. \A r \in 1..n : t[r] = s[r] BY <1>11, <1>14, <2>2
  <2>4. n + 1 \in 1..(n + 1) BY <1>2
  <2>5. t[n + 1] = g.score BY <1>12, <1>14, <2>4
  <2>6. g.score \in 0..MaxScore BY DEF Guess
  <2>7. /\ DOMAIN a = 1..(n + 1) /\ a[n + 1] = g.score
        /\ \A r \in 1..n : a[r] = s[r]
        BY <1>2, <1>16, <2>1, <2>6
  <2>8. a = [r \in 1..(n + 1) |-> a[r]]
        BY <1>2, <1>16, <2>1, <2>6
  <2>9. \A r \in 1..(n + 1) : t[r] = a[r] BY <1>2, <2>3, <2>5, <2>7
  <2>10. t = [r \in 1..(n + 1) |-> t[r]] BY <1>14
  <2> QED BY <2>1, <2>8, <2>9, <2>10
<1> QED BY <1>1, <1>7, <1>8, <1>13, <1>16, <1>17

\* As many scores as rounds guessed.
LEMMA LengthOfRecorded ==
  ASSUME TypeOK, PromiseInv PROVE Played \in Nat /\ Len(Recorded) = Played
<1>1. Played \in Nat BY FS_CardinalityType DEF PromiseInv, Played
<1> QED BY <1>1 DEF Recorded, Played

\* What the abstract state is once there is a row.
LEMMA MappedRow ==
  ASSUME row # Nil PROVE Phase = row.status /\ Length = row.rounds /\ Total = row.total
BY DEF Phase, Length, Total

LEMMA MappedRowNext ==
  ASSUME row' # Nil PROVE Phase' = row'.status /\ Length' = row'.rounds /\ Total' = row'.total
BY DEF Phase, Length, Total

\* Steps that change neither row, guesses nor XP are none of the promise.
LEMMA Unseen ==
  ASSUME UNCHANGED <<row, guesses, xp>> PROVE UNCHANGED Promise!pvars
<1>1. Recorded' = Recorded BY SameGuesses
<1> QED BY <1>1 DEF Promise!pvars, Phase, Length, Total

\* A step of the only request at work, p.
LEMMA PromiseStep ==
  ASSUME TypeOK, PromiseInv, NEW p \in Slot, NEW j, Turn(p, j), panos' = panos,
         \A q \in Slot : q # p => job[q] = Idle,
         IsFiniteSet(guesses'), OneByOne(guesses'),
         InTurn(j, row', Played', Points'),
         j = Idle => AtTurn(session', row', Played', Points')
  PROVE  PromiseInv'
<1>1. job'[p] = j /\ \A q \in Slot : q # p => job'[q] = Idle
      BY DEF Turn, TypeOK
<1>2. InTurn(Idle, row', Played', Points') BY DEF InTurn, Idle
<1>3. \A q \in Slot : InTurn(job'[q], row', Played', Points') BY <1>1, <1>2
<1>4. Quiet' => AtTurn(session', row', Played', Points') BY <1>1 DEF Quiet
<1> QED BY <1>3, <1>4 DEF PromiseInv

LEMMA OpenStep ==
  ASSUME IndInv, SerialInv, PromiseInv, NEW p \in Slot, Quiet, Start(p)
  PROVE  PromiseInv' /\ Promise!Open
<1>1. TypeOK /\ AtRest(session, row, xp) BY DEF IndInv, SerialInv
<1>2. PICK qs \in Draws :
        /\ qs # <<>> /\ row' = NewRow(qs)
        /\ Turn(p, Hold("save", [round |-> 1, total |-> 0, panos |-> qs]))
      BY DEF Start
<1>3. PICK j : j = Hold("save", [round |-> 1, total |-> 0, panos |-> qs]) OBVIOUS
<1>4. row = Nil /\ UNCHANGED <<guesses, xp, panos>> BY DEF Start
<1>5. guesses = {} BY <1>4 DEF IndInv, RowFits
<1>6. Played' = 0 /\ Points' = 0 /\ IsFiniteSet(guesses') /\ OneByOne(guesses')
      BY <1>4, <1>5, NoGuesses, SameGuesses
<1>7. /\ row'.status = "active" /\ row'.rounds = Len(qs) /\ row'.total = 0
      BY <1>2 DEF NewRow
<1>8. qs \in Seq(Pano) BY <1>1, <1>2, DrawsAreSequences
<1>9. row' \in Row BY <1>2, <1>8 DEF NewRow, Row
<1>10. Len(qs) \in 1..Rounds
  <2>1. IsFiniteSet(panos) BY <1>1, SoloAssumption, FS_Subset DEF TypeOK
  <2>2. Cardinality(panos) \in Nat BY <2>1, FS_CardinalityType
  <2>3. Rounds \in Nat BY SoloAssumption DEF Rounds
  <2>4. PICK k \in 0..Rounds : qs \in [1..k -> panos]
        BY <1>2, <2>2, <2>3 DEF Draws, Injection
  <2>5. Len(qs) = k BY <2>4
  <2>6. Len(qs) # 0 BY <1>2, <1>8
  <2> QED BY <2>3, <2>4, <2>5, <2>6
<1>11. j.pc = "save" /\ j.snap.round = 1 /\ j.snap.total = 0 BY <1>3 DEF Hold
<1>12. j # Idle BY <1>11 DEF Idle
<1>13. InTurn(j, row', Played', Points') BY <1>6, <1>7, <1>11 DEF InTurn
<1>14. \A q \in Slot : q # p => job[q] = Idle BY DEF Quiet
<1>15. PromiseInv'
       BY <1>1, <1>2, <1>3, <1>4, <1>6, <1>12, <1>13, <1>14, PromiseStep
<1>16. Promise!Open
  <2>1. Phase = "new" /\ Length = 0 /\ Total = 0 BY <1>4 DEF Phase, Length, Total
  <2>2. row' # Nil BY <1>9, SoloAssumption
  <2>3. Phase' = "active" /\ Length' \in 1..Rounds /\ Total' = 0
        BY <1>7, <1>10, <2>2, MappedRowNext
  <2>4. Recorded' = Recorded /\ xp' = xp BY <1>4, SameGuesses
  <2> QED BY <2>1, <2>3, <2>4 DEF Promise!Open
<1> QED BY <1>15, <1>16

LEMMA ReadStep ==
  ASSUME IndInv, SerialInv, PromiseInv, NEW p \in Slot, Quiet,
         GuessRead(p) \/ AbandonRead(p)
  PROVE  PromiseInv' /\ UNCHANGED Promise!pvars
<1>1. UNCHANGED <<session, row, guesses, xp, panos>> /\ session # Nil
      BY DEF GuessRead, AbandonRead
<1>2. TypeOK /\ Fits(session, session.round - 1, row, Accounted)
      BY <1>1 DEF IndInv
<1>3. session \in ActiveSession BY <1>1, <1>2 DEF TypeOK
<1>4. session.round = Played + 1 /\ session.total = Points /\ row.total = Points
      BY <1>1 DEF PromiseInv, AtTurn
<1>5. \A q \in Slot : q # p => job[q] = Idle BY DEF Quiet
<1>6. Played' = Played /\ Points' = Points BY <1>1, SameGuesses
<1>7. IsFiniteSet(guesses') /\ OneByOne(guesses') BY <1>1 DEF PromiseInv
<1>8. CASE GuessRead(p)
  <2>1. PICK sc \in Scores : Turn(p, Record(session, sc)) BY <1>8 DEF GuessRead
  <2>2. PICK j : j = Record(session, sc) OBVIOUS
  <2>3. j.pc = "record" /\ j.snap = session /\ j.score = sc BY <2>2 DEF Record
  <2>4. j # Idle BY <2>3 DEF Idle
  <2>5. InTurn(j, row', Played', Points') BY <1>1, <1>4, <1>6, <2>3 DEF InTurn
  <2>6. PromiseInv' BY <1>1, <1>2, <1>5, <1>7, <2>1, <2>2, <2>4, <2>5, PromiseStep
  <2> QED BY <1>1, <2>6, Unseen
<1>9. CASE AbandonRead(p)
  <2>1. Turn(p, Abandon) BY <1>9 DEF AbandonRead
  <2>2. Abandon.pc = "abandon" /\ Abandon # Idle BY DEF Abandon, Idle
  <2>3. Played \in Nat BY <1>2, LengthOfRecorded
  <2>4. session.round \in 1..row.rounds /\ row # Nil BY <1>2 DEF Fits
  <2>5. row.rounds \in Nat BY <1>2, <2>4 DEF TypeOK, Row
  <2>6. Played < row.rounds BY <1>4, <2>3, <2>4, <2>5
  <2>7. InTurn(Abandon, row', Played', Points') BY <1>1, <1>4, <1>6, <2>2, <2>6 DEF InTurn
  <2>8. PromiseInv' BY <1>1, <1>2, <1>5, <1>7, <2>1, <2>2, <2>7, PromiseStep
  <2> QED BY <1>1, <2>8, Unseen
<1> QED BY <1>8, <1>9

LEMMA UnseenWork ==
  ASSUME NothingFails, IndInv, SerialInv, PromiseInv, NEW p \in Slot,
         Save(p) \/ DropSession(p)
  PROVE  PromiseInv' /\ UNCHANGED Promise!pvars
<1>1. job[p].pc \in {"save", "drop"} BY DEF Save, DropSession
<1>2. job[p] # Idle BY <1>1 DEF Idle
<1>3. \A q \in Slot : q # p => job[q] = Idle BY <1>2, OthersIdle
<1>4. TypeOK /\ InTurn(job[p], row, Played, Points) BY DEF IndInv, PromiseInv
<1>5. UNCHANGED <<row, guesses, xp, panos>> /\ Turn(p, Idle)
      BY DEF Save, DropSession, Done
<1>6. Played' = Played /\ Points' = Points BY <1>5, SameGuesses
<1>7. IsFiniteSet(guesses') /\ OneByOne(guesses') BY <1>5 DEF PromiseInv
<1>8. InTurn(Idle, row', Played', Points') BY DEF InTurn, Idle
<1>9. AtTurn(session', row', Played', Points')
  <2>1. CASE Save(p)
    <3>1. session' = job[p].snap BY <2>1 DEF Save, StoreOk, StoreError, NothingFails
    <3>2. job[p].pc = "save" BY <2>1 DEF Save
    <3> QED BY <1>4, <1>5, <1>6, <3>1, <3>2 DEF InTurn, AtTurn
  <2>2. CASE DropSession(p)
    <3>1. session' = Nil BY <2>2 DEF DropSession, StoreOk, StoreError, NothingFails
    <3> QED BY <3>1 DEF AtTurn
  <2> QED BY <2>1, <2>2
<1>10. PromiseInv' BY <1>3, <1>4, <1>5, <1>7, <1>8, <1>9, PromiseStep
<1> QED BY <1>5, <1>10, Unseen

LEMMA PlayStep ==
  ASSUME NothingFails, IndInv, SerialInv, PromiseInv, NEW p \in Slot, GuessRecord(p)
  PROVE  PromiseInv' /\ Promise!Play
<1>1. job[p].pc = "record" BY DEF GuessRecord
<1>2. job[p] # Idle BY <1>1 DEF Idle
<1>3. \A q \in Slot : q # p => job[q] = Idle BY <1>2, OthersIdle
<1>4. PICK s, sc : s = job[p].snap /\ sc = job[p].score OBVIOUS
<1>5. TypeOK /\ row # Nil /\ row.status = "active" /\ Fits(s, s.round - 1, row, Accounted)
      BY <1>1, <1>2, <1>4 DEF IndInv, JobFits, SerialInv, InHand
<1>6. s \in ActiveSession /\ sc \in 0..MaxScore BY <1>1, <1>4, <1>5, JobFields
<1>7. s.round = Played + 1 /\ s.total = Points /\ row.total = Points /\ sc \in Scores
      BY <1>1, <1>4 DEF PromiseInv, InTurn
<1>8. s.round \in 1..Len(s.panos) /\ s.panos \in Seq(Pano) /\ s.round \in 1..row.rounds
      BY <1>5, <1>6 DEF Fits, IndInv, RowFits, ActiveSession
<1>9. s.panos[s.round] \in panos BY <1>8 DEF PromiseInv
<1>10. /\ guesses' = Inserted(s, sc)
       /\ Turn(p, Hold(AfterGuess(s), Counted(s, sc)))
       /\ UNCHANGED <<session, row, xp, panos>>
       BY <1>4, <1>9, Zenon DEF GuessRecord, NothingFails
<1>11. PICK g : g = [round |-> s.round, pano |-> s.panos[s.round], score |-> sc] OBVIOUS
<1>12. g \in Guess /\ g.round = s.round /\ g.score = sc
       BY <1>6, <1>8, <1>11 DEF Guess, ActiveSession
<1>13. Played \in Nat /\ Len(Recorded) = Played BY <1>5, LengthOfRecorded
<1>14. ~ \E h \in guesses : h.round = s.round
  <2>1. {h.round : h \in guesses} = 1..Played BY DEF PromiseInv, OneByOne, Played
  <2>2. s.round \notin 1..Played BY <1>7, <1>13
  <2> QED BY <2>1, <2>2
<1>15. guesses' = guesses \cup {g} BY <1>10, <1>11, <1>14 DEF Inserted
<1>16. IsFiniteSet(guesses) /\ OneByOne(guesses) /\ guesses \subseteq Guess
       BY <1>5 DEF PromiseInv, TypeOK
<1>17. g.round = Cardinality(guesses) + 1 BY <1>7, <1>12 DEF Played
<1>18. /\ IsFiniteSet(guesses') /\ Cardinality(guesses') = Cardinality(guesses) + 1
       /\ OneByOne(guesses')
       /\ ScoresOf(guesses) \in Seq(0..MaxScore)
       /\ ScoresOf(guesses') = Append(ScoresOf(guesses), sc)
       BY <1>12, <1>15, <1>16, <1>17, OneMoreGuess
<1>19. Recorded' = Append(Recorded, sc) BY <1>18, RecordedIs, RecordedNext
<1>20. Played' = Played + 1 BY <1>18 DEF Played
<1>21. Points' = Points + sc
  <2>1. Promise!Sum(Append(Recorded, sc)) = Promise!Sum(Recorded) + sc
        BY <1>6, <1>18, RecordedIs, SumAppend
  <2> QED BY <1>19, <2>1 DEF Points
<1>22. PICK c, j : c = Counted(s, sc) /\ j = Hold(AfterGuess(s), c) OBVIOUS
<1>23. c.round = s.round /\ c.total = s.total + sc BY <1>6, <1>22 DEF Counted, ActiveSession
<1>24. j.pc \in {"progress", "finish"} /\ j.snap = c BY <1>22 DEF Hold, AfterGuess
<1>25. InTurn(j, row', Played', Points')
       BY <1>7, <1>20, <1>21, <1>23, <1>24 DEF InTurn
<1>26. j # Idle BY <1>24 DEF Idle
<1>27. PromiseInv'
       BY <1>3, <1>5, <1>10, <1>18, <1>22, <1>25, <1>26, PromiseStep
<1>28. Promise!Play
  <2>1. Phase = "active" /\ Length = row.rounds /\ Total = Points
        BY <1>5, <1>7, MappedRow
  <2>2. row.rounds \in Nat BY <1>5 DEF TypeOK, Row
  <2>3. Len(Recorded) < Length BY <1>7, <1>8, <1>13, <2>1, <2>2
  <2>4. Phase' = Phase /\ Length' = Length /\ Total' = Total /\ xp' = xp
        BY <1>10 DEF Phase, Length, Total
  <2> QED BY <1>7, <1>19, <2>1, <2>3, <2>4 DEF Promise!Play, Points
<1> QED BY <1>27, <1>28

\* The row follows the guess: a round further, or finished after the last.
LEMMA CountStep ==
  ASSUME NothingFails, IndInv, SerialInv, PromiseInv, NEW p \in Slot,
         Progress(p) \/ Finish(p)
  PROVE  PromiseInv' /\ Promise!Count
<1>1. job[p].pc \in {"progress", "finish"} BY DEF Progress, Finish
<1>2. job[p] # Idle BY <1>1 DEF Idle
<1>3. \A q \in Slot : q # p => job[q] = Idle BY <1>2, OthersIdle
<1>4. PICK s : s = job[p].snap OBVIOUS
<1>5. TypeOK /\ row # Nil /\ row.status = "active"
      BY <1>1, <1>2 DEF IndInv, JobFits, SerialInv, InHand
<1>6. s \in ActiveSession BY <1>1, <1>4, <1>5, JobFields
<1>7. s.round = Played /\ s.total = Points BY <1>1, <1>4 DEF PromiseInv, InTurn
<1>8. row \in Row BY <1>5 DEF TypeOK
<1>9. Played \in Nat /\ Len(Recorded) = Played BY <1>5, LengthOfRecorded
<1>10. UNCHANGED <<guesses, xp, panos>> BY DEF Progress, Finish
<1>11. Played' = Played /\ Points' = Points /\ Recorded' = Recorded BY <1>10, SameGuesses
<1>12. IsFiniteSet(guesses') /\ OneByOne(guesses') BY <1>10 DEF PromiseInv
<1>13. Phase = "active" /\ Length = row.rounds BY <1>5, MappedRow
<1>14. CASE Progress(p)
  <2>1. PICK n : n = [s EXCEPT !.round = @ + 1] OBVIOUS
  <2>2. PICK j : j = Hold("save", n) OBVIOUS
  <2>3. row' = [row EXCEPT !.round = n.round, !.total = n.total] /\ Turn(p, j)
        BY <1>4, <1>14, <2>1, <2>2, Zenon DEF Progress, NothingFails
  <2>4. n.round = Played + 1 /\ n.total = Points /\ n.round \in Nat /\ n.total \in Nat
        BY <1>6, <1>7, <2>1 DEF ActiveSession
  <2>5. /\ row'.total = Points /\ row'.status = "active" /\ row'.rounds = row.rounds
        /\ row' \in Row
        BY <1>5, <1>8, <2>3, <2>4 DEF Row
  <2>6. j.pc = "save" /\ j.snap = n BY <2>2 DEF Hold
  <2>7. j # Idle BY <2>6 DEF Idle
  <2>8. InTurn(j, row', Played', Points') BY <1>11, <2>4, <2>5, <2>6 DEF InTurn
  <2>9. PromiseInv' BY <1>3, <1>5, <1>10, <1>12, <2>3, <2>7, <2>8, PromiseStep
  <2>10. row' # Nil BY <2>5, SoloAssumption
  <2>11. Phase' = "active" /\ Length' = Length /\ Total' = Points
         BY <1>13, <2>5, <2>10, MappedRowNext
  <2>12. s.round < row.rounds BY <1>4, <1>14 DEF Progress, IndInv, JobFits
  <2>13. Len(Recorded) # Length BY <1>7, <1>8, <1>9, <1>13, <2>12 DEF Row
  <2>14. Promise!Count BY <1>10, <1>11, <1>13, <2>11, <2>13 DEF Promise!Count, Points
  <2> QED BY <2>9, <2>14
<1>15. CASE Finish(p)
  <2>1. PICK j : j = IF XpGained(s.total) > 0 THEN Award(XpGained(s.total)) ELSE Drop OBVIOUS
  <2>2. row' = [row EXCEPT !.status = "finished", !.total = s.total] /\ Turn(p, j)
        BY <1>4, <1>15, <2>1, Zenon DEF Finish, NothingFails
  <2>3. /\ row'.total = Points /\ row'.status = "finished" /\ row'.rounds = row.rounds
        /\ row' \in Row
        BY <1>6, <1>7, <1>8, <2>2 DEF Row, ActiveSession
  <2>4. j.pc \in {"award", "drop"} BY <2>1 DEF Award, Drop
  <2>5. j # Idle BY <2>4 DEF Idle
  <2>6. InTurn(j, row', Played', Points') BY <2>4 DEF InTurn
  <2>7. PromiseInv' BY <1>3, <1>5, <1>10, <1>12, <2>2, <2>5, <2>6, PromiseStep
  <2>8. row' # Nil BY <2>3, SoloAssumption
  <2>9. Phase' = "finished" /\ Length' = Length /\ Total' = Points
        BY <1>13, <2>3, <2>8, MappedRowNext
  <2>10. s.round = row.rounds BY <1>4, <1>15 DEF Finish, IndInv, JobFits
  <2>11. Len(Recorded) = Length BY <1>7, <1>9, <1>13, <2>10
  <2>12. Promise!Count BY <1>10, <1>11, <1>13, <2>9, <2>11 DEF Promise!Count, Points
  <2> QED BY <2>7, <2>12
<1> QED BY <1>14, <1>15

LEMMA EarnStep ==
  ASSUME NothingFails, IndInv, SerialInv, PromiseInv, NEW p \in Slot, AwardXp(p)
  PROVE  PromiseInv' /\ Promise!Earn
<1>1. job[p].pc = "award" BY DEF AwardXp
<1>2. job[p] # Idle BY <1>1 DEF Idle
<1>3. \A q \in Slot : q # p => job[q] = Idle BY <1>2, OthersIdle
<1>4. /\ TypeOK /\ row # Nil /\ row.status = "finished" /\ xp = 0
      /\ job[p].gain = XpGained(row.total)
      BY <1>1, <1>2 DEF IndInv, JobFits, SerialInv, InHand
<1>5. xp' = xp + job[p].gain /\ UNCHANGED <<row, guesses, panos>> /\ Turn(p, Drop)
      BY DEF AwardXp, NothingFails
<1>6. row.total \in Nat BY <1>4 DEF TypeOK, Row
<1>7. xp' = row.total \div PointsPerXp BY <1>4, <1>5, <1>6 DEF XpGained, PointsPerXp
<1>8. IsFiniteSet(guesses') /\ OneByOne(guesses') BY <1>5 DEF PromiseInv
<1>9. Drop.pc = "drop" /\ Drop # Idle BY DEF Drop, Idle
<1>10. InTurn(Drop, row', Played', Points') BY <1>9 DEF InTurn
<1>11. PromiseInv' BY <1>3, <1>4, <1>5, <1>8, <1>9, <1>10, PromiseStep
<1>12. Phase = "finished" /\ Total = row.total BY <1>4, MappedRow
<1>13. Phase' = Phase /\ Length' = Length /\ Total' = Total /\ Recorded' = Recorded
       BY <1>5, SameGuesses DEF Phase, Length, Total
<1>14. Promise!Earn BY <1>4, <1>7, <1>12, <1>13 DEF Promise!Earn
<1> QED BY <1>11, <1>14

LEMMA AbandonStep ==
  ASSUME NothingFails, IndInv, SerialInv, PromiseInv, NEW p \in Slot, AbandonRow(p)
  PROVE  PromiseInv' /\ Promise!Abandon
<1>1. job[p].pc = "abandon" BY DEF AbandonRow
<1>2. job[p] # Idle BY <1>1 DEF Idle
<1>3. \A q \in Slot : q # p => job[q] = Idle BY <1>2, OthersIdle
<1>4. TypeOK /\ row # Nil /\ row.status = "active"
      BY <1>1, <1>2 DEF IndInv, JobFits, SerialInv, InHand
<1>5. Played < row.rounds /\ row.total = Points BY <1>1 DEF PromiseInv, InTurn
<1>6. row' = [row EXCEPT !.status = "abandoned"] /\ UNCHANGED <<guesses, xp, panos>>
      /\ Turn(p, Drop)
      BY DEF AbandonRow, NothingFails
<1>7. row \in Row BY <1>4 DEF TypeOK
<1>8. /\ row'.status = "abandoned" /\ row'.rounds = row.rounds /\ row'.total = row.total
      /\ row' \in Row
      BY <1>6, <1>7 DEF Row
<1>9. IsFiniteSet(guesses') /\ OneByOne(guesses') BY <1>6 DEF PromiseInv
<1>10. Drop.pc = "drop" /\ Drop # Idle BY DEF Drop, Idle
<1>11. InTurn(Drop, row', Played', Points') BY <1>10 DEF InTurn
<1>12. PromiseInv' BY <1>3, <1>4, <1>6, <1>9, <1>10, <1>11, PromiseStep
<1>13. Phase = "active" /\ Length = row.rounds /\ Total = Points BY <1>4, <1>5, MappedRow
<1>14. row' # Nil BY <1>8, SoloAssumption
<1>15. Phase' = "abandoned" /\ Length' = Length /\ Total' = Total
       BY <1>4, <1>8, <1>14, MappedRow, MappedRowNext
<1>16. Recorded' = Recorded /\ Len(Recorded) = Played
       BY <1>4, <1>6, SameGuesses, LengthOfRecorded
<1>17. Promise!Abandon
       BY <1>5, <1>6, <1>13, <1>15, <1>16 DEF Promise!Abandon, Points
<1> QED BY <1>12, <1>17

LEMMA PromiseKept ==
  ASSUME NothingFails
  PROVE  IndInv /\ SerialInv /\ PromiseInv /\ [SerialNext]_vars =>
           PromiseInv' /\ [Promise!Next]_(Promise!pvars)
<1> SUFFICES ASSUME IndInv, SerialInv, PromiseInv, [SerialNext]_vars
             PROVE  PromiseInv' /\ [Promise!Next]_(Promise!pvars)
    OBVIOUS
<1>1. CASE UNCHANGED vars
  <2>1. UNCHANGED <<session, row, guesses, xp, panos, job>> BY <1>1 DEF vars
  <2>2. Played' = Played /\ Points' = Points BY <2>1, SameGuesses
  <2>3. PromiseInv' BY <2>1, <2>2 DEF PromiseInv, Quiet
  <2> QED BY <2>1, <2>3, Unseen
<1>2. ASSUME NEW p \in Slot, Quiet, Ask(p)
      PROVE  PromiseInv' /\ [Promise!Next]_(Promise!pvars)
      BY <1>2, OpenStep, ReadStep DEF Ask, Promise!Next
<1>3. ASSUME NEW p \in Slot, Work(p)
      PROVE  PromiseInv' /\ [Promise!Next]_(Promise!pvars)
      BY <1>3, UnseenWork, PlayStep, CountStep, EarnStep, AbandonStep DEF Work, Promise!Next
<1> QED BY <1>1, <1>2, <1>3, Zenon DEF SerialNext

LEMMA PromiseStarts == Init => PromiseInv /\ Promise!Init
<1> SUFFICES ASSUME Init PROVE PromiseInv /\ Promise!Init OBVIOUS
<1>1. /\ Played = 0 /\ Points = 0 /\ IsFiniteSet(guesses) /\ OneByOne(guesses)
      /\ Recorded = <<>>
      BY NoGuesses DEF Init
<1>2. \A p \in Slot : InTurn(job[p], row, Played, Points) BY DEF Init, InTurn, Idle
<1>3. PromiseInv BY <1>1, <1>2 DEF Init, PromiseInv, AtTurn
<1>4. Promise!Init BY <1>1 DEF Init, Promise!Init, Phase, Length, Total
<1> QED BY <1>3, <1>4

-----------------------------------------------------------------------------
(* Theorems.                                                               *)

\* The inductive invariant holds in every reachable state.
THEOREM SoloInductive == Spec => []IndInv
<1>1. Init => IndInv BY InitInvariant
<1>2. IndInv /\ [Next]_vars => IndInv' BY NextKeepsInvariant
<1> QED BY <1>1, <1>2, PTL DEF Spec

\* Every variable of a solo session keeps its type.
THEOREM SoloTypes == Spec => []TypeOK
<1>1. IndInv => TypeOK BY DEF IndInv
<1> QED BY <1>1, SoloInductive, PTL

\* However Guess, Abandon and failures overlap, a session never indexes past
\* its panoramas and its total is one its rounds can give.
THEOREM SessionsAreCoherent == Spec => []SessionCoherent
<1> QED BY CoherentFromInd, SoloInductive, PTL

\* The total of the row stays within 5000 points a round.
THEOREM TotalsAreWithinReach == Spec => []TotalWithinReach
<1> QED BY ReachFromInd, SoloInductive, PTL

\* A round is missing from the breakdown only when its INSERT failed or its
\* panorama was deleted, whichever requests overlap, crash or lose their SET.
THEOREM NoRoundIsMissing == Spec => []RoundsRecorded
<1> QED BY RecordedFromInd, SoloInductive, PTL

LEMMA SerialInductive ==
  ASSUME NothingFails PROVE SerialSpec => [](IndInv /\ SerialInv)
<1>1. Init => IndInv /\ SerialInv BY InitInvariant, InitSerial
<1>2. IndInv /\ SerialInv /\ [SerialNext]_vars => (IndInv /\ SerialInv)'
      BY SerialKeepsInvariant, SerialNextKeepsSerial
<1> QED BY <1>1, <1>2, PTL DEF SerialSpec

\* With requests one at a time, none of whose statements or SETs fails, a
\* finished session has earned a thousandth of the total of its row, once:
\* no more by a repeated request and no less.
THEOREM XpIsOfTheTotal ==
  ASSUME NothingFails PROVE SerialSpec => []XpFollowsTotal
<1>1. SerialInv => XpFollowsTotal BY DEF SerialInv, AtRest, XpFollowsTotal
<1> QED BY <1>1, SerialInductive, PTL

\* Under the same hypothesis a session that is finished or abandoned is out of
\* Valkey when its request returns, so no later request finds it.
THEOREM NothingStaysBehind ==
  ASSUME NothingFails PROVE SerialSpec => []NothingLeftBehind
<1>1. SerialInv => NothingLeftBehind BY DEF SerialInv, AtRest, NothingLeftBehind
<1> QED BY <1>1, SerialInductive, PTL

\* Under the same hypothesis a session plays by what it promises: it opens once,
\* a round is guessed once and only after the one before it was counted, its
\* total is the sum of its scores, it finishes after its last round and never
\* before, and it earns its XP once.  Every step is one of SoloPromise or none.
THEOREM SessionsKeepTheirPromise ==
  ASSUME NothingFails PROVE SerialSpec => Promise!Safety
<1>1. Init => PromiseInv /\ Promise!Init BY PromiseStarts
<1>2. IndInv /\ SerialInv /\ PromiseInv /\ [SerialNext]_vars =>
        PromiseInv' /\ [Promise!Next]_(Promise!pvars)
      BY PromiseKept
<1> QED BY <1>1, <1>2, SerialInductive, PTL DEF SerialSpec, Promise!Safety

=============================================================================
