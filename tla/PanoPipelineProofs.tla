------------------------- MODULE PanoPipelineProofs -------------------------
(***************************************************************************)
(* Proofs about PanoPipeline, for any number of workers, administrators,   *)
(* tiles and retries, and with every failure allowed.                      *)
(***************************************************************************)
EXTENDS PanoPipeline, TLAPS

\* Somebody will set the status once more.
Driven ==
  \/ \E n \in 0..MaxRetries : queue[n] > 0
  \/ \E a \in Admin : job[a].pc = "send"
  \/ \E w \in Worker : job[w].pc \in Driving

StatusIsDriven ==
  /\ row # Nil /\ asked > 0 /\ "abort" \notin crossed
  /\ row.tile \in {"pending", "tiling"}
  => Driven

\* Request a will still remove the raw image; all objects that there are.
RemovesRaw(a) == job[a].pc \in {"list", "remove"}
RemovesAll(a) == job[a].pc = "list" \/ (job[a].pc = "remove" /\ files \subseteq job[a].left)

\* A panorama that is gone has its files removed by a request, and no task is about to
\* upload more.
RemovalUnderWay ==
  Gone /\ "removal" \notin crossed =>
    /\ \A w \in Worker : job[w].pc \notin Holding
    /\ raw => \E a \in Admin : RemovesRaw(a)
    /\ files # {} => \E a \in Admin : RemovesAll(a)

\* Requests remove objects after the panorama is gone.
RemoversAfterGone == ~Gone => \A a \in Admin : ~RemovesRaw(a)

\* Task w has listed what was there and has not set the status yet.
Uploading(w) == job[w].pc \in {"clean", "upload", "tiled"}

\* What is still missing is uploaded by w.
Leads(w) ==
  \/ job[w].pc = "clean"
  \/ job[w].pc = "upload" /\ Tile \ job[w].left \subseteq files
  \/ job[w].pc = "tiled" /\ Shown \subseteq files

\* Of the tasks that upload, one leads: the last one that cleaned up.
OneLeads ==
  ~Gone /\ {"upload", "abort"} \cap crossed = {} /\ (\E w \in Worker : Uploading(w))
    => \E w \in Worker : Leads(w)

\* A panorama that is 'tiled' is complete or will have its status set once more.
CompleteOrDriven ==
  row = [tile |-> "tiled", moderation |-> "clean"] /\ {"upload", "abort"} \cap crossed = {}
    => Shown \subseteq files \/ Driven

\* The inductive invariant.
IndInv ==
  /\ TypeOK /\ StatusIsDriven /\ RemovalUnderWay
  /\ RemoversAfterGone /\ OneLeads /\ CompleteOrDriven

-----------------------------------------------------------------------------
(* What follows from the invariant.                                        *)

LEMMA NoStuckFromInd == IndInv => NoStuckStatus
<1> SUFFICES ASSUME IndInv, Quiet, asked > 0, row # Nil, "abort" \notin crossed
             PROVE  row.tile \in {"tiled", "failed"}
    BY DEF NoStuckStatus
<1>1. row.tile \in {"pending", "tiling", "tiled", "failed"} BY DEF IndInv, TypeOK, Row
<1>2. ~Driven BY DEF Driven, Quiet, Idle, Driving, Holding, Proc
<1> QED BY <1>1, <1>2 DEF IndInv, StatusIsDriven

LEMMA CompleteFromInd == IndInv => TiledIsComplete
<1> SUFFICES ASSUME IndInv, Quiet PROVE TiledIsComplete BY DEF TiledIsComplete
<1>1. ~Driven BY DEF Driven, Quiet, Idle, Driving, Holding, Proc
<1> QED BY <1>1 DEF IndInv, CompleteOrDriven, TiledIsComplete

LEMMA RemovedFromInd == IndInv => RemovalIsComplete
<1> SUFFICES ASSUME IndInv, Quiet, Gone, "removal" \notin crossed
             PROVE  files = {} /\ ~raw
    BY DEF RemovalIsComplete
<1>1. \A a \in Admin : ~RemovesRaw(a) /\ ~RemovesAll(a)
      BY DEF Quiet, Idle, Proc, RemovesRaw, RemovesAll
<1> QED BY <1>1 DEF IndInv, RemovalUnderWay

-----------------------------------------------------------------------------
(* Lemmas about the steps.                                                 *)

\* A step of p changes the job of p alone.
LEMMA TurnEffect ==
  ASSUME TypeOK, NEW p \in Proc, NEW j, Turn(p, j)
  PROVE  job'[p] = j /\ \A q \in Proc \ {p} : job'[q] = job[q]
BY DEF TypeOK, Turn

\* Jobs of the right kind keep job well typed.
LEMMA TaskTyped ==
  ASSUME TypeOK, NEW w \in Worker, NEW j \in TaskJob, Turn(w, j)
  PROVE  /\ job' \in [Proc -> TaskJob \cup RequestJob]
         /\ \A v \in Worker : job'[v] \in TaskJob
         /\ \A a \in Admin : job'[a] \in RequestJob
<1>1. job' \in [Proc -> TaskJob \cup RequestJob] BY DEF TypeOK, Turn
<1>2. job'[w] = j /\ \A q \in Proc \ {w} : job'[q] = job[q] BY TurnEffect DEF Proc
<1> QED BY <1>1, <1>2, PanoAssumption DEF TypeOK, Proc

LEMMA RequestTyped ==
  ASSUME TypeOK, NEW a \in Admin, NEW j \in RequestJob, Turn(a, j)
  PROVE  /\ job' \in [Proc -> TaskJob \cup RequestJob]
         /\ \A v \in Worker : job'[v] \in TaskJob
         /\ \A b \in Admin : job'[b] \in RequestJob
<1>1. job' \in [Proc -> TaskJob \cup RequestJob] BY DEF TypeOK, Turn
<1>2. job'[a] = j /\ \A q \in Proc \ {a} : job'[q] = job[q] BY TurnEffect DEF Proc
<1> QED BY <1>1, <1>2, PanoAssumption DEF TypeOK, Proc

\* The fields of a task by its program counter.
LEMMA TaskFields ==
  ASSUME TypeOK, NEW w \in Worker
  PROVE  /\ job[w].pc # "idle" => job[w].retries \in 0..MaxRetries
         /\ job[w].pc \in {"clean", "upload"} => job[w].left \subseteq Object
         /\ job[w].pc \notin {"send", "list", "remove"}
         /\ job[w] # Idle => job[w].pc # "idle"
BY DEF TypeOK, TaskJob, Idle

LEMMA RequestFields ==
  ASSUME TypeOK, NEW a \in Admin
  PROVE  /\ job[a].pc \in {"idle", "send", "list", "remove"}
         /\ job[a].pc = "remove" => job[a].left \subseteq Object
BY DEF TypeOK, RequestJob

LEMMA JobKinds ==
  /\ Idle \in TaskJob /\ Idle \in RequestJob
  /\ \A n \in 0..MaxRetries :
       /\ \A pc \in {"fetch", "preview", "generate", "tiled", "failed", "retry", "ack"} :
            Task(pc, n) \in TaskJob
       /\ \A pc \in {"clean", "upload"}, left \in SUBSET Object :
            Sweep(pc, n, left) \in TaskJob
  /\ Request("send") \in RequestJob /\ Request("list") \in RequestJob
  /\ \A left \in SUBSET Object : Remove(left) \in RequestJob
BY DEF Idle, Task, Sweep, Request, Remove, TaskJob, RequestJob

\* A message more, or one less, leaves the counts natural.
LEMMA SendTyped ==
  ASSUME TypeOK, NEW n \in 0..MaxRetries, Send(n)
  PROVE  queue' \in [0..MaxRetries -> Nat] /\ queue'[n] > 0
BY DEF TypeOK, Send

LEMMA NoteTyped ==
  ASSUME TypeOK, NEW happens, NEW what \in {"removal", "upload", "abort"},
         Note(happens, what)
  PROVE  crossed' \subseteq {"removal", "upload", "abort"} /\ crossed \subseteq crossed'
BY DEF TypeOK, Note

LEMMA NoteHolds ==
  ASSUME NEW happens, NEW what, Note(happens, what), what \notin crossed'
  PROVE  ~happens
BY DEF Note

\* A status that is written keeps the row typed, and gone if it is gone.
LEMMA SetTileEffect ==
  ASSUME TypeOK, NEW status \in {"pending", "tiling", "tiled", "failed"}, SetTile(status)
  PROVE  /\ row' \in Row \cup {Nil}
         /\ row' # Nil => row'.tile = status
         /\ Gone' <=> Gone
<1>1. CASE row = Nil BY <1>1 DEF SetTile, Gone
<1>2. CASE row # Nil
  <2>1. row \in Row BY <1>2 DEF TypeOK
  <2>2. row' = [row EXCEPT !.tile = status] BY <1>2 DEF SetTile
  <2>3. row' \in Row BY <2>1, <2>2 DEF Row
  <2>4. row'.tile = status /\ row'.moderation = row.moderation BY <2>1, <2>2 DEF Row
  <2> QED BY <1>2, <2>3, <2>4, PanoAssumption DEF Gone
<1> QED BY <1>1, <1>2

\* An approval leaves the row as it is, since what is not rejected is clean.
LEMMA ApproveKeepsRow ==
  ASSUME TypeOK, NEW a \in Admin, Approve(a)
  PROVE  row' = row /\ ~Gone'
<1>1. row \in Row /\ row.moderation = "clean" BY DEF Approve, TypeOK, Row
<1>2. row' = row BY <1>1 DEF Approve, Row
<1> QED BY <1>1, <1>2 DEF Approve, Gone

-----------------------------------------------------------------------------
(* Types.                                                                  *)

\* One step of an administrator.
LEMMA AdminKeepsType ==
  ASSUME TypeOK, NEW a \in Admin, Ask(a) \/ Serve(a)
  PROVE  TypeOK'
<1> USE JobKinds, RequestTyped, RequestFields
<1>0. 0 \in 0..MaxRetries BY PanoAssumption
<1>1. CASE Confirm(a) BY <1>0, <1>1, SendTyped DEF Confirm, TypeOK
<1>2. CASE RetileRow(a) BY <1>2, SetTileEffect DEF RetileRow, TypeOK
<1>3. CASE RejectRow(a)
  <2>1. row' \in Row BY <1>3 DEF RejectRow, TypeOK, Row
  <2>2. crossed' \subseteq {"removal", "upload", "abort"}
        BY <1>3, NoteTyped DEF RejectRow, Overtaken
  <2> QED BY <1>3, <2>1, <2>2 DEF RejectRow, TypeOK
<1>4. CASE DeleteRow(a)
  <2>1. crossed' \subseteq {"removal", "upload", "abort"}
        BY <1>4, NoteTyped DEF DeleteRow, Overtaken
  <2> QED BY <1>4, <2>1 DEF DeleteRow, TypeOK
<1>5. CASE RetileSend(a)
  <2>1. /\ queue' \in [0..MaxRetries -> Nat]
        /\ crossed' \subseteq {"removal", "upload", "abort"}
        BY <1>0, <1>5, SendTyped, NoteTyped DEF RetileSend, TypeOK
  <2> QED BY <1>5, <2>1 DEF RetileSend, Done, TypeOK
<1>6. CASE ListObjects(a) BY <1>6 DEF ListObjects, TypeOK
<1>7. CASE RemoveObject(a) BY <1>7 DEF RemoveObject, TypeOK
<1>8. CASE RemoveRaw(a)
  <2>1. raw' \in BOOLEAN /\ crossed' \subseteq {"removal", "upload", "abort"}
        BY <1>8, NoteTyped DEF RemoveRaw, TypeOK
  <2> QED BY <1>8, <2>1 DEF RemoveRaw, Done, TypeOK
<1>9. CASE GiveUp(a)
  <2>1. crossed' \subseteq {"removal", "upload", "abort"} BY <1>9, NoteTyped DEF GiveUp
  <2> QED BY <1>9, <2>1 DEF GiveUp, TypeOK
<1>10. CASE Approve(a)
  <2>1. row' \in Row BY <1>10 DEF Approve, TypeOK, Row
  <2> QED BY <1>10, <2>1 DEF Approve, TypeOK
<1> QED BY <1>1, <1>2, <1>3, <1>4, <1>5, <1>6, <1>7, <1>8, <1>9, <1>10 DEF Ask, Serve

\* One step of a worker.
LEMMA WorkerKeepsType ==
  ASSUME TypeOK, NEW w \in Worker, Work(w) \/ Fail(w) \/ Abort(w) \/ LoseWorker(w)
  PROVE  TypeOK'
<1> USE JobKinds, TaskTyped, TaskFields
<1>1. CASE Begin(w)
  <2>1. PICK n \in 0..MaxRetries : /\ queue[n] > 0
                                   /\ queue' = [queue EXCEPT ![n] = @ - 1]
                                   /\ Turn(w, Task("fetch", n))
        BY <1>1 DEF Begin
  <2>2. queue' \in [0..MaxRetries -> Nat] BY <2>1 DEF TypeOK
  <2> QED BY <1>1, <2>1, <2>2, SetTileEffect DEF Begin, TypeOK
<1>2. CASE Fetch(w)
  <2>1. crossed' \subseteq {"removal", "upload", "abort"} BY <1>2, NoteTyped DEF Fetch
  <2> QED BY <1>2, <2>1 DEF Fetch, TypeOK
<1>3. CASE UploadPreview(w) BY <1>3 DEF UploadPreview, TypeOK, Object
<1>4. CASE ListOld(w) BY <1>4 DEF ListOld, TypeOK
<1>5. CASE RemoveOld(w) BY <1>5 DEF RemoveOld, TypeOK
<1>6. CASE Cleaned(w)
  <2>1. Tile \in SUBSET Object BY DEF Object, Shown
  <2> QED BY <1>6, <2>1 DEF Cleaned, TypeOK
<1>7. CASE UploadTile(w)
  <2>1. files' \subseteq Object BY <1>7 DEF UploadTile, TypeOK
  <2> QED BY <1>7, <2>1 DEF UploadTile, TypeOK
<1>8. CASE UploadConfig(w) BY <1>8 DEF UploadConfig, TypeOK, Object, Shown
<1>9. CASE Tiled(w) BY <1>9, SetTileEffect DEF Tiled, TypeOK
<1>10. CASE Failed(w) BY <1>10, SetTileEffect DEF Failed, TypeOK
<1>11. CASE Retry(w)
  <2>1. job[w].retries \in 0..MaxRetries BY <1>11 DEF Retry
  <2>2. queue' \in [0..MaxRetries -> Nat]
    <3>1. CASE job[w].retries < MaxRetries
      <4>1. job[w].retries + 1 \in 0..MaxRetries BY <2>1, <3>1, PanoAssumption
      <4> QED BY <1>11, <3>1, <4>1, SendTyped DEF Retry
    <3>2. CASE ~(job[w].retries < MaxRetries) BY <1>11, <3>2 DEF Retry, TypeOK
    <3> QED BY <3>1, <3>2
  <2> QED BY <1>11, <2>1, <2>2 DEF Retry, TypeOK
<1>12. CASE Acknowledge(w) BY <1>12 DEF Acknowledge, Done, TypeOK
<1>13. CASE Fail(w)
  <2>1. crossed' \subseteq {"removal", "upload", "abort"} BY <1>13, NoteTyped DEF Fail, Torn
  <2> QED BY <1>13, <2>1 DEF Fail, TypeOK
<1>14. CASE LoseWorker(w)
  <2>1. crossed' \subseteq {"removal", "upload", "abort"}
        BY <1>14, NoteTyped DEF LoseWorker, Torn
  <2>2. job[w].retries \in 0..MaxRetries BY <1>14 DEF LoseWorker
  <2>3. queue' \in [0..MaxRetries -> Nat] BY <1>14, <2>2, SendTyped DEF LoseWorker
  <2> QED BY <1>14, <2>1, <2>3 DEF LoseWorker, Done, TypeOK
<1>15. CASE Abort(w)
  <2>1. crossed' \subseteq {"removal", "upload", "abort"} BY <1>15, NoteTyped DEF Abort
  <2> QED BY <1>15, <2>1 DEF Abort, Done, TypeOK
<1> QED BY <1>1, <1>2, <1>3, <1>4, <1>5, <1>6, <1>7, <1>8, <1>9, <1>10, <1>11, <1>12,
           <1>13, <1>14, <1>15 DEF Work

LEMMA NextKeepsType == TypeOK /\ [Next]_vars => TypeOK'
<1> SUFFICES ASSUME TypeOK, [Next]_vars PROVE TypeOK' OBVIOUS
<1>1. CASE PutRaw
  <2>1. crossed' \subseteq {"removal", "upload", "abort"} BY <1>1, NoteTyped DEF PutRaw
  <2> QED BY <1>1, <2>1 DEF PutRaw, TypeOK
<1>2. CASE \E a \in Admin : Ask(a) \/ Serve(a) BY <1>2, AdminKeepsType
<1>3. CASE \E w \in Worker : Work(w) \/ Fail(w) \/ Abort(w) \/ LoseWorker(w)
      BY <1>3, WorkerKeepsType
<1>4. CASE UNCHANGED vars BY <1>4 DEF vars, TypeOK
<1> QED BY <1>1, <1>2, <1>3, <1>4 DEF Next

LEMMA InitTyped == Init => TypeOK
<1> SUFFICES ASSUME Init PROVE TypeOK OBVIOUS
<1>1. row \in Row BY DEF Init, Row
<1>2. queue \in [0..MaxRetries -> Nat] BY DEF Init
<1>3. /\ job \in [Proc -> TaskJob \cup RequestJob]
      /\ \A w \in Worker : job[w] \in TaskJob
      /\ \A a \in Admin : job[a] \in RequestJob
      BY JobKinds DEF Init, Proc
<1> QED BY <1>1, <1>2, <1>3 DEF Init, TypeOK

-----------------------------------------------------------------------------
(* The status.                                                             *)

\* A step of p that takes no message drives the status on if p does.
LEMMA OthersDrive ==
  ASSUME TypeOK, NEW p \in Proc, NEW j, Turn(p, j),
         \A n \in 0..MaxRetries : queue[n] > 0 => queue'[n] > 0,
         p \in Worker /\ job[p].pc \in Driving => j.pc \in Driving,
         p \in Admin /\ job[p].pc = "send" => j.pc = "send",
         Driven
  PROVE  Driven'
<1>1. job'[p] = j /\ \A q \in Proc \ {p} : job'[q] = job[q] BY TurnEffect
<1>2. CASE \E n \in 0..MaxRetries : queue[n] > 0 BY <1>2 DEF Driven
<1>3. CASE \E a \in Admin : job[a].pc = "send" BY <1>1, <1>3 DEF Driven, Proc
<1>4. CASE \E w \in Worker : job[w].pc \in Driving BY <1>1, <1>4 DEF Driven, Proc
<1> QED BY <1>2, <1>3, <1>4 DEF Driven

\* The same row, the same tasks asked for.
LEMMA DrivenOn ==
  ASSUME StatusIsDriven, crossed \subseteq crossed', asked' = asked,
         "abort" \notin crossed' /\ Driven => Driven',
         row' # Nil => row # Nil /\ row'.tile = row.tile
  PROVE  StatusIsDriven'
BY DEF StatusIsDriven

LEMMA SendGrows ==
  ASSUME TypeOK, NEW m \in 0..MaxRetries, Send(m)
  PROVE  \A n \in 0..MaxRetries : queue[n] > 0 => queue'[n] > 0
BY DEF TypeOK, Send

LEMMA AdminDrives ==
  ASSUME TypeOK, NEW a \in Admin, Ask(a) \/ Serve(a), Driven, "abort" \notin crossed'
  PROVE  Driven'
<1>0. 0 \in 0..MaxRetries /\ a \in Proc /\ a \notin Worker BY PanoAssumption DEF Proc
<1>1. CASE Confirm(a)
  <2>1. queue'[0] > 0 BY <1>0, <1>1, SendTyped DEF Confirm
  <2> QED BY <1>0, <2>1 DEF Driven
<1>2. CASE RetileRow(a) BY <1>0, <1>2, OthersDrive DEF RetileRow, Idle, Request
<1>3. CASE Approve(a) BY <1>3 DEF Approve, Driven
<1>4. CASE RejectRow(a) BY <1>0, <1>4, OthersDrive DEF RejectRow, Idle
<1>5. CASE DeleteRow(a) BY <1>0, <1>5, OthersDrive DEF DeleteRow, Idle
<1>6. CASE RetileSend(a)
  <2>1. Send(0) BY <1>6, NoteHolds DEF RetileSend
  <2>2. queue'[0] > 0 BY <1>0, <2>1, SendTyped
  <2> QED BY <1>0, <2>2 DEF Driven
<1>7. CASE ListObjects(a) BY <1>0, <1>7, OthersDrive DEF ListObjects
<1>8. CASE RemoveObject(a) BY <1>0, <1>8, OthersDrive DEF RemoveObject
<1>9. CASE RemoveRaw(a) BY <1>0, <1>9, OthersDrive DEF RemoveRaw, Done
<1>10. CASE GiveUp(a) BY <1>0, <1>10, OthersDrive DEF GiveUp
<1> QED BY <1>1, <1>2, <1>3, <1>4, <1>5, <1>6, <1>7, <1>8, <1>9, <1>10 DEF Ask, Serve

LEMMA AdminKeepsDriven ==
  ASSUME TypeOK, StatusIsDriven, NEW a \in Admin, Ask(a) \/ Serve(a)
  PROVE  StatusIsDriven'
<1>0. 0 \in 0..MaxRetries /\ a \in Proc /\ a \notin Worker BY PanoAssumption DEF Proc
<1>1. "abort" \notin crossed' /\ Driven => Driven' BY AdminDrives
<1>2. CASE Confirm(a)
  <2>1. queue'[0] > 0 BY <1>0, <1>2, SendTyped DEF Confirm
  <2> QED BY <1>0, <2>1 DEF StatusIsDriven, Driven
<1>3. CASE RetileRow(a)
  <2>1. job'[a].pc = "send" BY <1>0, <1>3, TurnEffect DEF RetileRow, Request
  <2> QED BY <2>1 DEF StatusIsDriven, Driven
<1>4. CASE Approve(a)
      BY <1>1, <1>4, ApproveKeepsRow, DrivenOn DEF Approve
<1>5. CASE RejectRow(a)
  <2>1. row # Nil /\ row'.tile = row.tile BY <1>5 DEF RejectRow, TypeOK, Row
  <2>2. crossed \subseteq crossed' BY <1>5, NoteTyped DEF RejectRow, Overtaken
  <2> QED BY <1>1, <1>5, <2>1, <2>2, DrivenOn DEF RejectRow
<1>6. CASE DeleteRow(a) BY <1>6 DEF DeleteRow, StatusIsDriven
<1>7. CASE Serve(a)
  <2>1. UNCHANGED <<row, asked>>
        BY <1>7 DEF Serve, RetileSend, ListObjects, RemoveObject, RemoveRaw, GiveUp
  <2>2. crossed \subseteq crossed'
        BY <1>7, NoteTyped
        DEF Serve, RetileSend, ListObjects, RemoveObject, RemoveRaw, GiveUp
  <2> QED BY <1>1, <2>1, <2>2, DrivenOn
<1> QED BY <1>2, <1>3, <1>4, <1>5, <1>6, <1>7 DEF Ask

\* A task drives on from its stage until it sets 'tiled' or 'failed'; one that is
\* lost leaves its message behind.
LEMMA TaskDrives ==
  ASSUME TypeOK, NEW w \in Worker,
         \/ Begin(w) \/ Fetch(w) \/ UploadPreview(w) \/ ListOld(w) \/ RemoveOld(w)
         \/ Cleaned(w) \/ UploadTile(w) \/ UploadConfig(w) \/ Fail(w) \/ LoseWorker(w)
  PROVE  Driven'
<1> USE DEF Driving, Holding
<1>1. ASSUME NEW j, Turn(w, j), j.pc \in Driving PROVE Driven'
      BY <1>1, TurnEffect DEF Driven, Proc
<1>2. CASE Begin(w) BY <1>1, <1>2 DEF Begin, Task
<1>3. CASE Fetch(w) BY <1>1, <1>3 DEF Fetch, Task
<1>4. CASE UploadPreview(w) BY <1>1, <1>4 DEF UploadPreview, Task
<1>5. CASE ListOld(w) BY <1>1, <1>5 DEF ListOld, Sweep
<1>6. CASE RemoveOld(w) BY <1>1, <1>6 DEF RemoveOld, Sweep
<1>7. CASE Cleaned(w) BY <1>1, <1>7 DEF Cleaned, Sweep
<1>8. CASE UploadTile(w) BY <1>1, <1>8 DEF UploadTile, Sweep
<1>9. CASE UploadConfig(w) BY <1>1, <1>9 DEF UploadConfig, Task
<1>10. CASE Fail(w) BY <1>1, <1>10 DEF Fail, Task
<1>11. CASE LoseWorker(w)
  <2>1. job[w].retries \in 0..MaxRetries BY <1>11, TaskFields DEF LoseWorker
  <2>2. queue'[job[w].retries] > 0 BY <1>11, <2>1, SendTyped DEF LoseWorker
  <2> QED BY <2>1, <2>2 DEF Driven
<1> QED BY <1>2, <1>3, <1>4, <1>5, <1>6, <1>7, <1>8, <1>9, <1>10, <1>11

LEMMA EndDrives ==
  ASSUME TypeOK, NEW w \in Worker, Retry(w) \/ Acknowledge(w) \/ Abort(w), Driven,
         "abort" \notin crossed'
  PROVE  Driven'
<1> USE DEF Driving, Holding
<1>0. w \in Proc /\ w \notin Admin BY PanoAssumption DEF Proc
<1>1. CASE Retry(w)
  <2>1. job[w].retries \in 0..MaxRetries BY <1>1, TaskFields DEF Retry
  <2>2. \A n \in 0..MaxRetries : queue[n] > 0 => queue'[n] > 0
    <3>1. CASE job[w].retries < MaxRetries
      <4>1. job[w].retries + 1 \in 0..MaxRetries BY <2>1, <3>1, PanoAssumption
      <4> QED BY <1>1, <3>1, <4>1, SendGrows DEF Retry
    <3>2. CASE ~(job[w].retries < MaxRetries) BY <1>1, <3>2 DEF Retry
    <3> QED BY <3>1, <3>2
  <2> QED BY <1>0, <1>1, <2>2, OthersDrive DEF Retry
<1>2. CASE Acknowledge(w) BY <1>0, <1>2, OthersDrive DEF Acknowledge, Done
<1>3. CASE Abort(w)
  <2>1. job[w].pc \notin Driving BY <1>3, NoteHolds DEF Abort
  <2> QED BY <1>0, <1>3, <2>1, OthersDrive DEF Abort, Done
<1> QED BY <1>1, <1>2, <1>3

LEMMA WorkerKeepsDriven ==
  ASSUME TypeOK, StatusIsDriven, NEW w \in Worker,
         Work(w) \/ Fail(w) \/ Abort(w) \/ LoseWorker(w)
  PROVE  StatusIsDriven'
<1>1. CASE Tiled(w)
  <2>1. row' # Nil => row'.tile = "tiled" BY <1>1, SetTileEffect DEF Tiled
  <2> QED BY <2>1 DEF StatusIsDriven
<1>2. CASE Failed(w)
  <2>1. row' # Nil => row'.tile = "failed" BY <1>2, SetTileEffect DEF Failed
  <2> QED BY <2>1 DEF StatusIsDriven
<1>3. CASE Retry(w) \/ Acknowledge(w) \/ Abort(w)
  <2>1. UNCHANGED <<row, asked>> BY <1>3 DEF Retry, Acknowledge, Abort
  <2>2. crossed \subseteq crossed' BY <1>3, NoteTyped DEF Retry, Acknowledge, Abort
  <2> QED BY <1>3, <2>1, <2>2, EndDrives, DrivenOn
<1>4. CASE ~(Tiled(w) \/ Failed(w) \/ Retry(w) \/ Acknowledge(w) \/ Abort(w))
      BY <1>4, TaskDrives DEF Work, StatusIsDriven
<1> QED BY <1>1, <1>2, <1>3, <1>4

-----------------------------------------------------------------------------
(* Removal.                                                                *)

\* A step of w: objects are added by tasks that hold the image, and it is held
\* by tasks that held it already.
LEMMA TaskKeepsRemoval ==
  ASSUME TypeOK, RemovalUnderWay, NEW w \in Worker, NEW j, Turn(w, j),
         Gone' <=> Gone, crossed \subseteq crossed', raw' = raw,
         Gone /\ "removal" \notin crossed' /\ job[w].pc \notin Holding
           => j.pc \notin Holding /\ files' = files
  PROVE  RemovalUnderWay'
<1> SUFFICES ASSUME Gone', "removal" \notin crossed'
             PROVE  /\ \A v \in Worker : job'[v].pc \notin Holding
                    /\ raw' => \E a \in Admin : RemovesRaw(a)'
                    /\ files' # {} => \E a \in Admin : RemovesAll(a)'
    BY DEF RemovalUnderWay
<1>1. job'[w] = j /\ \A q \in Proc \ {w} : job'[q] = job[q] BY TurnEffect DEF Proc
<1>2. /\ \A v \in Worker : job[v].pc \notin Holding
      /\ raw => \E a \in Admin : RemovesRaw(a)
      /\ files # {} => \E a \in Admin : RemovesAll(a)
      BY DEF RemovalUnderWay
<1>3. j.pc \notin Holding /\ files' = files BY <1>2
<1>4. \A a \in Admin : job'[a] = job[a] BY <1>1, PanoAssumption DEF Proc
<1> QED BY <1>1, <1>2, <1>3, <1>4 DEF RemovesRaw, RemovesAll, Proc

LEMMA WorkerKeepsRemoval ==
  ASSUME TypeOK, RemovalUnderWay, NEW w \in Worker,
         Work(w) \/ Fail(w) \/ Abort(w) \/ LoseWorker(w)
  PROVE  RemovalUnderWay'
<1> USE DEF Holding
<1>0. UNCHANGED row => (Gone' <=> Gone) BY DEF Gone
<1>1. CASE Begin(w)
  <2>1. PICK n \in 0..MaxRetries : Turn(w, Task("fetch", n)) BY <1>1 DEF Begin
  <2>2. Gone' <=> Gone BY <1>1, SetTileEffect DEF Begin
  <2> QED BY <1>1, <2>1, <2>2, TaskKeepsRemoval DEF Begin, Task
<1>2. CASE Fetch(w)
  <2>1. crossed \subseteq crossed' BY <1>2, NoteTyped DEF Fetch
  <2>2. CASE raw
    <3>1. Gone /\ "removal" \notin crossed' => FALSE
      <4> SUFFICES ASSUME Gone, "removal" \notin crossed' PROVE FALSE OBVIOUS
      <4>1. ~(raw /\ Gone /\ \E a \in Admin : job[a].pc \in {"list", "remove"})
            BY <1>2, NoteHolds DEF Fetch
      <4>2. \E a \in Admin : RemovesRaw(a) BY <2>1, <2>2 DEF RemovalUnderWay
      <4> QED BY <2>2, <4>1, <4>2 DEF RemovesRaw
    <3> QED BY <1>0, <1>2, <2>1, <3>1 DEF Fetch, RemovalUnderWay
  <2>3. CASE ~raw
    <3>1. Turn(w, Task("failed", job[w].retries)) BY <1>2, <2>3 DEF Fetch
    <3> QED BY <1>0, <1>2, <2>1, <3>1, TaskKeepsRemoval DEF Fetch, Task
  <2> QED BY <2>2, <2>3
<1>3. CASE UploadPreview(w) BY <1>0, <1>3, TaskKeepsRemoval DEF UploadPreview
<1>4. CASE ListOld(w) BY <1>0, <1>4, TaskKeepsRemoval DEF ListOld
<1>5. CASE RemoveOld(w) BY <1>0, <1>5, TaskKeepsRemoval DEF RemoveOld
<1>6. CASE Cleaned(w) BY <1>0, <1>6, TaskKeepsRemoval DEF Cleaned
<1>7. CASE UploadTile(w) BY <1>0, <1>7, TaskKeepsRemoval DEF UploadTile
<1>8. CASE UploadConfig(w) BY <1>0, <1>8, TaskKeepsRemoval DEF UploadConfig
<1>9. CASE Tiled(w)
  <2>1. Gone' <=> Gone BY <1>9, SetTileEffect DEF Tiled
  <2>2. PICK pc \in {"ack", "failed"} : Turn(w, Task(pc, job[w].retries)) BY <1>9 DEF Tiled
  <2> QED BY <1>9, <2>1, <2>2, TaskKeepsRemoval DEF Tiled, Task
<1>10. CASE Failed(w)
  <2>1. Gone' <=> Gone BY <1>10, SetTileEffect DEF Failed
  <2> QED BY <1>10, <2>1, TaskKeepsRemoval DEF Failed, Task
<1>11. CASE Retry(w) BY <1>0, <1>11, TaskKeepsRemoval DEF Retry, Task
<1>12. CASE Acknowledge(w) BY <1>0, <1>12, TaskKeepsRemoval DEF Acknowledge, Done, Idle
<1>13. CASE Fail(w)
  <2>1. crossed \subseteq crossed' BY <1>13, NoteTyped DEF Fail, Torn
  <2> QED BY <1>0, <1>13, <2>1, TaskKeepsRemoval DEF Fail, Task
<1>14. CASE LoseWorker(w)
  <2>1. crossed \subseteq crossed' BY <1>14, NoteTyped DEF LoseWorker, Torn
  <2> QED BY <1>0, <1>14, <2>1, TaskKeepsRemoval DEF LoseWorker, Done, Idle
<1>15. CASE Abort(w)
  <2>1. crossed \subseteq crossed' BY <1>15, NoteTyped DEF Abort
  <2> QED BY <1>0, <1>15, <2>1, TaskKeepsRemoval DEF Abort, Done, Idle
<1> QED BY <1>1, <1>2, <1>3, <1>4, <1>5, <1>6, <1>7, <1>8, <1>9, <1>10, <1>11, <1>12,
           <1>13, <1>14, <1>15 DEF Work

\* A request that makes the panorama gone and goes on to list its objects.
LEMMA TakeDownStartsRemoval ==
  ASSUME TypeOK, NEW a \in Admin, Turn(a, Request("list")), Overtaken
  PROVE  RemovalUnderWay'
<1> SUFFICES ASSUME "removal" \notin crossed'
             PROVE  /\ \A w \in Worker : job'[w].pc \notin Holding
                    /\ RemovesRaw(a)' /\ RemovesAll(a)'
    BY DEF RemovalUnderWay
<1>1. job'[a].pc = "list" BY TurnEffect DEF Proc, Request
<1>2. \A w \in Worker : job'[w] = job[w] BY TurnEffect, PanoAssumption DEF Proc
<1>3. ~\E w \in Worker : job[w].pc \in Holding BY NoteHolds DEF Overtaken
<1> QED BY <1>1, <1>2, <1>3 DEF RemovesRaw, RemovesAll

\* A step of a that leaves the row alone: what others remove, they still remove.
LEMMA RequestKeepsRemoval ==
  ASSUME TypeOK, RemovalUnderWay, NEW a \in Admin, NEW j, Turn(a, j),
         Gone' <=> Gone, crossed \subseteq crossed', files' \subseteq files,
         raw' => raw,
         "removal" \notin crossed' /\ raw' /\ RemovesRaw(a) => j.pc \in {"list", "remove"},
         "removal" \notin crossed' /\ files' # {} /\ RemovesAll(a) =>
           j.pc = "list" \/ (j.pc = "remove" /\ files' \subseteq j.left)
  PROVE  RemovalUnderWay'
<1> SUFFICES ASSUME Gone', "removal" \notin crossed'
             PROVE  /\ \A w \in Worker : job'[w].pc \notin Holding
                    /\ raw' => \E b \in Admin : RemovesRaw(b)'
                    /\ files' # {} => \E b \in Admin : RemovesAll(b)'
    BY DEF RemovalUnderWay
<1>1. job'[a] = j /\ \A q \in Proc \ {a} : job'[q] = job[q] BY TurnEffect DEF Proc
<1>2. /\ \A w \in Worker : job[w].pc \notin Holding
      /\ raw => \E b \in Admin : RemovesRaw(b)
      /\ files # {} => \E b \in Admin : RemovesAll(b)
      BY DEF RemovalUnderWay
<1>3. \A w \in Worker : job'[w] = job[w] BY <1>1, PanoAssumption DEF Proc
<1>4. \A b \in Admin \ {a} : job'[b] = job[b] BY <1>1 DEF Proc
<1>5. raw' => \E b \in Admin : RemovesRaw(b)'
  <2> SUFFICES ASSUME raw' PROVE \E b \in Admin : RemovesRaw(b)' OBVIOUS
  <2>1. PICK b \in Admin : RemovesRaw(b) BY <1>2
  <2>2. CASE b = a BY <1>1, <2>1, <2>2 DEF RemovesRaw
  <2>3. CASE b # a BY <1>4, <2>1, <2>3 DEF RemovesRaw
  <2> QED BY <2>2, <2>3
<1>6. files' # {} => \E b \in Admin : RemovesAll(b)'
  <2> SUFFICES ASSUME files' # {} PROVE \E b \in Admin : RemovesAll(b)' OBVIOUS
  <2>1. PICK b \in Admin : RemovesAll(b) BY <1>2
  <2>2. CASE b = a BY <1>1, <2>1, <2>2 DEF RemovesAll
  <2>3. CASE b # a BY <1>4, <2>1, <2>3 DEF RemovesAll
  <2> QED BY <2>2, <2>3
<1> QED BY <1>2, <1>3, <1>5, <1>6

LEMMA AdminKeepsRemoval ==
  ASSUME TypeOK, RemovalUnderWay, NEW a \in Admin, Ask(a) \/ Serve(a)
  PROVE  RemovalUnderWay'
<1>0. UNCHANGED row => (Gone' <=> Gone) BY DEF Gone
<1>1. CASE Confirm(a) BY <1>1 DEF Confirm, RemovalUnderWay, Gone, RemovesRaw, RemovesAll
<1>2. CASE RetileRow(a)
  <2>1. Gone' <=> Gone BY <1>2, SetTileEffect DEF RetileRow
  <2>2. ~RemovesRaw(a) /\ ~RemovesAll(a) BY <1>2 DEF RetileRow, RemovesRaw, RemovesAll, Idle
  <2> QED BY <1>2, <2>1, <2>2, RequestKeepsRemoval DEF RetileRow
<1>3. CASE RejectRow(a) BY <1>3, TakeDownStartsRemoval DEF RejectRow
<1>4. CASE DeleteRow(a) BY <1>4, TakeDownStartsRemoval DEF DeleteRow
<1>5. CASE RetileSend(a)
  <2>1. ~RemovesRaw(a) /\ ~RemovesAll(a) BY <1>5 DEF RetileSend, RemovesRaw, RemovesAll
  <2>2. crossed \subseteq crossed' BY <1>5, NoteTyped DEF RetileSend
  <2> QED BY <1>0, <1>5, <2>1, <2>2, RequestKeepsRemoval DEF RetileSend, Done
<1>6. CASE ListObjects(a)
      BY <1>0, <1>6, RequestKeepsRemoval DEF ListObjects, Remove
<1>7. CASE RemoveObject(a)
  <2>1. PICK o \in job[a].left : /\ files' = files \ {o}
                                 /\ Turn(a, Remove(job[a].left \ {o}))
        BY <1>7 DEF RemoveObject
  <2>2. files \subseteq job[a].left => files' \subseteq job[a].left \ {o} BY <2>1
  <2> QED BY <1>0, <1>7, <2>1, <2>2, RequestKeepsRemoval
         DEF RemoveObject, Remove, RemovesAll
<1>8. CASE RemoveRaw(a)
  <2>1. crossed \subseteq crossed' BY <1>8, NoteTyped DEF RemoveRaw
  <2>2. "removal" \notin crossed' => ~raw'
    <3>1. CASE ~raw' BY <3>1
    <3>2. CASE raw' BY <1>8, <3>2, NoteHolds DEF RemoveRaw
    <3> QED BY <3>1, <3>2
  <2>3. raw' => raw BY <1>8 DEF RemoveRaw
  <2>4. files # {} => ~RemovesAll(a) BY <1>8 DEF RemoveRaw, RemovesAll
  <2> QED BY <1>0, <1>8, <2>1, <2>2, <2>3, <2>4, RequestKeepsRemoval DEF RemoveRaw, Done
<1>9. CASE GiveUp(a)
  <2>1. crossed \subseteq crossed' BY <1>9, NoteTyped DEF GiveUp
  <2>2. "removal" \in crossed' BY <1>9, NoteHolds DEF GiveUp
  <2> QED BY <2>2 DEF RemovalUnderWay
<1>10. CASE Approve(a)
  <2>1. ~Gone' BY <1>10, ApproveKeepsRow
  <2> QED BY <2>1 DEF RemovalUnderWay
<1> QED BY <1>1, <1>2, <1>3, <1>4, <1>5, <1>6, <1>7, <1>8, <1>9, <1>10 DEF Ask, Serve

-----------------------------------------------------------------------------
(* Uploads.                                                                *)

\* While the panorama is not gone, administrators leave objects and tasks alone.
LEMMA AdminLeavesUploads ==
  ASSUME TypeOK, RemoversAfterGone, NEW a \in Admin, Ask(a) \/ Serve(a)
  PROVE  /\ \A w \in Worker : job'[w] = job[w]
         /\ crossed \subseteq crossed'
         /\ ~Gone' =>
              /\ ~Gone /\ files' = files
              /\ row' = row \/ row'.tile = "pending"
              /\ \A b \in Admin : ~RemovesRaw(b)'
<1>0. a \in Proc /\ \A w \in Worker : w \in Proc \ {a} BY PanoAssumption DEF Proc
<1>1. \A b \in Admin \ {a} : b \in Proc \ {a} BY DEF Proc
<1>2. CASE Confirm(a)
      BY <1>2 DEF Confirm, RemoversAfterGone, Gone, RemovesRaw
<1>3. CASE Approve(a)
  <2>1. row' = row BY <1>3, ApproveKeepsRow
  <2> QED BY <1>3, <2>1 DEF Approve, RemoversAfterGone, Gone, RemovesRaw
<1>4. CASE RetileRow(a)
  <2>1. Gone' <=> Gone BY <1>4, SetTileEffect DEF RetileRow
  <2>2. ~Gone' => row'.tile = "pending" BY <1>4, SetTileEffect DEF RetileRow, Gone
  <2>3. job'[a].pc = "send" /\ \A q \in Proc \ {a} : job'[q] = job[q]
        BY <1>0, <1>4, TurnEffect DEF RetileRow, Request
  <2> QED BY <1>0, <1>1, <1>4, <2>1, <2>2, <2>3 DEF RetileRow, RemoversAfterGone, RemovesRaw
<1>5. CASE RejectRow(a)
  <2>1. row'.moderation = "rejected" BY <1>5 DEF RejectRow, TypeOK, Row
  <2>2. \A q \in Proc \ {a} : job'[q] = job[q] BY <1>0, <1>5, TurnEffect DEF RejectRow
  <2>3. crossed \subseteq crossed' BY <1>5, NoteTyped DEF RejectRow, Overtaken
  <2> QED BY <1>0, <2>1, <2>2, <2>3 DEF Gone
<1>6. CASE DeleteRow(a)
  <2>1. \A q \in Proc \ {a} : job'[q] = job[q] BY <1>0, <1>6, TurnEffect DEF DeleteRow
  <2>2. crossed \subseteq crossed' BY <1>6, NoteTyped DEF DeleteRow, Overtaken
  <2> QED BY <1>0, <1>6, <2>1, <2>2 DEF DeleteRow, Gone
<1>7. CASE RetileSend(a)
  <2>1. job'[a] = Idle /\ \A q \in Proc \ {a} : job'[q] = job[q]
        BY <1>0, <1>7, TurnEffect DEF RetileSend, Done
  <2>2. crossed \subseteq crossed' BY <1>7, NoteTyped DEF RetileSend
  <2> QED BY <1>0, <1>1, <1>7, <2>1, <2>2
          DEF RetileSend, Idle, RemoversAfterGone, Gone, RemovesRaw
<1>8. CASE ListObjects(a) \/ RemoveObject(a) \/ RemoveRaw(a) \/ GiveUp(a)
  <2>1. Gone'
    <3>1. RemovesRaw(a)
          BY <1>8 DEF ListObjects, RemoveObject, RemoveRaw, GiveUp, RemovesRaw
    <3>2. UNCHANGED row BY <1>8 DEF ListObjects, RemoveObject, RemoveRaw, GiveUp
    <3> QED BY <3>1, <3>2 DEF RemoversAfterGone, Gone
  <2>2. PICK j : Turn(a, j)
        BY <1>8 DEF ListObjects, RemoveObject, RemoveRaw, GiveUp, Done
  <2>3. \A q \in Proc \ {a} : job'[q] = job[q] BY <1>0, <2>2, TurnEffect
  <2>4. crossed \subseteq crossed'
        BY <1>8, NoteTyped DEF ListObjects, RemoveObject, RemoveRaw, GiveUp
  <2> QED BY <1>0, <2>1, <2>3, <2>4
<1> QED BY <1>2, <1>3, <1>4, <1>5, <1>6, <1>7, <1>8 DEF Ask, Serve

LEMMA AdminKeepsUploads ==
  ASSUME TypeOK, RemoversAfterGone, OneLeads, CompleteOrDriven,
         NEW a \in Admin, Ask(a) \/ Serve(a)
  PROVE  RemoversAfterGone' /\ OneLeads' /\ CompleteOrDriven'
<1>1. /\ \A w \in Worker : job'[w] = job[w]
      /\ crossed \subseteq crossed'
      /\ ~Gone' =>
           /\ ~Gone /\ files' = files
           /\ row' = row \/ row'.tile = "pending"
           /\ \A b \in Admin : ~RemovesRaw(b)'
      BY AdminLeavesUploads
<1>2. RemoversAfterGone' BY <1>1 DEF RemoversAfterGone
<1>3. OneLeads' BY <1>1 DEF OneLeads, Leads, Uploading
<1>4. CompleteOrDriven'
  <2>1. row' = [tile |-> "tiled", moderation |-> "clean"] => ~Gone'
        BY PanoAssumption DEF Gone, Row
  <2>2. "abort" \notin crossed' /\ Driven => Driven' BY AdminDrives
  <2> QED BY <1>1, <2>1, <2>2 DEF CompleteOrDriven
<1> QED BY <1>2, <1>3, <1>4

\* A step of w outside of the upload, or forward in it, keeps a leader.
LEMMA TaskKeepsLeader ==
  ASSUME TypeOK, OneLeads, NEW w \in Worker, NEW j, Turn(w, j),
         ~Gone' => ~Gone, crossed \subseteq crossed',
         files \subseteq files',
         j.pc \in {"clean", "upload", "tiled"} => Uploading(w),
         Leads(w) /\ Uploading(w) => \/ Leads(w)'
                                     \/ \A v \in Worker : Uploading(v)' => Leads(v)'
  PROVE  OneLeads'
<1> SUFFICES ASSUME ~Gone', {"upload", "abort"} \cap crossed' = {},
                    NEW u \in Worker, Uploading(u)'
             PROVE  \E v \in Worker : Leads(v)'
    BY DEF OneLeads
<1>1. job'[w] = j /\ \A q \in Proc \ {w} : job'[q] = job[q] BY TurnEffect DEF Proc
<1>2. Uploading(u) BY <1>1 DEF Uploading, Proc
<1>3. PICK v \in Worker : Leads(v) BY <1>2 DEF OneLeads
<1>4. CASE v = w
  <2>1. Uploading(w) BY <1>3, <1>4 DEF Leads, Uploading
  <2> QED BY <1>3, <1>4, <2>1
<1>5. CASE v # w
  <2>1. job'[v] = job[v] BY <1>1, <1>5 DEF Proc
  <2> QED BY <1>3, <2>1 DEF Leads
<1> QED BY <1>4, <1>5

\* Task w ends: it leads no more, and breaks nothing off unless that is noted.
LEMMA EndKeepsLeader ==
  ASSUME TypeOK, OneLeads, NEW w \in Worker, NEW j, Turn(w, j), files' = files,
         ~Gone' => ~Gone, crossed \subseteq crossed',
         j.pc \notin {"clean", "upload", "tiled"},
         {"upload", "abort"} \cap crossed' = {} /\ job[w].pc \in {"clean", "upload"} =>
           \A v \in Worker \ {w} : ~Uploading(v)
  PROVE  OneLeads'
<1> SUFFICES ASSUME ~Gone', {"upload", "abort"} \cap crossed' = {},
                    NEW u \in Worker, Uploading(u)'
             PROVE  \E v \in Worker : Leads(v)'
    BY DEF OneLeads
<1>1. job'[w] = j /\ \A q \in Proc \ {w} : job'[q] = job[q] BY TurnEffect DEF Proc
<1>2. u # w BY <1>1 DEF Uploading
<1>3. job'[u] = job[u] /\ Uploading(u) BY <1>1, <1>2 DEF Uploading, Proc
<1>4. job[w].pc \notin {"clean", "upload"} BY <1>2, <1>3
<1>5. PICK v \in Worker : Leads(v) BY <1>3 DEF OneLeads
<1>6. CASE v = w
  <2>1. Shown \subseteq files BY <1>4, <1>5, <1>6 DEF Leads
  <2>2. Leads(u)' BY <1>3, <2>1 DEF Uploading, Leads, Shown
  <2> QED BY <2>2
<1>7. CASE v # w
  <2>1. job'[v] = job[v] BY <1>1, <1>7 DEF Proc
  <2> QED BY <1>5, <2>1 DEF Leads
<1> QED BY <1>6, <1>7

\* Workers make no panorama gone and leave requests alone.
LEMMA WorkerLeavesRequests ==
  ASSUME TypeOK, NEW w \in Worker, Work(w) \/ Fail(w) \/ Abort(w) \/ LoseWorker(w)
  PROVE  /\ Gone' <=> Gone
         /\ crossed \subseteq crossed'
         /\ \A a \in Admin : job'[a] = job[a]
<1>1. Gone' <=> Gone
  <2>1. CASE UNCHANGED row BY <2>1 DEF Gone
  <2>2. CASE Begin(w) \/ Tiled(w) \/ Failed(w)
        BY <2>2, SetTileEffect DEF Begin, Tiled, Failed
  <2> QED BY <2>1, <2>2 DEF Work, Fetch, UploadPreview, ListOld, RemoveOld, Cleaned,
             UploadTile, UploadConfig, Retry, Acknowledge, Fail, Abort, LoseWorker
<1>2. crossed \subseteq crossed'
  <2>1. CASE UNCHANGED crossed BY <2>1
  <2>2. CASE Fetch(w) \/ Fail(w) \/ Abort(w) \/ LoseWorker(w)
        BY <2>2, NoteTyped DEF Fetch, Fail, Abort, LoseWorker, Torn
  <2> QED BY <2>1, <2>2 DEF Work, Begin, UploadPreview, ListOld, RemoveOld, Cleaned,
             UploadTile, UploadConfig, Tiled, Failed, Retry, Acknowledge
<1>3. \E j : Turn(w, j)
      BY DEF Work, Begin, Fetch, UploadPreview, ListOld, RemoveOld, Cleaned, UploadTile,
             UploadConfig, Tiled, Failed, Retry, Acknowledge, Fail, Abort, LoseWorker, Done
<1>4. \A a \in Admin : job'[a] = job[a] BY <1>3, TurnEffect, PanoAssumption DEF Proc
<1> QED BY <1>1, <1>2, <1>4

LEMMA WorkerKeepsLeader ==
  ASSUME TypeOK, OneLeads, NEW w \in Worker, Work(w) \/ Fail(w) \/ Abort(w) \/ LoseWorker(w)
  PROVE  OneLeads'
<1>0. /\ ~Gone' => ~Gone
      /\ crossed \subseteq crossed'
      BY WorkerLeavesRequests
<1>1. ASSUME Leads(w)' PROVE OneLeads' BY <1>1 DEF OneLeads
<1>2. CASE Begin(w)
  <2>1. PICK n \in 0..MaxRetries : Turn(w, Task("fetch", n)) BY <1>2 DEF Begin
  <2>2. ~Uploading(w) BY <1>2 DEF Begin, Idle, Uploading
  <2> QED BY <1>0, <1>2, <2>1, <2>2, TaskKeepsLeader DEF Begin, Task
<1>3. CASE Fetch(w)
  <2>1. PICK pc \in {"preview", "failed"} : Turn(w, Task(pc, job[w].retries))
        BY <1>3 DEF Fetch
  <2>2. ~Uploading(w) BY <1>3 DEF Fetch, Uploading
  <2> QED BY <1>0, <1>3, <2>1, <2>2, TaskKeepsLeader DEF Fetch, Task
<1>4. CASE UploadPreview(w)
      BY <1>0, <1>4, TaskKeepsLeader DEF UploadPreview, Task, Uploading
<1>5. CASE ListOld(w) \/ RemoveOld(w)
  <2>1. PICK left : Turn(w, Sweep("clean", job[w].retries, left))
        BY <1>5 DEF ListOld, RemoveOld
  <2>2. job'[w].pc = "clean" BY <2>1, TurnEffect DEF Sweep, Proc
  <2> QED BY <1>1, <2>2 DEF Leads
<1>6. CASE Cleaned(w)
  <2>1. job'[w].pc = "upload" /\ job'[w].left = Tile
        BY <1>6, TurnEffect DEF Cleaned, Sweep, Proc
  <2> QED BY <1>1, <2>1 DEF Leads
<1>7. CASE UploadTile(w)
  <2>1. PICK t \in job[w].left : /\ files' = files \cup {t}
                                 /\ Turn(w, Sweep("upload", job[w].retries,
                                               job[w].left \ {t}))
        BY <1>7 DEF UploadTile
  <2>2. job'[w].pc = "upload" /\ job'[w].left = job[w].left \ {t}
        BY <2>1, TurnEffect DEF Sweep, Proc
  <2>3. Leads(w) => Leads(w)' BY <1>7, <2>1, <2>2 DEF UploadTile, Leads
  <2> QED BY <1>0, <1>7, <2>1, <2>3, TaskKeepsLeader DEF UploadTile, Sweep, Uploading
<1>8. CASE UploadConfig(w)
  <2>1. job'[w].pc = "tiled" BY <1>8, TurnEffect DEF UploadConfig, Task, Proc
  <2>2. Leads(w) => Leads(w)' BY <1>8, <2>1 DEF UploadConfig, Leads, Shown
  <2> QED BY <1>0, <1>8, <2>2, TaskKeepsLeader DEF UploadConfig, Task, Uploading
<1>9. CASE Tiled(w)
  <2>1. PICK pc \in {"ack", "failed"} : Turn(w, Task(pc, job[w].retries)) BY <1>9 DEF Tiled
  <2> QED BY <1>0, <1>9, <2>1, EndKeepsLeader DEF Tiled, Task
<1>10. CASE Failed(w) \/ Retry(w) \/ Acknowledge(w)
      BY <1>0, <1>10, EndKeepsLeader DEF Failed, Retry, Acknowledge, Done, Task, Idle
<1>11. CASE Fail(w) \/ LoseWorker(w)
  <2>1. "upload" \notin crossed' /\ job[w].pc \in {"clean", "upload"} =>
          \A v \in Worker \ {w} : ~Uploading(v)
        BY <1>11, NoteHolds DEF Fail, LoseWorker, Torn, Uploading
  <2> QED BY <1>0, <1>11, <2>1, EndKeepsLeader DEF Fail, LoseWorker, Done, Task, Idle
<1>12. CASE Abort(w)
  <2>1. "abort" \notin crossed' => job[w].pc \notin {"clean", "upload"}
        BY <1>12, NoteHolds DEF Abort, Driving, Holding
  <2> QED BY <1>0, <1>12, <2>1, EndKeepsLeader DEF Abort, Done, Idle
<1> QED BY <1>2, <1>3, <1>4, <1>5, <1>6, <1>7, <1>8, <1>9, <1>10, <1>11, <1>12 DEF Work

LEMMA WorkerKeepsUploads ==
  ASSUME TypeOK, RemoversAfterGone, OneLeads, CompleteOrDriven,
         NEW w \in Worker, Work(w) \/ Fail(w) \/ Abort(w) \/ LoseWorker(w)
  PROVE  RemoversAfterGone' /\ OneLeads' /\ CompleteOrDriven'
<1>1. RemoversAfterGone'
      BY WorkerLeavesRequests DEF RemoversAfterGone, RemovesRaw
<1>2. OneLeads' BY WorkerKeepsLeader
<1>3. CompleteOrDriven'
  <2>1. CASE Tiled(w)
    <3> SUFFICES ASSUME row' = [tile |-> "tiled", moderation |-> "clean"],
                        {"upload", "abort"} \cap crossed' = {}, ~Driven'
                 PROVE  Shown \subseteq files'
        BY DEF CompleteOrDriven
    <3>1. ~Gone
      <4>1. ~Gone' BY PanoAssumption DEF Gone, Row
      <4> QED BY <4>1, WorkerLeavesRequests
    <3>2. \A v \in Worker \ {w} : job'[v] = job[v] BY <2>1, TurnEffect DEF Tiled, Proc
    <3>3. \A v \in Worker \ {w} : ~Leads(v)
          BY <3>2 DEF Driven, Driving, Holding, Leads
    <3>4. PICK v \in Worker : Leads(v)
          BY <2>1, <3>1 DEF Tiled, OneLeads, Uploading
    <3>5. Leads(w) BY <3>3, <3>4
    <3> QED BY <2>1, <3>5 DEF Tiled, Leads
  <2>2. CASE Failed(w)
    <3>1. row' # Nil => row'.tile = "failed" BY <2>2, SetTileEffect DEF Failed
    <3> QED BY <3>1, PanoAssumption DEF CompleteOrDriven, Row
  <2>3. CASE Retry(w) \/ Acknowledge(w) \/ Abort(w)
    <3>1. UNCHANGED <<row, files>> BY <2>3 DEF Retry, Acknowledge, Abort
    <3>2. crossed \subseteq crossed' BY WorkerLeavesRequests
    <3> QED BY <2>3, <3>1, <3>2, EndDrives DEF CompleteOrDriven
  <2>4. CASE ~(Tiled(w) \/ Failed(w) \/ Retry(w) \/ Acknowledge(w) \/ Abort(w))
        BY <2>4, TaskDrives DEF Work, CompleteOrDriven
  <2> QED BY <2>1, <2>2, <2>3, <2>4
<1> QED BY <1>1, <1>2, <1>3

-----------------------------------------------------------------------------
(* Theorems.                                                               *)

LEMMA InitInductive == Init => IndInv
<1> SUFFICES ASSUME Init PROVE IndInv OBVIOUS
<1>1. StatusIsDriven /\ CompleteOrDriven BY DEF Init, StatusIsDriven, CompleteOrDriven
<1>2. ~Gone BY PanoAssumption DEF Init, Gone, Row
<1>3. RemoversAfterGone BY DEF Init, RemoversAfterGone, RemovesRaw, Idle, Proc
<1>4. OneLeads BY DEF Init, OneLeads, Uploading, Idle, Proc
<1> QED BY <1>1, <1>2, <1>3, <1>4, InitTyped DEF IndInv, RemovalUnderWay

\* The upload of the raw image disturbs what says that it is gone, and nothing else.
LEMMA PutRawInductive == IndInv /\ PutRaw => IndInv'
<1> SUFFICES ASSUME IndInv, PutRaw PROVE IndInv' OBVIOUS
<1>1. TypeOK' BY NextKeepsType DEF IndInv, Next
<1>2. crossed \subseteq crossed' BY NoteTyped DEF PutRaw, IndInv
<1>3. StatusIsDriven' BY <1>2 DEF PutRaw, IndInv, StatusIsDriven, Driven
<1>4. Gone => "removal" \in crossed' BY NoteHolds DEF PutRaw
<1>5. Gone' <=> Gone BY DEF PutRaw, Gone
<1>6. RemoversAfterGone' BY <1>5 DEF PutRaw, IndInv, RemoversAfterGone, RemovesRaw
<1>7. OneLeads' BY <1>2, <1>5 DEF PutRaw, IndInv, OneLeads, Uploading, Leads
<1>8. CompleteOrDriven' BY <1>2 DEF PutRaw, IndInv, CompleteOrDriven, Driven
<1> QED BY <1>1, <1>3, <1>4, <1>5, <1>6, <1>7, <1>8 DEF IndInv, RemovalUnderWay

LEMMA StutterInductive == IndInv /\ UNCHANGED vars => IndInv'
<1> SUFFICES ASSUME IndInv, UNCHANGED vars PROVE IndInv' OBVIOUS
<1>1. TypeOK' BY NextKeepsType DEF IndInv
<1>2. StatusIsDriven' /\ CompleteOrDriven'
      BY DEF vars, IndInv, StatusIsDriven, CompleteOrDriven, Driven
<1>3. RemovalUnderWay' /\ RemoversAfterGone'
      BY DEF vars, IndInv, RemovalUnderWay, RemoversAfterGone, Gone, RemovesRaw, RemovesAll
<1>4. OneLeads' BY DEF vars, IndInv, OneLeads, Gone, Uploading, Leads
<1> QED BY <1>1, <1>2, <1>3, <1>4 DEF IndInv

LEMMA NextInductive == IndInv /\ [Next]_vars => IndInv'
<1> SUFFICES ASSUME IndInv, [Next]_vars PROVE IndInv' OBVIOUS
<1>1. TypeOK' BY NextKeepsType DEF IndInv
<1>2. CASE \E a \in Admin : Ask(a) \/ Serve(a)
      BY <1>1, <1>2, AdminKeepsDriven, AdminKeepsRemoval, AdminKeepsUploads DEF IndInv
<1>3. CASE \E w \in Worker : Work(w) \/ Fail(w) \/ Abort(w) \/ LoseWorker(w)
      BY <1>1, <1>3, WorkerKeepsDriven, WorkerKeepsRemoval, WorkerKeepsUploads DEF IndInv
<1> QED BY <1>2, <1>3, PutRawInductive, StutterInductive DEF Next

LEMMA Inductive == Spec => []IndInv
<1> QED BY InitInductive, NextInductive, PTL DEF Spec

\* Rows, objects, messages and jobs keep their types; no message is taken that
\* is not there.
THEOREM TypesHold == Spec => []TypeOK
<1>1. IndInv => TypeOK BY DEF IndInv
<1> QED BY <1>1, Inductive, PTL

\* Once the workers rest, a panorama that players are given has all its tiles and
\* its config, however tasks overlapped, failed, were retried or delivered twice,
\* unless one broke off its upload across another's or ended uncaught.
THEOREM TiledHasItsTiles == Spec => []TiledIsComplete
<1> QED BY CompleteFromInd, Inductive, PTL

\* Once the workers rest, a panorama whose tiling was asked for is 'tiled' or
\* 'failed', whatever failed, was lost or overlapped, unless something ended uncaught.
THEOREM StatusIsSettled == Spec => []NoStuckStatus
<1> QED BY NoStuckFromInd, Inductive, PTL

\* Once the workers rest, what was rejected or deleted has no objects left, but for
\* tasks that were already past the download and for errors of MinIO.
THEOREM RemovedIsGone == Spec => []RemovalIsComplete
<1> QED BY RemovedFromInd, Inductive, PTL

=============================================================================
