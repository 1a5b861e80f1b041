---------------------------- MODULE PanoPipeline ----------------------------
(***************************************************************************)
(* One panorama: its row in Postgres, its objects in MinIO and its tiling  *)
(* tasks in RabbitMQ.  Administrators confirm, retile, reject and delete   *)
(* it (services/workers/app/api/admin_panos.py) while Celery workers run   *)
(* tile_panorama (app/tasks/tiling.py).  A task removes and uploads the    *)
(* objects one by one and does not look at the row again.                  *)
(***************************************************************************)
EXTENDS Integers, FiniteSets

CONSTANTS
  Worker,      \* Celery worker processes
  Admin,       \* administrators' requests in flight at once
  Tile,        \* tiles that generate.py cuts
  Nil,         \* no row
  MaxRetries,  \* max_retries of the task (3 in the code)
  MaxAsked,    \* bound on the tasks that administrators ask for
  MaxLost,     \* bound on the workers that are lost
  Faults       \* the failures that may happen, a subset of FaultKind

\* A removal that MinIO refuses, an exception in the try block of a task, a task or
\* a retiling that breaks off where nothing catches it.
FaultKind == {"remove", "task", "abort"}

Row == [tile: {"pending", "tiling", "tiled", "failed"}, moderation: {"clean", "rejected"}]

ASSUME PanoAssumption ==
  /\ Nil \notin Row
  /\ Worker \cap Admin = {}
  /\ IsFiniteSet(Tile)
  /\ MaxRetries \in Nat /\ MaxAsked \in Nat /\ MaxLost \in Nat
  /\ Faults \subseteq FaultKind

VARIABLES
  row,    \* the row of table panoramas, or Nil once it is deleted
  raw,    \* whether raw/{id}.jpg exists
  files,  \* the objects under maps/panoramas/{id}/
  queue,  \* queue[n]: messages tile_panorama(id) waiting for their n-th retry
  job,    \* what each worker and each request does
  asked,  \* tasks administrators have asked for
  lost,   \* workers lost in mid-task
  crossed \* what has gone across so far (history): "removal" when the raw image was
          \* uploaded, or in the hands of a task, after the panorama was rejected
          \* or deleted, or MinIO refused to remove; "upload" when a task broke
          \* off its upload while another had cleaned up before its own; "abort"
          \* when nobody was left to set the status

vars == <<row, raw, files, queue, job, asked, lost, crossed>>

Proc == Worker \cup Admin
Shown == Tile \cup {"config"}
Object == Shown \cup {"preview"}
\* Stages of a task that holds the raw image.
Holding == {"preview", "generate", "clean", "upload"}

\* Stages from which a task still goes on to 'tiled' or 'failed'.
Driving == Holding \cup {"fetch", "tiled", "failed"}

Idle == [pc |-> "idle"]
Task(pc, n) == [pc |-> pc, retries |-> n]
Sweep(pc, n, left) == [pc |-> pc, retries |-> n, left |-> left]
Request(pc) == [pc |-> pc]
Remove(left) == [pc |-> "remove", left |-> left]

\* get_upload_url has made the row; it is approved from the start.
Init ==
  /\ row = [tile |-> "pending", moderation |-> "clean"]
  /\ raw = FALSE /\ files = {}
  /\ queue = [n \in 0..MaxRetries |-> 0]
  /\ job = [p \in Proc |-> Idle]
  /\ asked = 0 /\ lost = 0 /\ crossed = {}

Gone == row = Nil \/ row.moderation = "rejected"
Turn(p, j) == job' = [job EXCEPT ![p] = j]
Done(p) == Turn(p, Idle)
Send(n) == queue' = [queue EXCEPT ![n] = @ + 1]

Note(happens, what) == crossed' = crossed \cup {x \in {what} : happens}

\* UPDATE panoramas SET tile_status = ... WHERE id: nothing when the row is gone.
SetTile(status) == row' = IF row = Nil THEN Nil ELSE [row EXCEPT !.tile = status]

-----------------------------------------------------------------------------
(* Administrators.                                                         *)

\* The browser uploads the image to the presigned URL, whatever became of the
\* row since.
PutRaw ==
  /\ ~raw
  /\ raw' = TRUE
  /\ Note(Gone, "removal")
  /\ UNCHANGED <<row, files, queue, job, asked, lost>>

Confirm(a) ==
  /\ job[a] = Idle
  /\ row # Nil
  /\ asked < MaxAsked
  /\ asked' = asked + 1
  /\ Send(0)
  /\ UNCHANGED <<row, raw, files, job, lost, crossed>>

\* Mutant: a status that the type tile_status does not have.
RetileQueued(a) ==
  /\ job[a] = Idle
  /\ row # Nil
  /\ asked < MaxAsked
  /\ asked' = asked + 1
  /\ SetTile("queued")
  /\ Turn(a, Request("send"))
  /\ UNCHANGED <<raw, files, queue, lost, crossed>>

RetileRow(a) ==
  /\ job[a] = Idle
  /\ row # Nil
  /\ asked < MaxAsked
  /\ asked' = asked + 1
  /\ SetTile("pending")
  /\ Turn(a, Request("send"))
  /\ UNCHANGED <<raw, files, queue, lost, crossed>>

\* The broker may refuse the task after the row is committed.
RetileSend(a) ==
  /\ job[a].pc = "send"
  /\ \/ Send(0) /\ UNCHANGED crossed
     \/ "abort" \in Faults /\ Note(TRUE, "abort") /\ UNCHANGED queue
  /\ Done(a)
  /\ UNCHANGED <<row, raw, files, asked, lost>>

\* No way back from a rejection.  Nothing but a rejection ever changes the
\* moderation status, so that this writes what is there.
Approve(a) ==
  /\ job[a] = Idle
  /\ row # Nil
  /\ row.moderation # "rejected"
  /\ row' = [row EXCEPT !.moderation = "clean"]
  /\ UNCHANGED <<raw, files, queue, job, asked, lost, crossed>>

\* A task that has the raw image goes on with it.
Overtaken == Note(\E w \in Worker : job[w].pc \in Holding, "removal")

RejectRow(a) ==
  /\ job[a] = Idle
  /\ row # Nil
  /\ row' = [row EXCEPT !.moderation = "rejected"]
  /\ Overtaken
  /\ Turn(a, Request("list"))
  /\ UNCHANGED <<raw, files, queue, asked, lost>>

DeleteRow(a) ==
  /\ job[a] = Idle
  /\ row # Nil
  /\ row' = Nil
  /\ Overtaken
  /\ Turn(a, Request("list"))
  /\ UNCHANGED <<raw, files, queue, asked, lost>>

\* _delete_minio_prefix lists the objects, then removes them one by one; then
\* the raw image goes.
ListObjects(a) ==
  /\ job[a].pc = "list"
  /\ Turn(a, Remove(files))
  /\ UNCHANGED <<row, raw, files, queue, asked, lost, crossed>>

RemoveObject(a) ==
  /\ job[a].pc = "remove"
  /\ \E o \in job[a].left :
       /\ files' = files \ {o}
       /\ Turn(a, Remove(job[a].left \ {o}))
  /\ UNCHANGED <<row, raw, queue, asked, lost, crossed>>

\* An error of MinIO ends the removal of objects; it is swallowed.
GiveUp(a) ==
  /\ "remove" \in Faults
  /\ job[a].pc = "remove"
  /\ job[a].left # {}
  /\ Note(TRUE, "removal")
  /\ Turn(a, Remove({}))
  /\ UNCHANGED <<row, raw, files, queue, asked, lost>>

\* Mutant: the raw image stays.
KeepRaw(a) ==
  /\ job[a].pc = "remove"
  /\ job[a].left = {}
  /\ Done(a)
  /\ UNCHANGED <<row, raw, files, queue, asked, lost, crossed>>

RemoveRaw(a) ==
  /\ job[a].pc = "remove"
  /\ job[a].left = {}
  /\ \/ raw' = FALSE /\ UNCHANGED crossed
     \/ "remove" \in Faults /\ UNCHANGED raw /\ Note(raw, "removal")
  /\ Done(a)
  /\ UNCHANGED <<row, files, queue, asked, lost>>

-----------------------------------------------------------------------------
(* tile_panorama.                                                          *)

Begin(w) ==
  /\ job[w] = Idle
  /\ \E n \in 0..MaxRetries :
       /\ queue[n] > 0
       /\ queue' = [queue EXCEPT ![n] = @ - 1]
       /\ Turn(w, Task("fetch", n))
  /\ SetTile("tiling")
  /\ UNCHANGED <<raw, files, asked, lost, crossed>>

Fetch(w) ==
  /\ job[w].pc = "fetch"
  /\ Turn(w, Task(IF raw THEN "preview" ELSE "failed", job[w].retries))
  /\ Note(raw /\ Gone /\ \E a \in Admin : job[a].pc \in {"list", "remove"}, "removal")
  /\ UNCHANGED <<row, raw, files, queue, asked, lost>>

UploadPreview(w) ==
  /\ job[w].pc = "preview"
  /\ files' = files \cup {"preview"}
  /\ Turn(w, Task("generate", job[w].retries))
  /\ UNCHANGED <<row, raw, queue, asked, lost, crossed>>

\* generate.py has cut the tiles; what is there already, the preview too, is
\* listed to be removed.
ListOld(w) ==
  /\ job[w].pc = "generate"
  /\ Turn(w, Sweep("clean", job[w].retries, files))
  /\ UNCHANGED <<row, raw, files, queue, asked, lost, crossed>>

RemoveOld(w) ==
  /\ job[w].pc = "clean"
  /\ \E o \in job[w].left :
       /\ files' = files \ {o}
       /\ Turn(w, Sweep("clean", job[w].retries, job[w].left \ {o}))
  /\ UNCHANGED <<row, raw, queue, asked, lost, crossed>>

\* All are removed; an error of MinIO leaves the rest there and is swallowed.
Cleaned(w) ==
  /\ job[w].pc = "clean"
  /\ job[w].left = {} \/ "remove" \in Faults
  /\ Turn(w, Sweep("upload", job[w].retries, Tile))
  /\ UNCHANGED <<row, raw, files, queue, asked, lost, crossed>>

UploadTile(w) ==
  /\ job[w].pc = "upload"
  /\ \E t \in job[w].left :
       /\ files' = files \cup {t}
       /\ Turn(w, Sweep("upload", job[w].retries, job[w].left \ {t}))
  /\ UNCHANGED <<row, raw, queue, asked, lost, crossed>>

\* Mutant: the config does not wait for the tiles.
ConfigEarly(w) ==
  /\ job[w].pc = "upload"
  /\ files' = files \cup {"config"}
  /\ Turn(w, Task("tiled", job[w].retries))
  /\ UNCHANGED <<row, raw, queue, asked, lost, crossed>>

UploadConfig(w) ==
  /\ job[w].pc = "upload"
  /\ job[w].left = {}
  /\ files' = files \cup {"config"}
  /\ Turn(w, Task("tiled", job[w].retries))
  /\ UNCHANGED <<row, raw, queue, asked, lost, crossed>>

\* The new status is then published, still in the try block.
Tiled(w) ==
  /\ job[w].pc = "tiled"
  /\ SetTile("tiled")
  /\ \/ Turn(w, Task("ack", job[w].retries))
     \/ "task" \in Faults /\ Turn(w, Task("failed", job[w].retries))
  /\ UNCHANGED <<raw, files, queue, asked, lost, crossed>>

\* The upload of w breaks off while another has cleaned up before its own.
Torn(w) ==
  Note(/\ job[w].pc \in {"clean", "upload"}
       /\ \E v \in Worker \ {w} : job[v].pc \in {"clean", "upload", "tiled"}, "upload")

\* An exception in the try block.
Fail(w) ==
  /\ "task" \in Faults
  /\ job[w].pc \in {"fetch", "preview", "generate", "upload", "tiled"}
  /\ Torn(w)
  /\ Turn(w, Task("failed", job[w].retries))
  /\ UNCHANGED <<row, raw, files, queue, asked, lost>>

\* Mutant: the status is left at 'tiling'.
FailedSilently(w) ==
  /\ job[w].pc = "failed"
  /\ Turn(w, Task("retry", job[w].retries))
  /\ UNCHANGED <<row, raw, files, queue, asked, lost, crossed>>

Failed(w) ==
  /\ job[w].pc = "failed"
  /\ SetTile("failed")
  /\ Turn(w, Task("retry", job[w].retries))
  /\ UNCHANGED <<raw, files, queue, asked, lost, crossed>>

\* Mutant: retries are not counted.
RetryAgain(w) ==
  /\ job[w].pc = "retry"
  /\ Send(job[w].retries)
  /\ Turn(w, Task("ack", job[w].retries))
  /\ UNCHANGED <<row, raw, files, asked, lost, crossed>>

\* self.retry: the message again, up to max_retries times.
Retry(w) ==
  /\ job[w].pc = "retry"
  /\ IF job[w].retries < MaxRetries THEN Send(job[w].retries + 1) ELSE UNCHANGED queue
  /\ Turn(w, Task("ack", job[w].retries))
  /\ UNCHANGED <<row, raw, files, asked, lost, crossed>>

\* The message is acknowledged when the task is over (task_acks_late).
Acknowledge(w) ==
  /\ job[w].pc = "ack"
  /\ Done(w)
  /\ UNCHANGED <<row, raw, files, queue, asked, lost, crossed>>

\* An exception outside of the try block, or the pool's process is killed: Celery
\* acknowledges the message and nothing more is done.
Abort(w) ==
  /\ "abort" \in Faults
  /\ job[w] # Idle
  /\ Note(job[w].pc \in Driving, "abort")
  /\ Done(w)
  /\ UNCHANGED <<row, raw, files, queue, asked, lost>>

\* A worker is lost, with its connection, before it acknowledged: the message is
\* delivered again.
LoseWorker(w) ==
  /\ job[w] # Idle
  /\ lost < MaxLost
  /\ lost' = lost + 1
  /\ Send(job[w].retries)
  /\ Torn(w)
  /\ Done(w)
  /\ UNCHANGED <<row, raw, files, asked>>

-----------------------------------------------------------------------------
Ask(a) == Confirm(a) \/ RetileRow(a) \/ Approve(a) \/ RejectRow(a) \/ DeleteRow(a)

Serve(a) == RetileSend(a) \/ ListObjects(a) \/ RemoveObject(a) \/ RemoveRaw(a) \/ GiveUp(a)

Work(w) ==
  \/ Begin(w) \/ Fetch(w) \/ UploadPreview(w) \/ ListOld(w) \/ RemoveOld(w) \/ Cleaned(w)
  \/ UploadTile(w) \/ UploadConfig(w) \/ Tiled(w) \/ Failed(w) \/ Retry(w)
  \/ Acknowledge(w)

Next ==
  \/ PutRaw
  \/ \E a \in Admin : Ask(a) \/ Serve(a)
  \/ \E w \in Worker : Work(w) \/ Fail(w) \/ Abort(w) \/ LoseWorker(w)

Spec == Init /\ [][Next]_vars

\* Workers take messages and work on them, and requests are served to the end;
\* nobody has to ask for anything.
FairSpec ==
  /\ Spec
  /\ \A w \in Worker : WF_vars(Work(w))
  /\ \A a \in Admin : WF_vars(Serve(a))

-----------------------------------------------------------------------------
(* Properties.                                                             *)

TaskJob ==
  [pc : {"idle"}]
    \cup [pc : {"fetch", "preview", "generate", "tiled", "failed", "retry", "ack"},
          retries : 0..MaxRetries]
    \cup [pc : {"clean", "upload"}, retries : 0..MaxRetries, left : SUBSET Object]
RequestJob == [pc : {"idle", "send", "list"}] \cup [pc : {"remove"}, left : SUBSET Object]

\* Every variable has its type; no counter goes below zero.
TypeOK ==
  /\ row \in Row \cup {Nil}
  /\ raw \in BOOLEAN
  /\ files \subseteq Object
  /\ queue \in [0..MaxRetries -> Nat]
  /\ job \in [Proc -> TaskJob \cup RequestJob]
  /\ \A w \in Worker : job[w] \in TaskJob
  /\ \A a \in Admin : job[a] \in RequestJob
  /\ asked \in Nat /\ lost \in Nat
  /\ crossed \subseteq {"removal", "upload", "abort"}

\* No task waits or runs and no request is on its way.
Quiet ==
  /\ \A n \in 0..MaxRetries : queue[n] = 0
  /\ \A p \in Proc : job[p] = Idle

\* Players are given panoramas that are 'tiled' (room/handler.go:323): their
\* tiles and config are there, however tasks overlapped, were retried or delivered
\* twice, unless one broke off its upload across another's or ended uncaught.
TiledIsComplete ==
  /\ Quiet /\ row = [tile |-> "tiled", moderation |-> "clean"]
  /\ {"upload", "abort"} \cap crossed = {}
  => Shown \subseteq files

\* What is rejected or deleted is gone from MinIO: only a task that had the raw
\* image in its hands, or an error of MinIO, leaves objects behind, never a task
\* that was still waiting or is retried later.
RemovalIsComplete == Quiet /\ Gone /\ "removal" \notin crossed => files = {} /\ ~raw

\* After tasks have been asked for, the status says how the last one ended: it
\* is never left at 'pending' or 'tiling', which the admin panel cannot retile, but
\* by a task or a request that ended uncaught.
NoStuckStatus ==
  Quiet /\ asked > 0 /\ row # Nil /\ "abort" \notin crossed
    => row.tile \in {"tiled", "failed"}

\* Failing tasks are retried, but not for ever: the workers come to rest.
TasksEnd == <>[](\A w \in Worker : job[w] = Idle /\ \A n \in 0..MaxRetries : queue[n] = 0)

\* docs/steps/06-admin-panel.md: a rejected panorama has its tiles deleted.  A
\* task that overlaps with the rejection uploads them afterwards.
RejectedHasNoTiles == Quiet /\ row # Nil /\ row.moderation = "rejected" => files = {}

=============================================================================
