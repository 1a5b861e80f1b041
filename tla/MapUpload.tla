----------------------------- MODULE MapUpload -----------------------------
(***************************************************************************)
(* The upload section of the admin page MapDetail: files are chosen, one   *)
(* is sent by the form or several by clicks on the floor plan, each upload *)
(* is three awaited requests, and then a WebSocket tells how tiling ended. *)
(* The handlers go on with the files and the index of the render in which  *)
(* they were called, while the file input stays enabled; and the socket is *)
(* opened after the task was queued, so its news may come too early.  The  *)
(* task may end without a word, is tried again after it has said that it   *)
(* failed, and delivered again when its worker is lost (that it may run    *)
(* twice at a time is in PanoPipeline).                                    *)
(* Which floor and position a file is sent with is fixed by the click and  *)
(* left out.                                                               *)
(***************************************************************************)
EXTENDS Naturals, Sequences, FiniteSets

CONSTANTS
  File,       \* image files; the panorama of a file goes by its name
  Picks,      \* bound: what is chosen in the file input
  NoFile,
  MaxTries    \* bound: how often a tiling task runs again (max_retries = 3)

ASSUME MapUploadAssumption ==
  /\ IsFiniteSet(File) /\ NoFile \notin File /\ MaxTries \in Nat
  /\ Picks \subseteq Seq(File)
  /\ \A fs \in Picks : \A i, j \in DOMAIN fs : fs[i] = fs[j] => i = j

VARIABLES
  files,      \* batchFiles
  index,      \* batchIdx, counted from 1
  upload,     \* uploadSingle under way, with what its caller knows, or idle
  step,       \* uploadStep
  failed,     \* uploadError is shown
  tilingPano, \* tilingPanoId
  feed,       \* of each panorama: the WebSocket
  news,       \* of each panorama: the end of its tiling, under way to the WebSocket
  tile,       \* of each panorama: the server's tile_status, open for pending or tiling
  task,       \* of each panorama: its Celery task, on, to be tried again, or over
  tries,      \* of each panorama: how often the task was run again
  fate,       \* of each file: what became of it (history)
  upset       \* what disturbed the section: "chosen", "crossed", "missed", "again" (history)

serverSide == <<feed, news, tile, task, tries>>
uploadVars == <<files, index, upload, step, failed, tilingPano, serverSide, fate, upset>>

Idle == [file |-> NoFile]
Busy == upload # Idle

UploadInit ==
  /\ files = <<>> /\ index = 1 /\ upload = Idle
  /\ step = "idle" /\ failed = FALSE /\ tilingPano = NoFile
  /\ feed = [f \in File |-> "none"] /\ news = [f \in File |-> "none"]
  /\ tile = [f \in File |-> "none"] /\ task = [f \in File |-> "none"]
  /\ tries = [f \in File |-> 0]
  /\ fate = [f \in File |-> "there"] /\ upset = {}

-----------------------------------------------------------------------------
(* Choosing files and sending them.                                        *)

\* What is still to be sent, the file under way included.
Offered == {files[i] : i \in index..Len(files)}

\* Bound: a file that was sent is not chosen once more.
Unsent == {"there", "waiting", "replaced"}

\* A new choice replaces the files and starts at the first one, at any time.
Choose ==
  /\ \E fs \in Picks :
       /\ \A i \in DOMAIN fs : fate[fs[i]] \in Unsent /\ fs[i] # upload.file
       /\ files' = fs /\ index' = 1
       /\ fate' = [f \in File |->
                     IF \E i \in DOMAIN fs : fs[i] = f THEN "waiting"
                     ELSE IF fate[f] = "waiting" /\ f # upload.file THEN "replaced" ELSE fate[f]]
  /\ upset' = IF Busy THEN upset \cup {"chosen"} ELSE upset \ {"chosen"}
  /\ UNCHANGED <<upload, step, failed, tilingPano, serverSide>>

Begins(f) ==
  /\ upload' = [file |-> f, count |-> Len(files), index |-> index, at |-> "url"]
  /\ step' = "uploading" /\ failed' = FALSE
  /\ upset' = upset \ {"crossed"}
  /\ UNCHANGED <<files, index, tilingPano, serverSide, fate>>

\* uploadPano: the form sends a single file.
SubmitFile == ~Busy /\ Len(files) = 1 /\ Begins(files[1])

\* handleUploadMapClick: with several files a click on the plan sends the next.
PlaceFile == ~Busy /\ Len(files) > 1 /\ index <= Len(files) /\ Begins(files[index])

Reaches(here, there) == upload.at = here /\ upload' = [upload EXCEPT !.at = there]

\* The upload URL with a pending row, the PUT to MinIO, the confirmation that
\* queues the tiling task.
Requests ==
  /\ Busy
  /\ \/ /\ Reaches("url", "put")
        /\ tile' = [tile EXCEPT ![upload.file] = "open"] /\ task' = task
     \/ Reaches("put", "confirm") /\ tile' = tile /\ task' = task
     \/ /\ Reaches("confirm", "confirmed")
        /\ task' = [task EXCEPT ![upload.file] = "on"] /\ tile' = tile
  /\ UNCHANGED <<files, index, step, failed, tilingPano, feed, news, tries, fate, upset>>

\* Mutant: the last file of a batch is taken for done.
AdvanceEarly ==
  IF upload.count = 1 \/ upload.index + 1 >= upload.count
    THEN files' = <<>> /\ index' = 1
    ELSE index' = upload.index + 1 /\ files' = files

\* After the upload, failed or not, the caller goes on with the index and the
\* number of files it was called with, whatever has been chosen since.
Advance ==
  IF upload.count = 1 \/ upload.index + 1 > upload.count
    THEN files' = <<>> /\ index' = 1
    ELSE index' = upload.index + 1 /\ files' = files

Confirmed ==
  /\ Busy /\ upload.at = "confirmed"
  /\ tilingPano' = upload.file /\ step' = "tiling"
  /\ feed' = [feed EXCEPT ![upload.file] = "connecting"]
  /\ fate' = [fate EXCEPT ![upload.file] = "sent"]
  /\ Advance /\ upload' = Idle
  /\ UNCHANGED <<failed, news, tile, task, tries, upset>>

\* Any of the requests fails, or its answer is lost: the file is not tried again.
UploadFails ==
  /\ Busy
  /\ failed' = TRUE /\ step' = "failed"
  /\ fate' = [fate EXCEPT ![upload.file] = "failed"]
  /\ Advance /\ upload' = Idle
  /\ UNCHANGED <<tilingPano, serverSide, upset>>

-----------------------------------------------------------------------------
(* Tiling and its news.                                                    *)

\* The server subscribes to the status of the panorama for the socket.
FeedOpens ==
  /\ \E f \in File : feed[f] = "connecting" /\ feed' = [feed EXCEPT ![f] = "open"]
  /\ UNCHANGED <<files, index, upload, step, failed, tilingPano, news, tile, task, tries, fate,
                 upset>>

\* A closed socket is not opened again, and what is on its way to it is gone.
Closes(f) == feed' = [feed EXCEPT ![f] = "closed"] /\ news' = [news EXCEPT ![f] = "none"]

FeedBreaks ==
  /\ \E f \in File : feed[f] \in {"connecting", "open"} /\ Closes(f)
  /\ upset' = upset \cup {"missed"}
  /\ UNCHANGED <<files, index, upload, step, failed, tilingPano, tile, task, tries, fate>>

Told(f) == feed[f] = "open" /\ news[f] = "none"

\* Mutant: only success is published.
PublishTiled(f, s) == news' = [news EXCEPT ![f] = IF s = "tiled" /\ Told(f) THEN s ELSE @]

\* PUBLISH reaches the sockets subscribed now and is not kept; the first end is the
\* last that a socket sends.
Publish(f, s) == news' = [news EXCEPT ![f] = IF Told(f) THEN s ELSE @]

\* A task that failed says so before it is tried again, if it can be.
TaskEnds ==
  /\ \E f \in File, s \in {"tiled", "failed"}, next \in {"again", "over"} :
       /\ task[f] = "on" /\ tile' = [tile EXCEPT ![f] = s]
       /\ next = "again" => s = "failed" /\ tries[f] < MaxTries
       /\ task' = [task EXCEPT ![f] = next]
       /\ Publish(f, s)
       /\ upset' = upset \cup (IF Told(f) THEN {} ELSE {"missed"})
  /\ UNCHANGED <<files, index, upload, step, failed, tilingPano, feed, tries, fate>>

\* The panorama is tiling again.
Reruns(f) ==
  /\ task' = [task EXCEPT ![f] = "on"] /\ tries' = [tries EXCEPT ![f] = @ + 1]
  /\ tile' = [tile EXCEPT ![f] = "open"]
  /\ UNCHANGED <<files, index, upload, step, failed, tilingPano, feed, news, fate>>

\* The countdown is over.
TriesAgain == (\E f \in File : task[f] = "again" /\ Reruns(f)) /\ UNCHANGED upset

\* The worker was lost before it acknowledged the task, which is delivered again.
Redelivered ==
  /\ \E f \in File : task[f] = "over" /\ tries[f] < MaxTries /\ Reruns(f)
  /\ upset' = upset \cup {"again"}

\* The worker is killed, or a statement outside of the try or the PUBLISH fails.
TaskDies ==
  /\ \E f \in File :
       /\ task[f] = "on" /\ task' = [task EXCEPT ![f] = "over"]
       /\ tile' \in {tile, [tile EXCEPT ![f] = "tiled"], [tile EXCEPT ![f] = "failed"]}
  /\ upset' = upset \cup {"missed"}
  /\ UNCHANGED <<files, index, upload, step, failed, tilingPano, feed, news, tries, fate>>

StepOf(s) == IF s = "tiled" THEN "done" ELSE "failed"

\* onmessage sets the one step there is, of whichever panorama the socket is.
NewsArrives ==
  /\ \E f \in File :
       /\ feed[f] = "open" /\ news[f] # "none"
       /\ step' = StepOf(news[f])
       /\ Closes(f)
       /\ upset' = upset \cup (IF f # tilingPano \/ Busy THEN {"crossed"} ELSE {})
  /\ UNCHANGED <<files, index, upload, failed, tilingPano, tile, task, tries, fate>>

-----------------------------------------------------------------------------
(* The specification.  Requests, sockets and the task come to an end.      *)

UploadProgress ==
  \/ Requests \/ Confirmed \/ UploadFails \/ FeedOpens \/ TaskEnds \/ TriesAgain
  \/ NewsArrives

UploadNext ==
  \/ UploadProgress \/ Choose \/ SubmitFile \/ PlaceFile \/ FeedBreaks \/ TaskDies
  \/ Redelivered

UploadSpec == UploadInit /\ [][UploadNext]_uploadVars

-----------------------------------------------------------------------------
(* Properties.                                                             *)

UploadState ==
  [file: File, count: Nat \ {0}, index: Nat \ {0}, at: {"url", "put", "confirm", "confirmed"}]

\* Every variable has its type.
UploadTypeOK ==
  /\ files \in Seq(File) /\ index \in Nat \ {0} /\ upload \in UploadState \cup {Idle}
  /\ step \in {"idle", "uploading", "tiling", "done", "failed"} /\ failed \in BOOLEAN
  /\ tilingPano \in File \cup {NoFile}
  /\ feed \in [File -> {"none", "connecting", "open", "closed"}]
  /\ news \in [File -> {"none", "tiled", "failed"}]
  /\ tile \in [File -> {"none", "open", "tiled", "failed"}]
  /\ task \in [File -> {"none", "on", "again", "over"}] /\ tries \in [File -> 0..MaxTries]
  /\ fate \in [File -> {"there", "waiting", "replaced", "sent", "failed"}]
  /\ upset \subseteq {"chosen", "crossed", "missed", "again"}

\* No file of a choice is skipped and none is sent twice: what waits is offered,
\* and what is offered waits, unless a choice was made during an upload.
OfferedOnce == "chosen" \in upset \/ Offered = {f \in File : fate[f] = "waiting"}

\* The status shown is the one of the panorama named with it, unless the news of
\* another one came in between, which has the same line on the page.  That it is
\* tiled is for good, unless a task that was over has been delivered again; that it
\* failed may have been put right since by a new try, of which the page, whose socket
\* is closed, hears nothing.
StatusOfShownPano ==
  "crossed" \notin upset =>
    /\ step = "done" =>
         "again" \in upset \/ (tile[tilingPano] = "tiled" /\ task[tilingPano] = "over")
    /\ step = "failed" /\ ~failed => tile[tilingPano] = "failed" \/ tries[tilingPano] > 0

\* The section is about the files that are there to be sent and the one sent last.
UploadInStep == OfferedOnce /\ StatusOfShownPano

\* An upload comes back, the section is free for the next, and the end of tiling is
\* shown, unless no socket was told of it: a status published while none was
\* subscribed is not kept (admin_ws.py never reads the row), a task may end without
\* publishing one, and nothing is polled.
UploadIsReported == []<>(~Busy /\ (step = "tiling" => "missed" \in upset))

=============================================================================
