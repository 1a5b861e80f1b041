----------------------------- MODULE DeskProofs -----------------------------
(***************************************************************************)
(* Proofs about the pages beside the game: an invariant of each page, and  *)
(* of all of them together.  What the pages of the panel show is what the  *)
(* server has once they wait for nothing, for every number of panoramas,   *)
(* users, lists, floors and changes.                                       *)
(***************************************************************************)
EXTENDS DeskClients, SignInProofs, FiniteSetTheorems, SequenceTheorems, NaturalsInduction,
        WellFoundedInduction, TLAPS

-----------------------------------------------------------------------------
(* Registration: however many visits of the link overlap and whatever is   *)
(* lost, only a visit that was cut off leaves a used link with an address  *)
(* that is not verified.                                                   *)

\* Nobody follows a link that was not sent, or of an account that is not there.
InOrder ==
  /\ \A v \in Visit : visits[v] # "none" => mail = "sent"
  /\ mail # "none" \/ link # "none" => account # "none"

\* Who has marked the link as used verifies the address, or was cut off.
Marked ==
  /\ \A v \in Visit : visits[v] = "marked" => link = "used"
  /\ link = "used" => \/ account = "verified" \/ "visit" \in lost
                      \/ \E v \in Visit : visits[v] = "marked"

RegInv == RegTypeOK /\ InOrder /\ Marked

LEMMA RegInitInv == RegInit => RegInv
BY RegistrationAssumption DEF RegInit, RegInv, RegTypeOK, InOrder, Marked

\* One visit moves on and the others stay.
LEMMA OneMoves ==
  ASSUME RegTypeOK, NEW v \in Visit, NEW here,
         NEW there \in {"none", "checked", "marked", "verified", "refused", "failed"},
         At(v, here, there)
  PROVE  /\ visits[v] = here /\ visits'[v] = there
         /\ \A w \in Visit \ {v} : visits'[w] = visits[w]
         /\ visits' \in [Visit -> {"none", "checked", "marked", "verified", "refused", "failed"}]
BY DEF RegTypeOK, At

\* Before the link is followed: the form and the mail.
LEMMA FormKeeps ==
  ASSUME RegInv, SendForm \/ ServeRegister \/ RefuseRegister \/ ContinueToApp
  PROVE  RegInv'
<1>1. CASE SendForm BY <1>1 DEF SendForm, RegInv, RegTypeOK, InOrder, Marked
<1>2. CASE ServeRegister BY <1>2 DEF ServeRegister, RegInv, RegTypeOK, InOrder, Marked
<1>3. CASE RefuseRegister BY <1>3 DEF RefuseRegister, RegInv, RegTypeOK, InOrder, Marked
<1>4. CASE ContinueToApp BY <1>4 DEF ContinueToApp, RegInv, RegTypeOK, InOrder, Marked
<1> QED BY <1>1, <1>2, <1>3, <1>4

LEMMA MailKeeps == ASSUME RegInv, HandOver \/ SendMail \/ Expire PROVE RegInv'
<1>1. CASE HandOver BY <1>1 DEF HandOver, RegInv, RegTypeOK, InOrder, Marked
<1>2. CASE SendMail
      BY <1>2, RegistrationAssumption DEF SendMail, RegInv, RegTypeOK, InOrder, Marked
<1>3. CASE Expire BY <1>3 DEF Expire, RegInv, RegTypeOK, InOrder, Marked
<1> QED BY <1>1, <1>2, <1>3

LEMMA FollowKeeps == ASSUME RegInv, Follow PROVE RegInv'
<1>1. PICK v \in Visit : At(v, "none", IF link = "fresh" THEN "checked" ELSE "refused")
      BY DEF Follow
<1>2. PICK there \in {"checked", "refused"} : At(v, "none", there) BY <1>1
<1>3. UNCHANGED <<form, account, link, mail, retries, lost>> /\ mail = "sent" BY DEF Follow
<1>4. RegTypeOK' BY <1>2, <1>3, OneMoves DEF RegInv, RegTypeOK
<1>5. InOrder' BY <1>3 DEF RegInv, InOrder
<1>6. Marked' BY <1>2, <1>3, OneMoves DEF RegInv, Marked
<1> QED BY <1>4, <1>5, <1>6 DEF RegInv

LEMMA MarkUsedKeeps == ASSUME RegInv, MarkUsed PROVE RegInv'
<1>1. PICK v \in Visit : At(v, "checked", "marked") BY DEF MarkUsed
<1>2. link' = "used" /\ UNCHANGED <<form, account, mail, retries, lost>> BY DEF MarkUsed
<1>3. visits[v] = "checked" BY <1>1 DEF At
<1>4. mail = "sent" /\ account # "none" BY <1>3 DEF RegInv, InOrder
<1>5. RegTypeOK' BY <1>1, <1>2, OneMoves DEF RegInv, RegTypeOK
<1>6. InOrder' BY <1>2, <1>4 DEF RegInv, InOrder
<1>7. visits'[v] = "marked" BY <1>1, OneMoves DEF RegInv
<1>8. Marked' BY <1>2, <1>7 DEF Marked
<1> QED BY <1>5, <1>6, <1>8 DEF RegInv

LEMMA VerifyKeeps == ASSUME RegInv, Verify PROVE RegInv'
<1>1. PICK v \in Visit : At(v, "marked", "verified") BY DEF Verify
<1>2. account' = "verified" /\ UNCHANGED <<form, link, mail, retries, lost>> BY DEF Verify
<1>3. visits[v] = "marked" BY <1>1 DEF At
<1>4. mail = "sent" /\ link = "used" BY <1>3 DEF RegInv, InOrder, Marked
<1>5. RegTypeOK' BY <1>1, <1>2, OneMoves DEF RegInv, RegTypeOK
<1>6. InOrder' BY <1>2, <1>4 DEF InOrder
<1>7. Marked' BY <1>2, <1>4 DEF Marked
<1> QED BY <1>5, <1>6, <1>7 DEF RegInv

LEMMA CutOffKeeps == ASSUME RegInv, CutOff PROVE RegInv'
<1>1. PICK v \in Visit : At(v, "checked", "failed") \/ At(v, "marked", "failed") BY DEF CutOff
<1>2. PICK here \in {"checked", "marked"} : At(v, here, "failed") BY <1>1
<1>3. lost' = lost \cup {"visit"} /\ UNCHANGED <<form, account, link, mail, retries>>
      BY DEF CutOff
<1>4. visits[v] = here BY <1>2 DEF At
<1>5. mail = "sent" BY <1>4 DEF RegInv, InOrder
<1>6. RegTypeOK' BY <1>2, <1>3, OneMoves DEF RegInv, RegTypeOK
<1>7. InOrder' BY <1>3, <1>5 DEF RegInv, InOrder
<1>8. Marked' BY <1>2, <1>3, OneMoves DEF RegInv, Marked
<1> QED BY <1>6, <1>7, <1>8 DEF RegInv

LEMMA RegNextInv == RegInv /\ [RegNext]_regVars => RegInv'
<1> SUFFICES ASSUME RegInv, [RegNext]_regVars PROVE RegInv' OBVIOUS
<1>1. CASE RegNext
      BY <1>1, FormKeeps, MailKeeps, FollowKeeps, MarkUsedKeeps, VerifyKeeps, CutOffKeeps
      DEF RegNext
<1>2. CASE UNCHANGED regVars
      BY <1>2 DEF regVars, RegInv, RegTypeOK, InOrder, Marked
<1> QED BY <1>1, <1>2

\* Two visits of one link and a failure between any two of their statements: a link
\* that is used up has verified the address, unless the failure was in between
\* (VerifyEmail of auth/handler.go).
THEOREM UsedLinkVerified == RegSpec => []UsedMeansVerified
<1>1. RegInv => UsedMeansVerified BY DEF RegInv, Marked, UsedMeansVerified
<1> QED BY <1>1, RegInitInv, RegNextInv, PTL DEF RegSpec

-----------------------------------------------------------------------------
(* MapUpload, for every set of files and every choice of them, made at any *)
(* time: what waits is offered and the status shown is the one of the      *)
(* panorama named, but for the disturbances the properties name.           *)

\* What is still to be sent waits; a file input names no file twice.
Fresh ==
  /\ \A i \in DOMAIN files : i >= index \/ Len(files) = 1 => fate[files[i]] = "waiting"
  /\ \A i, j \in DOMAIN files : files[i] = files[j] => i = j

\* The files are still those of the upload under way ...
SameChoice ==
  /\ Len(files) = upload.count /\ upload.index = index
  /\ \/ upload.count = 1 /\ files[1] = upload.file
     \/ upload.count > 1 /\ index <= Len(files) /\ files[index] = upload.file

\* ... or others, chosen since.
OtherChoice ==
  \A i \in DOMAIN files : files[i] # upload.file /\ fate[files[i]] = "waiting"

Sending ==
  Busy => fate[upload.file] = "waiting" /\ (SameChoice \/ OtherChoice)

\* Without a choice during an upload the two agree.
Undisturbed ==
  "chosen" \notin upset =>
    /\ Offered = {f \in File : fate[f] = "waiting"}
    /\ (files = <<>> /\ index = 1) \/ index \in 1..Len(files)
    /\ Busy => SameChoice

\* A task that is on has not ended the tiling it does; news that a panorama is tiled is
\* final but for a task delivered again, and news that it is not may have been put right.
News ==
  /\ \A f \in File : task[f] \in {"none", "on"} => tile[f] \in {"none", "open"}
  /\ \A f \in File : task[f] = "again" => tries[f] < MaxTries
  /\ \A f \in File : news[f] = "tiled" =>
       "again" \in upset \/ (tile[f] = "tiled" /\ task[f] = "over")
  /\ \A f \in File : news[f] = "failed" => tile[f] = "failed" \/ tries[f] > 0

\* A task is of a file that was sent.
Queued ==
  \A f \in File : task[f] # "none" =>
    \/ fate[f] \in {"sent", "failed"}
    \/ Busy /\ f = upload.file /\ upload.at = "confirmed"

Status ==
  /\ "crossed" \notin upset =>
       /\ Busy => step = "uploading"
       /\ step = "done" \/ (step = "failed" /\ ~failed) => tilingPano \in File
  /\ StatusOfShownPano

UploadInv == UploadTypeOK /\ Fresh /\ Sending /\ Undisturbed /\ News /\ Queued /\ Status

LEMMA UploadInitInv == UploadInit => UploadInv
<1> SUFFICES ASSUME UploadInit PROVE UploadInv OBVIOUS
<1>1. UploadTypeOK
  <2>1. files \in Seq(File) /\ index \in Nat \ {0} BY DEF UploadInit
  <2>2. upload \in UploadState \cup {Idle} BY DEF UploadInit
  <2>3. /\ step \in {"idle", "uploading", "tiling", "done", "failed"} /\ failed \in BOOLEAN
        /\ tilingPano \in File \cup {NoFile} /\ upset \subseteq {"chosen", "crossed", "missed", "again"}
        BY DEF UploadInit
  <2>4. /\ feed \in [File -> {"none", "connecting", "open", "closed"}]
        /\ news \in [File -> {"none", "tiled", "failed"}]
        /\ tile \in [File -> {"none", "open", "tiled", "failed"}]
        /\ task \in [File -> {"none", "on", "again", "over"}]
        /\ fate \in [File -> {"there", "waiting", "replaced", "sent", "failed"}]
        BY DEF UploadInit
  <2>5. tries \in [File -> 0..MaxTries] BY MapUploadAssumption DEF UploadInit
  <2> QED BY <2>1, <2>2, <2>3, <2>4, <2>5 DEF UploadTypeOK
<1>2. files = <<>> /\ Len(files) = 0 /\ DOMAIN files = {} /\ index = 1 /\ ~Busy
      BY DEF UploadInit, Busy
<1>3. Fresh /\ Sending BY <1>2 DEF Fresh, Sending
<1>4. Offered = {} BY <1>2 DEF Offered
<1>5. Undisturbed BY <1>2, <1>4 DEF UploadInit, Undisturbed
<1>6. News /\ Queued BY DEF UploadInit, News, Queued
<1>7. Status BY <1>2 DEF UploadInit, Status, StatusOfShownPano
<1> QED BY <1>1, <1>3, <1>5, <1>6, <1>7 DEF UploadInv

-----------------------------------------------------------------------------
(* What the lemmas about the actions rest on.                              *)

\* An upload under way has all its fields; none has the file of nobody.
LEMMA BusyState ==
  ASSUME UploadTypeOK
  PROVE  /\ Busy => upload \in UploadState
         /\ ~Busy => upload.file \notin File
BY MapUploadAssumption DEF UploadTypeOK, Busy, Idle

\* A choice that is not touched, and its files with it, keeps what concerns it.
LEMMA ChoiceUntouched ==
  ASSUME UploadInv, UNCHANGED <<files, index, fate>>,
         upset' \cap {"chosen"} = upset \cap {"chosen"},
         \/ upload' = upload
         \/ Busy /\ \E at \in {"url", "put", "confirm", "confirmed"} :
                       upload' = [upload EXCEPT !.at = at]
  PROVE  Fresh' /\ Sending' /\ Undisturbed'
<1>1. Fresh' BY DEF UploadInv, Fresh
<1>2. /\ Busy' <=> Busy
      /\ Busy => upload'.file = upload.file /\ upload'.count = upload.count
                 /\ upload'.index = upload.index
      BY BusyState, MapUploadAssumption DEF UploadInv, UploadState, Busy, Idle
<1>3. Busy => (SameChoice' <=> SameChoice) /\ (OtherChoice' <=> OtherChoice)
      BY <1>2 DEF SameChoice, OtherChoice
<1>4. Sending' BY <1>2, <1>3 DEF UploadInv, Sending
<1>5. Undisturbed' BY <1>2, <1>3 DEF UploadInv, Undisturbed, Offered
<1> QED BY <1>1, <1>4, <1>5

\* Going on after an upload, with what its caller knew.
LEMMA AdvanceKeeps ==
  ASSUME UploadInv, Busy, Advance, upload' = Idle, upset' = upset,
         NEW end \in {"sent", "failed"}, fate' = [fate EXCEPT ![upload.file] = end]
  PROVE  /\ files' \in Seq(File) /\ index' \in Nat \ {0}
         /\ fate' \in [File -> {"there", "waiting", "replaced", "sent", "failed"}]
         /\ Fresh' /\ Sending' /\ Undisturbed'
<1>1. /\ upload \in UploadState /\ upload.file \in File
      /\ upload.count \in Nat \ {0} /\ upload.index \in Nat \ {0}
      BY BusyState DEF UploadInv, UploadState
<1>2. /\ files \in Seq(File) /\ index \in Nat \ {0} /\ DOMAIN files = 1..Len(files)
      /\ Len(files) \in Nat /\ \A i \in DOMAIN files : files[i] \in File
      /\ fate \in [File -> {"there", "waiting", "replaced", "sent", "failed"}]
      BY DEF UploadInv, UploadTypeOK
<1>3. /\ fate'[upload.file] = end /\ \A f \in File \ {upload.file} : fate'[f] = fate[f]
      /\ fate' \in [File -> {"there", "waiting", "replaced", "sent", "failed"}]
      BY <1>1, <1>2
<1>4. ~Busy' BY DEF Busy
<1>5. SameChoice \/ OtherChoice BY DEF UploadInv, Sending
<1>6. CASE upload.count = 1 \/ upload.index + 1 > upload.count
  <2>1. files' = <<>> /\ index' = 1 BY <1>6 DEF Advance
  <2>2. Len(files') = 0 /\ DOMAIN files' = {} /\ files' \in Seq(File) BY <2>1
  <2>3. Fresh' BY <2>2 DEF Fresh
  <2>4. Undisturbed'
    <3> SUFFICES ASSUME "chosen" \notin upset
                 PROVE  Offered' = {f \in File : fate'[f] = "waiting"}
        BY <2>1, <1>4 DEF Undisturbed
    <3>1. SameChoice /\ Offered = {f \in File : fate[f] = "waiting"}
          BY DEF UploadInv, Undisturbed
    <3>2. /\ index = Len(files) /\ files[index] = upload.file
          BY <1>1, <1>2, <1>6, <3>1 DEF SameChoice, UploadInv, Undisturbed
    <3>3. Offered = {upload.file} BY <1>2, <3>2 DEF Offered
    <3>4. Offered' = {} BY <2>1, <2>2 DEF Offered
    <3> QED BY <1>3, <3>1, <3>3, <3>4
  <2> QED BY <1>3, <1>4, <2>1, <2>2, <2>3, <2>4 DEF Sending
<1>7. CASE ~(upload.count = 1 \/ upload.index + 1 > upload.count)
  <2>1. files' = files /\ index' = upload.index + 1 BY <1>7 DEF Advance
  <2>2. Fresh'
    <3>1. ASSUME NEW i \in DOMAIN files, i >= index' \/ Len(files) = 1
          PROVE  fate'[files[i]] = "waiting"
      <4>1. CASE OtherChoice BY <1>2, <1>3, <4>1 DEF OtherChoice
      <4>2. CASE SameChoice
        <5>1. Len(files) > 1 /\ index' = index + 1 /\ i > index
              BY <1>1, <1>2, <1>7, <2>1, <3>1, <4>2 DEF SameChoice
        <5>2. files[index] = upload.file /\ index \in DOMAIN files
              BY <1>1, <1>2, <1>7, <4>2 DEF SameChoice
        <5>3. files[i] # upload.file BY <1>2, <5>1, <5>2 DEF UploadInv, Fresh
        <5>4. fate[files[i]] = "waiting" BY <1>2, <5>1 DEF UploadInv, Fresh
        <5> QED BY <1>2, <1>3, <5>3, <5>4
      <4> QED BY <1>5, <4>1, <4>2
    <3> QED BY <2>1, <3>1 DEF UploadInv, Fresh
  <2>3. Undisturbed'
    <3> SUFFICES ASSUME "chosen" \notin upset
                 PROVE  /\ Offered' = {f \in File : fate'[f] = "waiting"}
                        /\ index' \in 1..Len(files')
        BY <1>4 DEF Undisturbed
    <3>1. SameChoice /\ Offered = {f \in File : fate[f] = "waiting"}
          BY DEF UploadInv, Undisturbed
    <3>2. /\ index' = index + 1 /\ index' \in 1..Len(files)
          /\ files[index] = upload.file /\ index \in DOMAIN files
          BY <1>1, <1>2, <1>7, <2>1, <3>1 DEF SameChoice
    <3>3. \A i \in (index + 1)..Len(files) : files[i] # upload.file
          BY <1>2, <3>2 DEF UploadInv, Fresh
    <3>4. Offered' = Offered \ {upload.file}
          BY <1>2, <2>1, <3>2, <3>3 DEF Offered
    <3> QED BY <1>3, <2>1, <3>1, <3>2, <3>4
  <2> QED BY <1>1, <1>2, <1>3, <1>4, <2>1, <2>2, <2>3 DEF Sending
<1> QED BY <1>6, <1>7

-----------------------------------------------------------------------------
(* One lemma for each action: it keeps the invariant.                      *)

LEMMA ChooseKeeps == ASSUME UploadInv, Choose PROVE UploadInv'
<1>1. PICK fs \in Picks :
        /\ \A i \in DOMAIN fs : fate[fs[i]] \in Unsent /\ fs[i] # upload.file
        /\ files' = fs /\ index' = 1
        /\ fate' = [f \in File |->
                      IF \E i \in DOMAIN fs : fs[i] = f THEN "waiting"
                      ELSE IF fate[f] = "waiting" /\ f # upload.file THEN "replaced" ELSE fate[f]]
      BY DEF Choose
<1>2. /\ upset' = IF Busy THEN upset \cup {"chosen"} ELSE upset \ {"chosen"}
      /\ UNCHANGED <<upload, step, failed, tilingPano, feed, news, tile, task, tries>>
      BY DEF Choose, serverSide
<1>3. /\ fs \in Seq(File) /\ DOMAIN fs = 1..Len(fs) /\ Len(fs) \in Nat
      /\ \A i \in DOMAIN fs : fs[i] \in File
      /\ \A i, j \in DOMAIN fs : fs[i] = fs[j] => i = j
      BY MapUploadAssumption
<1>4. fate \in [File -> {"there", "waiting", "replaced", "sent", "failed"}]
      BY DEF UploadInv, UploadTypeOK
<1>5. UploadTypeOK' BY <1>1, <1>2, <1>3, <1>4 DEF UploadInv, UploadTypeOK
<1>6. Fresh' BY <1>1, <1>3 DEF Fresh
<1>7. Busy' <=> Busy BY <1>2 DEF Busy
<1>8. Sending'
  <2> SUFFICES ASSUME Busy PROVE fate'[upload.file] = "waiting" /\ OtherChoice'
      BY <1>2, <1>7 DEF Sending
  <2>1. fate[upload.file] = "waiting" /\ upload.file \in File
        BY BusyState DEF UploadInv, Sending, UploadState
  <2>2. \A i \in DOMAIN fs : fs[i] # upload.file BY <1>1
  <2> QED BY <1>1, <1>2, <1>3, <2>1, <2>2 DEF OtherChoice
<1>9. Undisturbed'
  <2> SUFFICES ASSUME ~Busy
               PROVE  /\ Offered' = {f \in File : fate'[f] = "waiting"}
                      /\ (files' = <<>> /\ index' = 1) \/ index' \in 1..Len(files')
      BY <1>2, <1>7 DEF Undisturbed
  <2>1. upload.file \notin File BY BusyState DEF UploadInv
  <2>2. Offered' = {fs[i] : i \in DOMAIN fs} BY <1>1, <1>3 DEF Offered
  <2>3. \A f \in File : fate'[f] = "waiting" <=> \E i \in DOMAIN fs : fs[i] = f
        BY <1>1, <1>4, <2>1
  <2>4. Offered' = {f \in File : fate'[f] = "waiting"} BY <1>3, <2>2, <2>3
  <2>5. CASE Len(fs) = 0 BY <1>1, <1>3, <2>4, <2>5
  <2>6. CASE Len(fs) # 0 BY <1>1, <1>3, <2>4, <2>6
  <2> QED BY <2>5, <2>6
<1>10. \A f \in File : fate[f] \in {"sent", "failed"} => fate'[f] = fate[f]
      BY <1>1, <1>4 DEF Unsent
<1>11. News' /\ Queued' BY <1>2, <1>7, <1>10 DEF UploadInv, News, Queued
<1>12. Status' BY <1>2, <1>7 DEF UploadInv, Status, StatusOfShownPano
<1> QED BY <1>5, <1>6, <1>8, <1>9, <1>11, <1>12 DEF UploadInv

LEMMA BeginsKeeps ==
  ASSUME UploadInv, ~Busy, NEW i \in DOMAIN files, Begins(files[i]),
         \/ Len(files) = 1 /\ i = 1
         \/ Len(files) > 1 /\ i = index
  PROVE  UploadInv'
<1>1. /\ upload' = [file |-> files[i], count |-> Len(files), index |-> index, at |-> "url"]
      /\ step' = "uploading" /\ failed' = FALSE /\ upset' = upset \ {"crossed"}
      /\ UNCHANGED <<files, index, tilingPano, feed, news, tile, task, tries, fate>>
      BY DEF Begins, serverSide
<1>2. /\ files \in Seq(File) /\ index \in Nat \ {0} /\ DOMAIN files = 1..Len(files)
      /\ Len(files) \in Nat \ {0} /\ files[i] \in File
      BY DEF UploadInv, UploadTypeOK
<1>3. upload' \in UploadState BY <1>1, <1>2 DEF UploadState
<1>4. UploadTypeOK' BY <1>1, <1>3 DEF UploadInv, UploadTypeOK
<1>5. Fresh' BY <1>1 DEF UploadInv, Fresh
<1>6. fate[files[i]] = "waiting" BY <1>2 DEF UploadInv, Fresh
<1>7. SameChoice' BY <1>1, <1>2 DEF SameChoice
<1>8. Sending' BY <1>1, <1>6, <1>7 DEF Sending
<1>9. Undisturbed' BY <1>1, <1>7 DEF UploadInv, Undisturbed, Offered
<1>10. News' /\ Queued' BY <1>1 DEF UploadInv, News, Queued
<1>11. Status' BY <1>1 DEF Status, StatusOfShownPano
<1> QED BY <1>4, <1>5, <1>8, <1>9, <1>10, <1>11 DEF UploadInv

LEMMA SubmitFileKeeps == ASSUME UploadInv, SubmitFile PROVE UploadInv'
<1>1. 1 \in DOMAIN files BY DEF SubmitFile, UploadInv, UploadTypeOK
<1> QED BY <1>1, BeginsKeeps DEF SubmitFile

LEMMA PlaceFileKeeps == ASSUME UploadInv, PlaceFile PROVE UploadInv'
<1>1. index \in DOMAIN files BY DEF PlaceFile, UploadInv, UploadTypeOK
<1> QED BY <1>1, BeginsKeeps DEF PlaceFile

LEMMA RequestsKeeps == ASSUME UploadInv, Requests PROVE UploadInv'
<1>1. /\ Busy
      /\ UNCHANGED <<files, index, step, failed, tilingPano, feed, news, tries, fate, upset>>
      /\ upload \in UploadState /\ upload.file \in File
      BY BusyState DEF UploadInv, UploadState, Requests
<1>2. PICK at \in {"put", "confirm", "confirmed"} : upload' = [upload EXCEPT !.at = at]
      BY DEF Requests, Reaches
<1>3. /\ upload' \in UploadState /\ upload'.file = upload.file /\ upload'.at = at
      BY <1>1, <1>2 DEF UploadState
<1>4. Busy' BY <1>1, <1>3, MapUploadAssumption DEF Busy, Idle
<1>5. /\ upload.at # "confirmed"
      /\ tile' \in {tile, [tile EXCEPT ![upload.file] = "open"]}
      /\ \/ task' = task
         \/ upload'.at = "confirmed" /\ task' = [task EXCEPT ![upload.file] = "on"]
      BY <1>1, <1>2, <1>3 DEF Requests, Reaches, UploadState
<1>6. UploadTypeOK' BY <1>1, <1>3, <1>5 DEF UploadInv, UploadTypeOK
<1>7. Fresh' /\ Sending' /\ Undisturbed' BY <1>1, <1>2, ChoiceUntouched
<1>8. task[upload.file] = "none" /\ tile[upload.file] \in {"none", "open"}
  <2>1. fate[upload.file] = "waiting" BY <1>1 DEF UploadInv, Sending
  <2> QED BY <1>1, <1>5, <2>1 DEF UploadInv, UploadTypeOK, Queued, News
<1>9. /\ \A f \in File \ {upload.file} : tile'[f] = tile[f] /\ task'[f] = task[f]
      /\ task'[upload.file] \in {"none", "on"} /\ tile'[upload.file] \in {"none", "open"}
      BY <1>1, <1>5, <1>8 DEF UploadInv, UploadTypeOK
<1>10. News' BY <1>1, <1>8, <1>9 DEF UploadInv, News
<1>11. Queued' BY <1>1, <1>3, <1>4, <1>5, <1>8, <1>9 DEF UploadInv, Queued
<1>12. Status'
  <2>1. "crossed" \notin upset => step = "uploading" BY <1>1 DEF UploadInv, Status
  <2> QED BY <1>1, <2>1 DEF Status, StatusOfShownPano
<1> QED BY <1>6, <1>7, <1>10, <1>11, <1>12 DEF UploadInv

LEMMA ConfirmedKeeps == ASSUME UploadInv, Confirmed PROVE UploadInv'
<1>1. /\ Busy /\ Advance /\ upload' = Idle /\ step' = "tiling" /\ tilingPano' = upload.file
      /\ feed' = [feed EXCEPT ![upload.file] = "connecting"]
      /\ fate' = [fate EXCEPT ![upload.file] = "sent"]
      /\ UNCHANGED <<failed, news, tile, task, tries, upset>>
      BY DEF Confirmed
<1>2. upload.file \in File BY <1>1, BusyState DEF UploadInv, UploadState
<1>3. /\ files' \in Seq(File) /\ index' \in Nat \ {0}
      /\ fate' \in [File -> {"there", "waiting", "replaced", "sent", "failed"}]
      /\ Fresh' /\ Sending' /\ Undisturbed'
      BY <1>1, AdvanceKeeps
<1>4. UploadTypeOK' BY <1>1, <1>2, <1>3 DEF UploadInv, UploadTypeOK
<1>5. News' /\ Queued' BY <1>1, <1>2 DEF UploadInv, UploadTypeOK, News, Queued
<1>6. Status' BY <1>1 DEF Status, StatusOfShownPano, Busy
<1> QED BY <1>3, <1>4, <1>5, <1>6 DEF UploadInv

LEMMA UploadFailsKeeps == ASSUME UploadInv, UploadFails PROVE UploadInv'
<1>1. /\ Busy /\ Advance /\ upload' = Idle /\ step' = "failed" /\ failed' = TRUE
      /\ fate' = [fate EXCEPT ![upload.file] = "failed"]
      /\ UNCHANGED <<tilingPano, feed, news, tile, task, tries, upset>>
      BY DEF UploadFails, serverSide
<1>2. upload.file \in File BY <1>1, BusyState DEF UploadInv, UploadState
<1>3. /\ files' \in Seq(File) /\ index' \in Nat \ {0}
      /\ fate' \in [File -> {"there", "waiting", "replaced", "sent", "failed"}]
      /\ Fresh' /\ Sending' /\ Undisturbed'
      BY <1>1, AdvanceKeeps
<1>4. UploadTypeOK' BY <1>1, <1>3 DEF UploadInv, UploadTypeOK
<1>5. News' /\ Queued' BY <1>1, <1>2 DEF UploadInv, UploadTypeOK, News, Queued
<1>6. Status' BY <1>1 DEF Status, StatusOfShownPano, Busy
<1> QED BY <1>3, <1>4, <1>5, <1>6 DEF UploadInv

LEMMA FeedKeeps == ASSUME UploadInv, FeedOpens \/ FeedBreaks PROVE UploadInv'
<1>1. /\ UNCHANGED <<files, index, upload, step, failed, tilingPano, tile, task, tries, fate>>
      /\ upset' \in {upset, upset \cup {"missed"}}
      BY DEF FeedOpens, FeedBreaks
<1>2. PICK f \in File, s \in {"open", "closed"} :
        /\ feed' = [feed EXCEPT ![f] = s]
        /\ news' \in {news, [news EXCEPT ![f] = "none"]}
      BY DEF FeedOpens, FeedBreaks, Closes
<1>3. UploadTypeOK' BY <1>1, <1>2 DEF UploadInv, UploadTypeOK
<1>4. Fresh' /\ Sending' /\ Undisturbed' BY <1>1, ChoiceUntouched
<1>5. \A g \in File : news'[g] \in {"none", news[g]}
      BY <1>2 DEF UploadInv, UploadTypeOK
<1>6. News' /\ Queued' BY <1>1, <1>5 DEF UploadInv, News, Queued, Busy
<1>7. Status' BY <1>1 DEF UploadInv, Status, StatusOfShownPano, Busy
<1> QED BY <1>3, <1>4, <1>6, <1>7 DEF UploadInv

\* The server's part of a panorama f.
LEMMA TaskMoves ==
  ASSUME UploadInv, NEW f \in File, task[f] # "none", task[f] = "over" => "again" \in upset',
         UNCHANGED <<files, index, upload, step, failed, tilingPano, feed, fate>>,
         upset' \in {upset, upset \cup {"missed"}, upset \cup {"again"}},
         NEW end \in {"on", "again", "over"}, task' = [task EXCEPT ![f] = end],
         NEW s \in {"none", "open", "tiled", "failed"}, tile' = [tile EXCEPT ![f] = s],
         tries' \in [File -> 0..MaxTries], tries'[f] >= tries[f],
         \A g \in File \ {f} : tries'[g] = tries[g],
         tile[f] = "failed" => tries'[f] > 0,
         end = "on" => s = "open",
         end = "again" => tries'[f] < MaxTries,
         NEW n \in {"none", "tiled", "failed"}, news' = [news EXCEPT ![f] = n],
         \/ n = news[f]
         \/ n = "tiled" /\ s = "tiled" /\ end = "over"
         \/ n = "failed" /\ s = "failed"
  PROVE  UploadInv'
<1>1. /\ task \in [File -> {"none", "on", "again", "over"}]
      /\ tile \in [File -> {"none", "open", "tiled", "failed"}]
      /\ news \in [File -> {"none", "tiled", "failed"}]
      /\ tries \in [File -> 0..MaxTries] /\ MaxTries \in Nat
      BY MapUploadAssumption DEF UploadInv, UploadTypeOK
<1>2. UploadTypeOK' BY <1>1 DEF UploadInv, UploadTypeOK
<1>3. Fresh' /\ Sending' /\ Undisturbed' BY ChoiceUntouched
<1>4. /\ task'[f] = end /\ tile'[f] = s /\ news'[f] = n
      /\ \A g \in File \ {f} : /\ task'[g] = task[g] /\ tile'[g] = tile[g]
                               /\ news'[g] = news[g] /\ tries'[g] = tries[g]
      BY <1>1
<1>9. "again" \in upset => "again" \in upset' OBVIOUS
<1>5. (news[f] = "tiled" => "again" \in upset') /\ (news[f] = "failed" => tries'[f] > 0)
  <2>1. news[f] = "tiled" => "again" \in upset' BY <1>9 DEF UploadInv, News
  <2>2. news[f] = "failed" => tile[f] = "failed" \/ tries[f] > 0 BY DEF UploadInv, News
  <2>3. tries[f] \in Nat /\ tries'[f] \in Nat BY <1>1
  <2> QED BY <2>1, <2>2, <2>3
<1>6. News'
  <2>1. News BY DEF UploadInv
  <2>2. task'[f] \in {"none", "on"} => tile'[f] \in {"none", "open"} BY <1>4
  <2>3. task'[f] = "again" => tries'[f] < MaxTries BY <1>4
  <2>4. news'[f] = "tiled" =>
          "again" \in upset' \/ (tile'[f] = "tiled" /\ task'[f] = "over")
        BY <1>4, <1>5
  <2>5. news'[f] = "failed" => tile'[f] = "failed" \/ tries'[f] > 0 BY <1>4, <1>5
  <2>6. \A g \in File \ {f} :
          /\ task'[g] \in {"none", "on"} => tile'[g] \in {"none", "open"}
          /\ task'[g] = "again" => tries'[g] < MaxTries
          /\ news'[g] = "tiled" =>
               "again" \in upset' \/ (tile'[g] = "tiled" /\ task'[g] = "over")
          /\ news'[g] = "failed" => tile'[g] = "failed" \/ tries'[g] > 0
        BY <1>4, <1>9, <2>1 DEF News
  <2> QED BY <2>2, <2>3, <2>4, <2>5, <2>6 DEF News
<1>7. Queued' BY <1>4 DEF UploadInv, Queued, Busy
<1>8. Status'
  <2>1. /\ "crossed" \notin upset' <=> "crossed" \notin upset
        /\ step' = step /\ failed' = failed /\ tilingPano' = tilingPano /\ (Busy' <=> Busy)
        BY DEF Busy
  <2>2. SUFFICES ASSUME "crossed" \notin upset PROVE StatusOfShownPano'
        BY <2>1 DEF UploadInv, Status, StatusOfShownPano
  <2>3. ASSUME step = "done", "again" \notin upset'
        PROVE  tile'[tilingPano] = "tiled" /\ task'[tilingPano] = "over"
    <3>1. /\ tilingPano \in File /\ tile[tilingPano] = "tiled" /\ task[tilingPano] = "over"
          BY <1>9, <2>2, <2>3 DEF UploadInv, Status, StatusOfShownPano
    <3> QED BY <1>4, <2>3, <3>1
  <2>4. ASSUME step = "failed", ~failed
        PROVE  tile'[tilingPano] = "failed" \/ tries'[tilingPano] > 0
    <3>1. /\ tilingPano \in File
          /\ tile[tilingPano] = "failed" \/ tries[tilingPano] > 0
          BY <2>2, <2>4 DEF UploadInv, Status, StatusOfShownPano
    <3>2. tries[f] \in Nat /\ tries'[f] \in Nat BY <1>1
    <3>3. CASE tilingPano = f BY <3>1, <3>2, <3>3
    <3>4. CASE tilingPano # f BY <1>4, <3>1, <3>4
    <3> QED BY <3>3, <3>4
  <2> QED BY <2>1, <2>3, <2>4 DEF StatusOfShownPano
<1> QED BY <1>2, <1>3, <1>6, <1>7, <1>8 DEF UploadInv

LEMMA TaskEndsKeeps == ASSUME UploadInv, TaskEnds PROVE UploadInv'
<1>1. PICK f \in File, s \in {"tiled", "failed"}, end \in {"again", "over"} :
        /\ task[f] = "on" /\ tile' = [tile EXCEPT ![f] = s]
        /\ end = "again" => s = "failed" /\ tries[f] < MaxTries
        /\ task' = [task EXCEPT ![f] = end]
        /\ news' = [news EXCEPT ![f] = IF Told(f) THEN s ELSE @]
        /\ upset' \in {upset, upset \cup {"missed"}}
      BY DEF TaskEnds, Publish
<1>7. /\ UNCHANGED <<files, index, upload, step, failed, tilingPano, feed, fate>>
      /\ tries' = tries
      BY DEF TaskEnds
<1>8. /\ tries \in [File -> 0..MaxTries] /\ MaxTries \in Nat
      /\ tries[f] \in Nat /\ news[f] \in {"none", "tiled", "failed"}
      BY MapUploadAssumption DEF UploadInv, UploadTypeOK
<1>9. tile[f] # "failed" BY <1>1 DEF UploadInv, News
<1>2. /\ UNCHANGED <<files, index, upload, step, failed, tilingPano, feed, fate>>
      /\ tries' = tries /\ tries \in [File -> 0..MaxTries]
      /\ MaxTries \in Nat /\ tries[f] \in Nat /\ news[f] \in {"none", "tiled", "failed"}
      /\ tile[f] # "failed"
      BY <1>7, <1>8, <1>9
<1>3. PICK n \in {"none", "tiled", "failed"} :
        news' = [news EXCEPT ![f] = n] /\ (n = s \/ n = news[f])
  <2>1. CASE Told(f) BY <1>1, <2>1
  <2>2. CASE ~Told(f) BY <1>1, <1>2, <2>2
  <2> QED BY <2>1, <2>2
<1>4. tries'[f] >= tries[f] BY <1>2
<1>5. end = "again" => tries'[f] < MaxTries BY <1>1, <1>2
<1>6. n = news[f] \/ (n = "tiled" /\ s = "tiled" /\ end = "over") \/ (n = "failed" /\ s = "failed")
      BY <1>1, <1>3
<1> QED BY <1>1, <1>2, <1>3, <1>4, <1>5, <1>6, TaskMoves

LEMMA RerunsKeep ==
  ASSUME UploadInv, NEW f \in File, Reruns(f), tries[f] < MaxTries,
         \/ task[f] = "again" /\ upset' = upset
         \/ task[f] = "over" /\ upset' = upset \cup {"again"}
  PROVE  UploadInv'
<1>1. /\ task' = [task EXCEPT ![f] = "on"]
      /\ tries' = [tries EXCEPT ![f] = @ + 1] /\ tile' = [tile EXCEPT ![f] = "open"]
      BY DEF Reruns
<1>2. /\ UNCHANGED <<files, index, upload, step, failed, tilingPano, feed, fate>>
      /\ news' = news /\ news[f] \in {"none", "tiled", "failed"}
      /\ news \in [File -> {"none", "tiled", "failed"}]
      BY DEF Reruns, UploadInv, UploadTypeOK
<1>3. /\ tries \in [File -> 0..MaxTries] /\ MaxTries \in Nat
      BY MapUploadAssumption DEF UploadInv, UploadTypeOK
<1>4. /\ tries' \in [File -> 0..MaxTries] /\ tries'[f] = tries[f] + 1
      /\ \A g \in File \ {f} : tries'[g] = tries[g]
      BY <1>1, <1>3
<1>5. tries'[f] >= tries[f] /\ tries'[f] > 0 BY <1>3, <1>4
<1>6. news' = [news EXCEPT ![f] = news[f]] BY <1>2
<1> QED BY <1>1, <1>2, <1>4, <1>5, <1>6, TaskMoves

LEMMA TriesAgainKeeps == ASSUME UploadInv, TriesAgain PROVE UploadInv'
<1>1. PICK f \in File : task[f] = "again" /\ Reruns(f) /\ upset' = upset BY DEF TriesAgain
<1>2. tries[f] < MaxTries BY <1>1 DEF UploadInv, News
<1> QED BY <1>1, <1>2, RerunsKeep

LEMMA RedeliveredKeeps == ASSUME UploadInv, Redelivered PROVE UploadInv'
BY RerunsKeep DEF Redelivered

LEMMA TaskDiesKeeps == ASSUME UploadInv, TaskDies PROVE UploadInv'
<1>1. PICK f \in File :
        /\ task[f] = "on" /\ task' = [task EXCEPT ![f] = "over"]
        /\ tile' \in {tile, [tile EXCEPT ![f] = "tiled"], [tile EXCEPT ![f] = "failed"]}
      BY DEF TaskDies
<1>2. /\ UNCHANGED <<files, index, upload, step, failed, tilingPano, feed, fate>>
      /\ upset' = upset \cup {"missed"} /\ news' = news /\ tries' = tries
      /\ news \in [File -> {"none", "tiled", "failed"}]
      /\ tile \in [File -> {"none", "open", "tiled", "failed"}]
      /\ tries \in [File -> 0..MaxTries] /\ MaxTries \in Nat /\ tile[f] # "failed"
      BY <1>1, MapUploadAssumption DEF TaskDies, UploadInv, UploadTypeOK, News
<1>3. PICK s \in {"none", "open", "tiled", "failed"} : tile' = [tile EXCEPT ![f] = s]
  <2>1. tile = [tile EXCEPT ![f] = tile[f]] BY <1>2
  <2> QED BY <1>1, <1>2, <2>1
<1>4. news' = [news EXCEPT ![f] = news[f]] /\ news[f] \in {"none", "tiled", "failed"} BY <1>2
<1>5. tries'[f] >= tries[f] BY <1>2
<1> QED BY <1>1, <1>2, <1>3, <1>4, <1>5, TaskMoves

LEMMA NewsArrivesKeeps == ASSUME UploadInv, NewsArrives PROVE UploadInv'
<1>1. PICK f \in File :
        /\ news[f] # "none" /\ step' = StepOf(news[f])
        /\ feed' = [feed EXCEPT ![f] = "closed"] /\ news' = [news EXCEPT ![f] = "none"]
        /\ upset' = upset \cup (IF f # tilingPano \/ Busy THEN {"crossed"} ELSE {})
      BY DEF NewsArrives, Closes
<1>2. UNCHANGED <<files, index, upload, failed, tilingPano, tile, task, tries, fate>>
      BY DEF NewsArrives
<1>3. UploadTypeOK' BY <1>1, <1>2 DEF UploadInv, UploadTypeOK, StepOf
<1>4. Fresh' /\ Sending' /\ Undisturbed' BY <1>1, <1>2, ChoiceUntouched
<1>5. \A g \in File : news'[g] \in {"none", news[g]}
      BY <1>1 DEF UploadInv, UploadTypeOK
<1>9. "again" \in upset => "again" \in upset' BY <1>1
<1>6. News' /\ Queued' BY <1>2, <1>5, <1>9 DEF UploadInv, News, Queued, Busy
<1>7. /\ news[f] \in {"tiled", "failed"}
      /\ news[f] = "tiled" => "again" \in upset \/ (tile[f] = "tiled" /\ task[f] = "over")
      /\ news[f] = "failed" => tile[f] = "failed" \/ tries[f] > 0
      BY <1>1 DEF UploadInv, UploadTypeOK, News
<1>8. Status' BY <1>1, <1>2, <1>7 DEF Status, StatusOfShownPano, StepOf, Busy
<1> QED BY <1>3, <1>4, <1>6, <1>8 DEF UploadInv

LEMMA UploadNextInv == UploadInv /\ [UploadNext]_uploadVars => UploadInv'
<1> SUFFICES ASSUME UploadInv, [UploadNext]_uploadVars PROVE UploadInv' OBVIOUS
<1>1. CASE UploadProgress
      BY <1>1, RequestsKeeps, ConfirmedKeeps, UploadFailsKeeps, FeedKeeps, TaskEndsKeeps,
         TriesAgainKeeps, NewsArrivesKeeps
      DEF UploadProgress
<1>2. CASE Choose \/ SubmitFile \/ PlaceFile \/ FeedBreaks \/ TaskDies \/ Redelivered
      BY <1>2, ChooseKeeps, SubmitFileKeeps, PlaceFileKeeps, FeedKeeps, TaskDiesKeeps,
         RedeliveredKeeps
<1>3. CASE UNCHANGED uploadVars
  <2>1. /\ UNCHANGED <<files, index, upload, step, failed, tilingPano, fate, upset>>
        /\ UNCHANGED <<feed, news, tile, task, tries>>
        BY <1>3 DEF uploadVars, serverSide
  <2>2. Fresh' /\ Sending' /\ Undisturbed' BY <2>1, ChoiceUntouched
  <2> QED BY <2>1, <2>2
          DEF UploadInv, UploadTypeOK, News, Queued, Status, StatusOfShownPano, Busy
<1> QED BY <1>1, <1>2, <1>3 DEF UploadNext

\* However uploads, choices of files and the news of tiling overlap: nothing chosen
\* is skipped or sent twice unless it was chosen during an upload, and the status
\* shown is the one of the panorama named unless other news came in between or its
\* task ran again since (uploadSingle, uploadPano and handleUploadMapClick of
\* MapDetail; tile_panorama).
THEOREM UploadStaysInStep == UploadSpec => []UploadInStep
<1>1. UploadInv => UploadInStep
      BY DEF UploadInv, Undisturbed, Status, UploadInStep, OfferedOnce
<1> QED BY <1>1, UploadInitInv, UploadNextInv, PTL DEF UploadSpec

-----------------------------------------------------------------------------
(* MapPage: answers are versions of the server's floors and panoramas, and *)
(* the version of now is on the page or on its way.                        *)

Ever == Ids(floors) \cup editor.removed
PanoOp == {"upload", "move", "deletePano"}

\* The maps the page has, or may get: each the floors of some time.
Maps ==
  {[is |-> editor.floors, at |-> editor.mapOf]} \cup
  {g.answer : g \in {h \in loads : h.of = "map" /\ h.answer # None}}

\* The answers on their way to the list of the panoramas.
Lists == {g.answer : g \in {h \in loads : h.of = "panos" /\ h.answer # None}}

\* A floor that was deleted does not come back, and all that are spoken of are or were there.
FloorsKnown ==
  /\ editor.removed \cap Ids(floors) = {}
  /\ \A a \in Maps : Ids(a.is) \subseteq Ever
  /\ \A p \in Pano : panos[p] # None => panos[p].floor \in Ids(floors)
  /\ \A p \in Pano : editor.listed[p] # None => editor.listed[p].floor \in Ever
  /\ \A a \in Lists : \A p \in Pano : a.is[p] # None => a.is[p].floor \in Ever
  /\ editor.selected # None => editor.selected \in Ever

\* The highest number there is was given after as many floors.
Numbered ==
  /\ \A f \in floors : f.number <= f.id
  /\ \A a \in Maps : \A f \in a.is : f.number <= f.id

\* A version tells what was answered; floors that are there are in all later maps.
Versions ==
  /\ \A a \in Maps : a.at <= changes.map /\ (a.at = changes.map => a.is = floors)
  /\ \A a \in Lists : a.at <= changes.panos /\ (a.at = changes.panos => a.is = panos)
  /\ editor.listOf <= changes.panos
  /\ \A a, b \in Maps : a.at <= b.at => Ids(a.is) \cap Ids(floors) \subseteq Ids(b.is)

\* What the page shows or sends to is on its map, or deleted since.
OnMap ==
  /\ editor.floors # {} => editor.selected # None
  /\ "order" \notin odd =>
       /\ editor.selected # None => editor.selected \in Ids(editor.floors) \cup editor.removed
       /\ \A p \in Pano : panos[p] # None => panos[p].floor \in Ids(editor.floors)

\* The same of what the handler knows; a number it asks for follows one it has seen.
HandlerKnows ==
  action # None =>
    /\ Ids(action.known) \subseteq Ever
    /\ \A f \in action.known : f.number <= f.id
    /\ action.op = "addFloor" =>
         action.floor = 1 \/ \E f \in action.known : action.floor = f.number + 1
    /\ action.op = "upload" =>
         /\ action.floor \in Ever
         /\ "order" \in odd \/ action.floor \in Ids(editor.floors) \cup editor.removed

\* The map of now is shown, or on its way.
MapComes ==
  \/ "map" \in odd
  \/ editor.loaded /\ editor.mapOf = changes.map
  \/ \E g \in loads : g.of = "map" /\ (g.answer = None \/ g.answer.at = changes.map)
  \/ action # None /\ action.done /\ action.op \notin PanoOp

\* The panoramas of the floors that are there.
Agrees(is) ==
  \A p \in Pano : panos[p] # None \/ (is[p] # None /\ is[p].floor \in Ids(floors)) => is[p] = panos[p]

Solid(v) == \A a \in Lists : a.at >= v => Agrees(a.is)

\* They are shown, and no answer takes them away, or they are on their way.
PanosCome ==
  \/ odd \cap {"order", "panos"} # {}
  \/ Agrees(editor.listed) /\ Solid(editor.listOf)
  \/ \E g \in loads : g.of = "panos" /\ (g.answer = None \/ Solid(g.answer.at))
  \/ action # None /\ action.done /\ action.op \in PanoOp

MapInv ==
  /\ MapTypeOK /\ FloorsKnown /\ Numbered /\ Versions /\ OnMap /\ HandlerKnows
  /\ MapComes /\ PanosCome

\* The least of some numbers, by the well-foundedness of <.
LEMMA LeastNumber ==
  ASSUME NEW T, T \subseteq Nat, T # {}
  PROVE  \E x \in T : \A y \in T : x <= y
<1>1. PICK R : R = OpToRel(<, Nat) OBVIOUS
<1>2. IsWellFoundedOn(R, Nat) BY <1>1, NatLessThanWellFounded, Zenon
<1>3. PICK x \in T : \A y \in T : ~ (<<y, x>> \in R) BY <1>2, WFMin
<1>4. \A y \in T : ~ (y < x) BY <1>1, <1>3 DEF OpToRel
<1> QED BY <1>4

\* The highest number of a bounded set is one of them and none is higher.
LEMMA MaxIs ==
  ASSUME NEW n \in Nat, NEW S, S \subseteq 0..n, S # {}
  PROVE  Max(S) \in S /\ \A x \in S : x <= Max(S)
<1>1. PICK T : T = {n - x : x \in S} OBVIOUS
<1>2. T \subseteq Nat /\ T # {}
  <2>1. \A x \in S : x \in Nat /\ x <= n OBVIOUS
  <2>2. \A x \in S : n - x \in Nat BY <2>1
  <2> QED BY <1>1, <2>2
<1>3. PICK t \in T : \A y \in T : t <= y BY <1>2, LeastNumber
<1>4. PICK m \in S : t = n - m BY <1>1, <1>3
<1>5. \A x \in S : n - m <= n - x BY <1>1, <1>3, <1>4
<1>6. \A x \in S : m >= x BY <1>5
<1>7. Max(S) \in S /\ \A x \in S : Max(S) >= x BY <1>6 DEF Max
<1> QED BY <1>7

\* One of at most two is exchanged.
LEMMA Exchanged ==
  ASSUME NEW S, IsFiniteSet(S), Cardinality(S) <= 2, NEW g \in S, NEW h
  PROVE  /\ IsFiniteSet(S \ {g}) /\ Cardinality(S \ {g}) <= 2
         /\ IsFiniteSet((S \ {g}) \cup {h}) /\ Cardinality((S \ {g}) \cup {h}) <= 2
<1>1. IsFiniteSet(S \ {g}) /\ Cardinality(S \ {g}) = Cardinality(S) - 1
      BY FS_RemoveElement
<1>2. Cardinality(S) \in Nat /\ Cardinality(S \ {g}) \in Nat BY <1>1, FS_CardinalityType
<1>3. CASE h \in S \ {g}
  <2>1. (S \ {g}) \cup {h} = S \ {g} BY <1>3
  <2> QED BY <1>1, <1>2, <2>1
<1>4. CASE h \notin S \ {g}
  <2>1. IsFiniteSet((S \ {g}) \cup {h}) /\ Cardinality((S \ {g}) \cup {h}) = Cardinality(S \ {g}) + 1
        BY <1>1, <1>4, FS_AddElement
  <2> QED BY <1>1, <1>2, <2>1
<1> QED BY <1>3, <1>4

LEMMA MapRecords ==
  ASSUME MapTypeOK
  PROVE  /\ editor \in EditorRecord /\ editor.floors \subseteq FloorRecord
         /\ editor.loaded \in BOOLEAN /\ editor.mapOf \in 0..MaxChanges
         /\ editor.listed \in [Pano -> Or(PlaceOn)] /\ editor.listOf \in 0..MaxChanges
         /\ editor.selected \in Or(1..MaxFloors) /\ editor.drag \in Or(Pano)
         /\ editor.watched \in Or(PanosLoad({None})) /\ editor.removed \subseteq 1..MaxFloors
         /\ changes.map \in 0..MaxChanges /\ changes.panos \in 0..MaxChanges
         /\ MaxChanges \in Nat /\ MaxFloors \in Nat \ {0}
         /\ action # None => action \in ActionRecord
         /\ \A g \in loads : g.of = "map" =>
              g \in MapLoad /\ g.answer \in Or(MapAnswer) /\ g.filter \subseteq 1..MaxFloors
         /\ \A g \in loads : g.of # "map" =>
              /\ g \in PanosLoad(Or(PanosAnswer)) /\ g.of = "panos"
              /\ g.answer \in Or(PanosAnswer) /\ g.filter \subseteq 1..MaxFloors
         /\ floors \subseteq FloorRecord /\ panos \in [Pano -> Or(PlaceOn)]
<1>1. editor \in EditorRecord BY DEF MapTypeOK
<1>2. changes \in [map: 0..MaxChanges, panos: 0..MaxChanges] BY DEF MapTypeOK
<1>3. \A g \in loads : IF g.of = "map" THEN g \in MapLoad ELSE g \in PanosLoad(Or(PanosAnswer))
      BY DEF MapTypeOK
<1>4. \A g \in loads : g.of = "map" =>
        g \in MapLoad /\ g.answer \in Or(MapAnswer) /\ g.filter \subseteq 1..MaxFloors
      BY <1>3 DEF MapLoad
<1>5. \A g \in loads : g.of # "map" =>
              /\ g \in PanosLoad(Or(PanosAnswer)) /\ g.of = "panos"
              /\ g.answer \in Or(PanosAnswer) /\ g.filter \subseteq 1..MaxFloors
      BY <1>3 DEF PanosLoad
<1>6. action # None => action \in ActionRecord BY DEF MapTypeOK, Or
<1>7. floors \subseteq FloorRecord /\ panos \in [Pano -> Or(PlaceOn)] BY DEF MapTypeOK
<1>8. changes.map \in 0..MaxChanges /\ changes.panos \in 0..MaxChanges BY <1>2
<1>9. /\ editor.floors \subseteq FloorRecord
      /\ editor.loaded \in BOOLEAN /\ editor.mapOf \in 0..MaxChanges
      /\ editor.listed \in [Pano -> Or(PlaceOn)] /\ editor.listOf \in 0..MaxChanges
      /\ editor.selected \in Or(1..MaxFloors) /\ editor.drag \in Or(Pano)
      /\ editor.watched \in Or(PanosLoad({None})) /\ editor.removed \subseteq 1..MaxFloors
      BY <1>1 DEF EditorRecord
<1> QED BY <1>1, <1>4, <1>5, <1>6, <1>7, <1>8, <1>9, MapPageAssumption

LEMMA ActionFields ==
  ASSUME MapTypeOK, action # None
  PROVE  /\ action \in ActionRecord /\ action.floor \in Or(1..(MaxFloors + 1))
         /\ action.pano \in Or(Pano) /\ action.place \in Place
         /\ action.known \subseteq FloorRecord /\ action.done \in BOOLEAN
         /\ action.selected \in Or(1..MaxFloors)
<1>1. action \in ActionRecord BY DEF MapTypeOK, Or
<1> QED BY <1>1 DEF ActionRecord

\* What the versions are of.
LEMMA MapsAndLists ==
  ASSUME MapTypeOK
  PROVE  /\ \A a \in Maps : a.is \subseteq FloorRecord /\ a.at \in 0..MaxChanges
         /\ \A a \in Lists : a.is \in [Pano -> Or(PlaceOn)] /\ a.at \in 0..MaxChanges
         /\ \A g \in loads : g.of = "map" /\ g.answer # None => g.answer \in Maps
         /\ \A g \in loads : g.of = "panos" /\ g.answer # None => g.answer \in Lists
         /\ [is |-> editor.floors, at |-> editor.mapOf] \in Maps
<1>1. \A a \in Lists : a \in PanosAnswer BY MapRecords DEF Lists, Or
<1>2. [is |-> editor.floors, at |-> editor.mapOf] \in MapAnswer BY MapRecords DEF MapAnswer
<1>3. \A a \in Maps : a \in MapAnswer BY <1>2, MapRecords DEF Maps, Or
<1>4. \A a \in MapAnswer : a.is \subseteq FloorRecord /\ a.at \in 0..MaxChanges BY DEF MapAnswer
<1>5. \A a \in PanosAnswer : a.is \in [Pano -> Or(PlaceOn)] /\ a.at \in 0..MaxChanges
      BY DEF PanosAnswer
<1>6. \A g \in loads : g.of = "map" /\ g.answer # None => g.answer \in Maps BY DEF Maps
<1>7. \A g \in loads : g.of = "panos" /\ g.answer # None => g.answer \in Lists BY DEF Lists
<1>8. [is |-> editor.floors, at |-> editor.mapOf] \in Maps BY DEF Maps
<1> QED BY <1>1, <1>3, <1>4, <1>5, <1>6, <1>7, <1>8

NowMap == [is |-> floors, at |-> changes.map]
NowList == [is |-> panos, at |-> changes.panos]

\* Nothing the page knows is newer than the server.
LEMMA AnswersStay ==
  ASSUME MapInv, UNCHANGED <<floors, panos, changes>>, editor'.removed = editor.removed,
         Maps' \subseteq Maps \cup {NowMap}, Lists' \subseteq Lists \cup {NowList}
  PROVE  /\ \A a \in Maps' : Ids(a.is) \subseteq Ever'
         /\ \A a \in Lists' : \A p \in Pano : a.is[p] # None => a.is[p].floor \in Ever'
         /\ \A a \in Maps' : \A f \in a.is : f.number <= f.id
         /\ \A a \in Maps' : a.at <= changes.map /\ (a.at = changes.map => a.is = floors)
         /\ \A a \in Lists' : a.at <= changes.panos /\ (a.at = changes.panos => a.is = panos)
         /\ \A a, b \in Maps' : a.at <= b.at => Ids(a.is) \cap Ids(floors) \subseteq Ids(b.is)
<1>1. Ever' = Ever BY DEF Ever
<1>2. NowMap.is = floors /\ NowMap.at = changes.map BY DEF NowMap
<1>3. NowList.is = panos /\ NowList.at = changes.panos BY DEF NowList
<1>4. changes.map \in Nat /\ changes.panos \in Nat BY MapRecords DEF MapInv
<1>5. \A a \in Maps' : Ids(a.is) \subseteq Ever'
  <2>1. Ids(floors) \subseteq Ever BY DEF Ever
  <2>2. \A a \in Maps : Ids(a.is) \subseteq Ever BY DEF MapInv, FloorsKnown
  <2> QED BY <1>1, <1>2, <2>1, <2>2
<1>6. \A a \in Lists' : \A p \in Pano : a.is[p] # None => a.is[p].floor \in Ever'
  <2>1. \A p \in Pano : panos[p] # None => panos[p].floor \in Ever
        BY DEF MapInv, FloorsKnown, Ever
  <2>2. \A a \in Lists : \A p \in Pano : a.is[p] # None => a.is[p].floor \in Ever
        BY DEF MapInv, FloorsKnown
  <2> QED BY <1>1, <1>3, <2>1, <2>2
<1>7. \A a \in Maps' : \A f \in a.is : f.number <= f.id BY <1>2 DEF MapInv, Numbered
<1>8. \A a \in Maps' : a.at <= changes.map /\ (a.at = changes.map => a.is = floors)
      BY <1>2, <1>4 DEF MapInv, Versions
<1>9. \A a \in Lists' : a.at <= changes.panos /\ (a.at = changes.panos => a.is = panos)
      BY <1>3, <1>4 DEF MapInv, Versions
<1>10. ASSUME NEW a \in Maps', NEW b \in Maps', a.at <= b.at
       PROVE  Ids(a.is) \cap Ids(floors) \subseteq Ids(b.is)
  <2>1. a \in Maps \/ a = NowMap BY <1>10
  <2>2. b \in Maps \/ b = NowMap BY <1>10
  <2>3. CASE b = NowMap BY <1>2, <2>3
  <2>4. CASE b \in Maps /\ a \in Maps BY <1>10, <2>4 DEF MapInv, Versions
  <2>5. CASE b \in Maps /\ a = NowMap
    <3>1. b.at \in 0..MaxChanges BY <2>5, MapsAndLists DEF MapInv
    <3>2. b.at <= changes.map /\ (b.at = changes.map => b.is = floors)
          BY <2>5 DEF MapInv, Versions
    <3>3. b.at = changes.map BY <1>2, <1>4, <1>10, <2>5, <3>1, <3>2
    <3> QED BY <1>2, <3>2, <3>3
  <2> QED BY <2>1, <2>2, <2>3, <2>4, <2>5
<1> QED BY <1>5, <1>6, <1>7, <1>8, <1>9, <1>10

\* A step that only drags, watches, asks or answers leaves the page as it is.
LEMMA PageStays ==
  ASSUME MapInv, UNCHANGED <<floors, panos, changes>>, "order" \in odd' <=> "order" \in odd,
         editor'.floors = editor.floors, editor'.mapOf = editor.mapOf,
         editor'.listed = editor.listed, editor'.listOf = editor.listOf,
         editor'.selected = editor.selected, editor'.removed = editor.removed,
         Maps' \subseteq Maps \cup {NowMap}, Lists' \subseteq Lists \cup {NowList}
  PROVE  FloorsKnown' /\ Numbered' /\ Versions' /\ OnMap'
<1>1. Ever' = Ever BY DEF Ever
<1>2. FloorsKnown' BY <1>1, AnswersStay DEF MapInv, FloorsKnown
<1>3. Numbered' BY AnswersStay DEF MapInv, Numbered
<1>4. Versions' BY AnswersStay DEF MapInv, Versions
<1>5. OnMap' BY DEF MapInv, OnMap
<1> QED BY <1>2, <1>3, <1>4, <1>5

\* A list of now takes away none of the panoramas.
LEMMA SolidStays ==
  ASSUME UNCHANGED <<floors, panos>>, Lists' \subseteq Lists \cup {NowList}
  PROVE  /\ \A is : Agrees(is)' <=> Agrees(is)
         /\ \A v : Solid(v) => Solid(v)'
<1>1. \A is : Agrees(is)' <=> Agrees(is) BY DEF Agrees
<1>2. Agrees(NowList.is) BY DEF Agrees, NowList
<1>3. ASSUME NEW v, Solid(v) PROVE Solid(v)'
  <2>1. \A a \in Lists' : a.at >= v => Agrees(a.is) BY <1>2, <1>3 DEF Solid
  <2> QED BY <1>1, <2>1 DEF Solid
<1> QED BY <1>1, <1>3

\* The handler's knowledge stays with the page.
LEMMA HandlerStays ==
  ASSUME MapInv, UNCHANGED floors, "order" \in odd' <=> "order" \in odd,
         editor'.floors = editor.floors,
         editor'.removed = editor.removed,
         action' # None => /\ action # None /\ action'.known = action.known
                           /\ action'.op = action.op /\ action'.floor = action.floor
  PROVE  HandlerKnows'
<1>1. Ever' = Ever BY DEF Ever
<1> QED BY <1>1 DEF MapInv, HandlerKnows

-----------------------------------------------------------------------------
(* The GETs.                                                               *)

LEMMA ServeLoadKeeps == ASSUME MapInv, ServeLoad PROVE MapInv'
<1>1. PICK g \in loads :
       /\ g.answer = None
       /\ loads' = (loads \ {g}) \cup
            {[g EXCEPT !.answer = IF g.of = "map" THEN [is |-> floors, at |-> changes.map]
                                  ELSE [is |-> panos, at |-> changes.panos]]}
      BY DEF ServeLoad
<1>2. UNCHANGED <<floors, panos, changes, editor, action, odd>> BY DEF ServeLoad
<1>3. PICK h : h = [g EXCEPT !.answer = IF g.of = "map" THEN NowMap ELSE NowList] OBVIOUS
<1>4. loads' = (loads \ {g}) \cup {h} BY <1>1, <1>3 DEF NowMap, NowList
<1>5. NowMap \in MapAnswer /\ NowList \in PanosAnswer
      BY MapRecords DEF MapInv, NowMap, NowList, MapAnswer, PanosAnswer
<1>6. NowMap # None /\ NowList # None BY <1>5, NoneAssumption
<1>7. g.of = "map" => h \in MapLoad /\ h.of = "map" /\ h.answer = NowMap
      BY <1>3, <1>5, MapRecords DEF MapInv, MapLoad, Or
<1>8. g.of # "map" => h \in PanosLoad(Or(PanosAnswer)) /\ h.of = "panos" /\ h.answer = NowList
      BY <1>3, <1>5, MapRecords DEF MapInv, PanosLoad, Or
<1>9. \A k \in loads' : (k \in loads /\ k # g) \/ k = h BY <1>4
<1>10. h \in loads' /\ \A k \in loads : k = g \/ k \in loads' BY <1>4
<1>11. Maps' \subseteq Maps \cup {NowMap} BY <1>2, <1>7, <1>8, <1>9 DEF Maps
<1>12. Lists' \subseteq Lists \cup {NowList} BY <1>2, <1>7, <1>8, <1>9 DEF Lists
<1>13. MapTypeOK'
  <2>1. IsFiniteSet(loads') /\ Cardinality(loads') <= 2
        BY <1>4, Exchanged DEF MapInv, MapTypeOK
  <2>2. \A k \in loads' : IF k.of = "map" THEN k \in MapLoad ELSE k \in PanosLoad(Or(PanosAnswer))
        BY <1>7, <1>8, <1>9 DEF MapInv, MapTypeOK
  <2> QED BY <1>2, <2>1, <2>2 DEF MapInv, MapTypeOK
<1>14. FloorsKnown' /\ Numbered' /\ Versions' /\ OnMap' BY <1>2, <1>11, <1>12, PageStays
<1>15. HandlerKnows' BY <1>2, HandlerStays
<1>16. MapComes'
  <2>1. CASE g.of = "map"
    <3>1. h.of = "map" /\ h.answer.at = changes.map BY <1>7, <2>1 DEF NowMap
    <3> QED BY <1>2, <1>10, <3>1 DEF MapComes
  <2>2. CASE g.of # "map" BY <1>2, <1>10, <2>2 DEF MapInv, MapComes
  <2> QED BY <2>1, <2>2
<1>17. PanosCome'
  <2>1. (\A is : Agrees(is)' <=> Agrees(is)) /\ \A v : Solid(v) => Solid(v)'
        BY <1>2, <1>12, SolidStays
  <2>2. CASE g.of = "map" BY <1>2, <1>10, <2>1, <2>2 DEF MapInv, PanosCome
  <2>3. CASE g.of # "map"
    <3>1. h.of = "panos" /\ h.answer = NowList /\ h.answer.at = changes.panos
          BY <1>8, <2>3 DEF NowList
    <3>2. Solid(changes.panos)
      <4>1. \A a \in Lists : a.at >= changes.panos => a.is = panos
            BY MapsAndLists, MapRecords DEF MapInv, Versions
      <4> QED BY <4>1 DEF Solid, Agrees
    <3>3. Solid(h.answer.at)' BY <2>1, <3>1, <3>2
    <3> QED BY <1>10, <3>1, <3>3 DEF PanosCome
  <2> QED BY <2>2, <2>3
<1> QED BY <1>13, <1>14, <1>15, <1>16, <1>17 DEF MapInv

LEMMA EditorIs ==
  ASSUME MapTypeOK
  PROVE  editor = [floors |-> editor.floors, loaded |-> editor.loaded, mapOf |-> editor.mapOf,
                   listed |-> editor.listed, listOf |-> editor.listOf,
                   selected |-> editor.selected, drag |-> editor.drag,
                   watched |-> editor.watched, removed |-> editor.removed]
BY DEF MapTypeOK, EditorRecord

\* When no floor is selected, or none was, the one with the lowest number is.
LEMMA SelectionIs ==
  ASSUME MapInv, NEW fs, fs \subseteq FloorRecord, NEW sel
  PROVE  /\ Selection(fs, sel) \in Or(1..MaxFloors)
         /\ fs # {} => Selection(fs, sel) # None
         /\ Selection(fs, sel) = editor.selected \/ Selection(fs, sel) \in Ids(fs)
<1>1. CASE fs # {} /\ (editor.selected = None \/ sel = {})
  <2>1. \A f \in fs : f.number \in Nat /\ f.id \in 1..MaxFloors BY DEF FloorRecord
  <2>2. PICK T : T = {f.number : f \in fs} OBVIOUS
  <2>3. T \subseteq Nat /\ T # {} BY <1>1, <2>1, <2>2
  <2>4. PICK t \in T : \A y \in T : t <= y BY <2>3, LeastNumber
  <2>5. PICK f \in fs : t = f.number BY <2>2, <2>4
  <2>6. \A g \in fs : f.number <= g.number BY <2>2, <2>4, <2>5
  <2>7. PICK c : c = CHOOSE f1 \in fs : \A g \in fs : f1.number <= g.number OBVIOUS
  <2>8. c \in fs BY <2>6, <2>7
  <2>9. Selection(fs, sel) = c.id BY <1>1, <2>7 DEF Selection
  <2>10. c.id \in Ids(fs) /\ c.id \in 1..MaxFloors BY <2>1, <2>8 DEF Ids
  <2> QED BY <2>9, <2>10, MapPageAssumption DEF Or
<1>2. CASE ~(fs # {} /\ (editor.selected = None \/ sel = {}))
  <2>1. Selection(fs, sel) = editor.selected BY <1>2 DEF Selection
  <2> QED BY <1>2, <2>1, MapRecords DEF MapInv
<1> QED BY <1>1, <1>2

LEMMA MapLoadedKeeps ==
  ASSUME MapInv, UNCHANGED <<floors, panos, changes, action>>, NEW g \in loads, g.answer # None,
         MapLoaded(g)
  PROVE  MapInv'
<1>1. /\ g.of = "map"
      /\ editor' = [editor EXCEPT !.floors = g.answer.is, !.loaded = TRUE, !.mapOf = g.answer.at,
                                  !.selected = Selection(g.answer.is, g.filter)]
      /\ loads' = (loads \ {g}) \cup (IF editor.loaded THEN {} ELSE {LoadPanos(g.answer.is)})
      BY DEF MapLoaded
<1>2. PICK a : a = g.answer OBVIOUS
<1>3. /\ a \in MapAnswer /\ a.is \subseteq FloorRecord /\ a.at \in 0..MaxChanges /\ a \in Maps
      /\ a = [is |-> a.is, at |-> a.at]
      BY <1>1, <1>2, MapRecords, MapsAndLists DEF MapInv, Or, MapAnswer
<1>4. PICK s : s = Selection(a.is, g.filter) OBVIOUS
<1>5. /\ s \in Or(1..MaxFloors) /\ (a.is # {} => s # None)
      /\ s # None => s = editor.selected \/ s \in Ids(a.is)
      BY <1>3, <1>4, SelectionIs
<1>6. editor' = [floors |-> a.is, loaded |-> TRUE, mapOf |-> a.at,
                 listed |-> editor.listed, listOf |-> editor.listOf, selected |-> s,
                 drag |-> editor.drag, watched |-> editor.watched, removed |-> editor.removed]
      BY <1>1, <1>2, <1>4, EditorIs DEF MapInv
<1>7. /\ editor'.floors = a.is /\ editor'.loaded = TRUE /\ editor'.mapOf = a.at
      /\ editor'.listed = editor.listed /\ editor'.listOf = editor.listOf
      /\ editor'.selected = s /\ editor'.removed = editor.removed
      BY <1>6
<1>8. editor' \in EditorRecord
      BY <1>3, <1>5, <1>6, MapRecords DEF MapInv, EditorRecord
<1>9. \A k \in loads' : (k \in loads /\ k # g) \/ (k = LoadPanos(a.is) /\ ~editor.loaded)
      BY <1>1, <1>2
<1>10. /\ LoadPanos(a.is) \in PanosLoad(Or(PanosAnswer)) /\ LoadPanos(a.is).of = "panos"
       /\ LoadPanos(a.is).answer = None
  <2>1. Ids(a.is) \subseteq 1..MaxFloors BY <1>3 DEF Ids, FloorRecord
  <2> QED BY <2>1 DEF LoadPanos, PanosLoad, Or
<1>11. \A k \in loads : k = g \/ k \in loads' BY <1>1
<1>12. Maps' \subseteq Maps
  <2>1. [is |-> editor'.floors, at |-> editor'.mapOf] \in Maps BY <1>3, <1>7
  <2> QED BY <1>9, <1>10, <2>1 DEF Maps
<1>13. Lists' \subseteq Lists BY <1>9, <1>10 DEF Lists
<1>14. /\ odd' \subseteq odd \cup {"map", "order"} /\ odd \ {"map"} \subseteq odd'
       /\ a.at < editor.mapOf => "map" \in odd' /\ "order" \in odd'
       /\ "map" \in odd => "map" \in odd' \/ a.at = changes.map
  <2>1. odd' = Behind("map", a.at < editor.mapOf, a.at = changes.map)
                 \cup (IF a.at < editor.mapOf THEN {"order"} ELSE {})
        BY <1>2 DEF MapLoaded
  <2>2. CASE a.at < editor.mapOf
    <3>1. odd' = odd \cup {"map"} \cup {"order"} BY <2>1, <2>2 DEF Behind
    <3> QED BY <3>1
  <2>3. CASE ~(a.at < editor.mapOf) /\ a.at = changes.map
    <3>1. odd' = odd \ {"map"} BY <2>1, <2>3 DEF Behind
    <3> QED BY <2>3, <3>1
  <2>4. CASE ~(a.at < editor.mapOf) /\ a.at # changes.map
    <3>1. odd' = odd BY <2>1, <2>4 DEF Behind
    <3> QED BY <2>4, <3>1
  <2> QED BY <2>2, <2>3, <2>4
<1>15. /\ "order" \notin odd' => "order" \notin odd /\ a.at >= editor.mapOf
       /\ "map" \notin odd' => a.at >= editor.mapOf
       BY <1>3, <1>14, MapRecords DEF MapInv
<1>16. MapTypeOK'
  <2>1. IsFiniteSet(loads') /\ Cardinality(loads') <= 2
    <3>1. loads' = loads \ {g} \/ loads' = (loads \ {g}) \cup {LoadPanos(a.is)} BY <1>1, <1>2
    <3>2. IsFiniteSet(loads) /\ Cardinality(loads) <= 2 BY DEF MapInv, MapTypeOK
    <3>3. /\ IsFiniteSet(loads \ {g}) /\ Cardinality(loads \ {g}) <= 2
          /\ IsFiniteSet((loads \ {g}) \cup {LoadPanos(a.is)})
          /\ Cardinality((loads \ {g}) \cup {LoadPanos(a.is)}) <= 2
          BY <3>2, Exchanged
    <3> QED BY <3>1, <3>3
  <2>2. \A k \in loads' : IF k.of = "map" THEN k \in MapLoad ELSE k \in PanosLoad(Or(PanosAnswer))
        BY <1>9, <1>10 DEF MapInv, MapTypeOK
  <2>3. odd' \subseteq {"order", "map", "panos"} BY <1>14 DEF MapInv, MapTypeOK
  <2> QED BY <1>8, <2>1, <2>2, <2>3 DEF MapInv, MapTypeOK
<1>17. Ever' = Ever BY <1>7 DEF Ever
<1>18. Ids(a.is) \subseteq Ever BY <1>3 DEF MapInv, FloorsKnown
<1>19. FloorsKnown'
  <2>1. s # None => s \in Ever BY <1>5, <1>18 DEF MapInv, FloorsKnown
  <2>2. \A b \in Maps' : Ids(b.is) \subseteq Ever' BY <1>7, <1>12, <1>13, AnswersStay
  <2>3. \A b \in Lists' : \A p \in Pano : b.is[p] # None => b.is[p].floor \in Ever'
        BY <1>7, <1>12, <1>13, AnswersStay
  <2> QED BY <1>7, <1>17, <2>1, <2>2, <2>3 DEF MapInv, FloorsKnown
<1>20. Numbered' BY <1>7, <1>12, <1>13, AnswersStay DEF MapInv, Numbered
<1>21. Versions' BY <1>7, <1>12, <1>13, AnswersStay DEF MapInv, Versions
<1>22. "order" \notin odd' => Ids(editor.floors) \cap Ids(floors) \subseteq Ids(a.is)
  <2>1. PICK e : e = [is |-> editor.floors, at |-> editor.mapOf] OBVIOUS
  <2>2. e \in Maps /\ e.is = editor.floors /\ e.at = editor.mapOf
        BY <2>1, MapsAndLists DEF MapInv
  <2>3. editor.mapOf \in Nat /\ a.at \in Nat BY <1>3, MapRecords DEF MapInv
  <2>4. "order" \notin odd' => e.at <= a.at BY <1>15, <2>2, <2>3
  <2> QED BY <1>3, <2>2, <2>4 DEF MapInv, Versions
<1>23. \A i : "order" \notin odd' /\ i \in Ever /\ i \in Ids(editor.floors) \cup editor.removed =>
         i \in Ids(a.is) \cup editor.removed
       BY <1>22 DEF Ever
<1>24. OnMap'
  <2>1. "order" \notin odd' /\ s # None => s \in Ids(a.is) \cup editor.removed
        BY <1>5, <1>15, <1>23 DEF MapInv, OnMap, FloorsKnown
  <2>2. "order" \notin odd' => \A p \in Pano : panos[p] # None => panos[p].floor \in Ids(a.is)
        BY <1>15, <1>22 DEF MapInv, OnMap, FloorsKnown
  <2> QED BY <1>5, <1>7, <2>1, <2>2 DEF OnMap
<1>25. HandlerKnows' BY <1>7, <1>15, <1>17, <1>23 DEF MapInv, HandlerKnows
<1>26. MapComes'
  <2>1. SUFFICES ASSUME "map" \notin odd', a.at # changes.map,
                        ~(action # None /\ action.done /\ action.op \notin PanoOp)
                 PROVE  \E k \in loads' : k.of = "map" /\ (k.answer = None \/ k.answer.at = changes.map)
        BY <1>7 DEF MapComes
  <2>2. a.at < changes.map /\ editor.mapOf <= a.at
        BY <1>3, <1>15, <2>1, MapRecords DEF MapInv, Versions
  <2>3. editor.mapOf # changes.map BY <1>3, <2>2, MapRecords DEF MapInv
  <2>4. PICK k \in loads : k.of = "map" /\ (k.answer = None \/ k.answer.at = changes.map)
        BY <1>14, <2>1, <2>3 DEF MapInv, MapComes
  <2>5. k # g BY <1>1, <1>2, <2>1, <2>4
  <2> QED BY <1>11, <2>4, <2>5
<1>27. PanosCome'
  <2>1. (\A is : Agrees(is)' <=> Agrees(is)) /\ \A v : Solid(v) => Solid(v)'
        BY <1>13, SolidStays
  <2>2. odd \cap {"order", "panos"} # {} => odd' \cap {"order", "panos"} # {} BY <1>14
  <2> QED BY <1>1, <1>7, <1>11, <2>1, <2>2 DEF MapInv, PanosCome
<1> QED BY <1>16, <1>19, <1>20, <1>21, <1>24, <1>25, <1>26, <1>27 DEF MapInv

\* A list in step stays so when it is filtered by floors that are all there are.
LEMMA FilteredAgrees ==
  ASSUME MapTypeOK, NEW is, Agrees(is), NEW ids,
         \A p \in Pano : panos[p] # None => panos[p].floor \in ids
  PROVE  Agrees(Filtered(is, ids))
<1>1. \A p \in Pano : Filtered(is, ids)[p] = IF is[p] # None /\ is[p].floor \in ids THEN is[p] ELSE None
      BY DEF Filtered
<1>2. ASSUME NEW p \in Pano,
             panos[p] # None \/ (Filtered(is, ids)[p] # None /\ Filtered(is, ids)[p].floor \in Ids(floors))
      PROVE  Filtered(is, ids)[p] = panos[p]
  <2>1. CASE panos[p] # None
    <3>1. is[p] = panos[p] BY <2>1 DEF Agrees
    <3> QED BY <1>1, <2>1, <3>1
  <2>2. CASE panos[p] = None
    <3>1. Filtered(is, ids)[p] = is[p] BY <1>1, <1>2, <2>2
    <3> QED BY <1>2, <2>2, <3>1 DEF Agrees
  <2> QED BY <2>1, <2>2
<1> QED BY <1>2 DEF Agrees

LEMMA PanosLoadedKeeps ==
  ASSUME MapInv, UNCHANGED <<floors, panos, changes, action>>, NEW g \in loads, g.answer # None,
         PanosLoaded(g)
  PROVE  MapInv'
<1>1. /\ g.of = "panos"
      /\ editor' = [editor EXCEPT !.listed = Filtered(g.answer.is, g.filter), !.listOf = g.answer.at]
      /\ loads' = loads \ {g}
      BY DEF PanosLoaded
<1>2. PICK a : a = g.answer OBVIOUS
<1>3. a \in Lists /\ a.is \in [Pano -> Or(PlaceOn)] /\ a.at \in 0..MaxChanges
      BY <1>1, <1>2, MapsAndLists DEF MapInv
<1>4. PICK l : l = Filtered(a.is, g.filter) OBVIOUS
<1>5. l \in [Pano -> Or(PlaceOn)] BY <1>3, <1>4 DEF Filtered, Or
<1>6. editor' = [floors |-> editor.floors, loaded |-> editor.loaded, mapOf |-> editor.mapOf,
                 listed |-> l, listOf |-> a.at, selected |-> editor.selected,
                 drag |-> editor.drag, watched |-> editor.watched, removed |-> editor.removed]
      BY <1>1, <1>2, <1>4, EditorIs DEF MapInv
<1>7. /\ editor'.floors = editor.floors /\ editor'.loaded = editor.loaded
      /\ editor'.mapOf = editor.mapOf /\ editor'.listed = l /\ editor'.listOf = a.at
      /\ editor'.selected = editor.selected /\ editor'.removed = editor.removed
      BY <1>6
<1>8. editor' \in EditorRecord BY <1>3, <1>5, <1>6, MapRecords DEF MapInv, EditorRecord
<1>9. \A k \in loads' : k \in loads BY <1>1
<1>10. \A k \in loads : k = g \/ k \in loads' BY <1>1
<1>11. Maps' \subseteq Maps BY <1>7, <1>9 DEF Maps
<1>12. Lists' \subseteq Lists BY <1>9 DEF Lists
<1>13. /\ odd' \subseteq odd \cup {"panos"} /\ odd \ {"panos"} \subseteq odd'
       /\ "panos" \notin odd' => ~(a.at < editor.listOf) /\ Ids(editor.floors) \subseteq g.filter
       /\ "panos" \notin odd' => "panos" \notin odd \/ a.at = changes.panos
  <2>1. PICK o \in BOOLEAN : o = (a.at < editor.listOf \/ ~(Ids(editor.floors) \subseteq g.filter))
        BY Zenon
  <2>2. odd' = Behind("panos", o, a.at = changes.panos) BY <1>2, <2>1 DEF PanosLoaded
  <2>3. CASE o
    <3>1. odd' = odd \cup {"panos"} BY <2>2, <2>3 DEF Behind
    <3> QED BY <3>1
  <2>4. CASE ~o /\ a.at = changes.panos
    <3>1. odd' = odd \ {"panos"} BY <2>2, <2>4 DEF Behind
    <3> QED BY <2>1, <2>4, <3>1
  <2>5. CASE ~o /\ a.at # changes.panos
    <3>1. odd' = odd BY <2>2, <2>5 DEF Behind
    <3> QED BY <2>1, <2>5, <3>1
  <2> QED BY <2>3, <2>4, <2>5
<1>14. MapTypeOK'
  <2>1. IsFiniteSet(loads') /\ Cardinality(loads') <= 2
        BY <1>1, Exchanged DEF MapInv, MapTypeOK
  <2>2. odd' \subseteq {"order", "map", "panos"} BY <1>13 DEF MapInv, MapTypeOK
  <2> QED BY <1>8, <1>9, <2>1, <2>2 DEF MapInv, MapTypeOK
<1>15. Ever' = Ever BY <1>7 DEF Ever
<1>16. FloorsKnown'
  <2>1. \A p \in Pano : l[p] # None => l[p].floor \in Ever
        BY <1>3, <1>4 DEF Filtered, MapInv, FloorsKnown
  <2>2. \A b \in Maps' : Ids(b.is) \subseteq Ever' BY <1>7, <1>11, <1>12, AnswersStay
  <2>3. \A b \in Lists' : \A p \in Pano : b.is[p] # None => b.is[p].floor \in Ever'
        BY <1>7, <1>11, <1>12, AnswersStay
  <2> QED BY <1>7, <1>15, <2>1, <2>2, <2>3 DEF MapInv, FloorsKnown
<1>17. Numbered' BY <1>7, <1>11, <1>12, AnswersStay DEF MapInv, Numbered
<1>18. Versions'
  <2>1. a.at <= changes.panos BY <1>3 DEF MapInv, Versions
  <2> QED BY <1>7, <1>11, <1>12, <2>1, AnswersStay DEF Versions
<1>19. OnMap' BY <1>7, <1>13 DEF MapInv, OnMap
<1>20. HandlerKnows' BY <1>7, <1>13, <1>15 DEF MapInv, HandlerKnows
<1>21. MapComes' BY <1>1, <1>7, <1>10, <1>13 DEF MapInv, MapComes
<1>22. PanosCome'
  <2>1. (\A is : Agrees(is)' <=> Agrees(is)) /\ \A v : Solid(v) => Solid(v)'
        BY <1>12, SolidStays
  <2>2. SUFFICES ASSUME odd' \cap {"order", "panos"} = {},
                        ~(action # None /\ action.done /\ action.op \in PanoOp),
                        ~\E k \in loads' : k.of = "panos" /\ (k.answer = None \/ Solid(k.answer.at))
                 PROVE  Agrees(l) /\ Solid(a.at)
        BY <1>7, <2>1 DEF PanosCome
  <2>3. "order" \notin odd /\ a.at >= editor.listOf /\ Ids(editor.floors) \subseteq g.filter
    <3>1. "order" \notin odd /\ ~(a.at < editor.listOf) /\ Ids(editor.floors) \subseteq g.filter
          BY <1>13, <2>2
    <3>2. a.at \in Nat /\ editor.listOf \in Nat BY <1>3, MapRecords DEF MapInv
    <3> QED BY <3>1, <3>2
  <2>4. Solid(a.at)
    <3>1. CASE Solid(editor.listOf)
      <4>1. \A b \in Lists : b.at >= a.at => b.at >= editor.listOf
            BY <1>3, <2>3, MapRecords, MapsAndLists DEF MapInv
      <4> QED BY <3>1, <4>1 DEF Solid
    <3>2. CASE \E k \in loads : k.of = "panos" /\ (k.answer = None \/ Solid(k.answer.at))
      <4>1. PICK k \in loads : k.of = "panos" /\ (k.answer = None \/ Solid(k.answer.at)) BY <3>2
      <4>2. k = g BY <1>10, <2>2, <4>1
      <4> QED BY <1>2, <4>1, <4>2
    <3>3. CASE a.at = changes.panos
      <4>1. \A b \in Lists : b.at >= a.at => b.is = panos
            BY <3>3, MapsAndLists, MapRecords DEF MapInv, Versions
      <4> QED BY <4>1 DEF Solid, Agrees
    <3>4. CASE a.at # changes.panos
      <4>1. odd \cap {"order", "panos"} = {} BY <1>13, <2>2, <2>3, <3>4
      <4> QED BY <2>2, <3>1, <3>2, <4>1 DEF MapInv, PanosCome
    <3> QED BY <3>3, <3>4
  <2>5. Agrees(a.is)
    <3>1. a.at >= a.at BY <1>3
    <3> QED BY <1>3, <2>4, <3>1 DEF Solid
  <2>6. \A p \in Pano : panos[p] # None => panos[p].floor \in g.filter
        BY <2>3 DEF MapInv, OnMap
  <2> QED BY <1>4, <2>4, <2>5, <2>6, FilteredAgrees DEF MapInv
<1> QED BY <1>14, <1>16, <1>17, <1>18, <1>19, <1>20, <1>21, <1>22 DEF MapInv

\* So does a GET that failed.
LEMMA LoadFailsKeeps == ASSUME MapInv, LoadFails PROVE MapInv'
<1>1. UNCHANGED <<floors, panos, changes, editor, action>> BY DEF LoadFails
<1>2. PICK g \in loads : g.answer = None /\ loads' = loads \ {g} /\ odd' = odd \cup {g.of}
      BY DEF LoadFails
<1>3. \A k \in loads : k = g \/ k \in loads' BY <1>2
<1>4. \A k \in loads' : k \in loads BY <1>2
<1>5. PICK o : o = g.of OBVIOUS
<1>6. o \in {"map", "panos"} /\ odd' = odd \cup {o} BY <1>2, <1>5, MapRecords DEF MapInv
<1>7. Maps' \subseteq Maps /\ Lists' \subseteq Lists BY <1>1, <1>4 DEF Maps, Lists
<1>8. MapTypeOK'
  <2>1. IsFiniteSet(loads') /\ Cardinality(loads') <= 2
        BY <1>2, Exchanged DEF MapInv, MapTypeOK
  <2>2. odd' \subseteq {"order", "map", "panos"} BY <1>6 DEF MapInv, MapTypeOK
  <2> QED BY <1>1, <1>4, <2>1, <2>2 DEF MapInv, MapTypeOK
<1>9. "order" \in odd' <=> "order" \in odd BY <1>6
<1>10. FloorsKnown' /\ Numbered' /\ Versions' /\ OnMap' BY <1>1, <1>7, <1>9, PageStays
<1>11. HandlerKnows' BY <1>1, <1>9, HandlerStays
<1>12. MapComes'
  <2>1. CASE o = "map" BY <1>6, <2>1 DEF MapComes
  <2>2. CASE o # "map"
    <3>1. "map" \in odd => "map" \in odd' BY <1>6
    <3> QED BY <1>1, <1>3, <1>5, <2>2, <3>1 DEF MapInv, MapComes
  <2> QED BY <2>1, <2>2
<1>13. PanosCome'
  <2>1. (\A is : Agrees(is)' <=> Agrees(is)) /\ \A v : Solid(v) => Solid(v)'
        BY <1>1, <1>7, SolidStays
  <2>2. CASE o = "panos" BY <1>6, <2>2 DEF PanosCome
  <2>3. CASE o # "panos"
    <3>1. odd \cap {"order", "panos"} # {} => odd' \cap {"order", "panos"} # {} BY <1>6
    <3> QED BY <1>1, <1>3, <1>5, <2>1, <2>3, <3>1 DEF MapInv, PanosCome
  <2> QED BY <2>2, <2>3
<1> QED BY <1>8, <1>10, <1>11, <1>12, <1>13 DEF MapInv

LEMMA LoadAnsweredKeeps == ASSUME MapInv, LoadAnswered PROVE MapInv'
BY MapLoadedKeeps, PanosLoadedKeeps DEF LoadAnswered

-----------------------------------------------------------------------------
(* The admin.                                                              *)

\* A request begins with the map on show, and with what its kind needs.
LEMMA AskKeeps ==
  ASSUME MapInv, NEW op, NEW fl, NEW p, NEW pl, Ask(op, fl, p, pl),
         [op |-> op, floor |-> fl, pano |-> p, place |-> pl, known |-> editor.floors,
          selected |-> editor.selected, done |-> FALSE] \in ActionRecord,
         editor' = editor \/ editor' = [editor EXCEPT !.drag = None],
         op = "addFloor" => fl = 1 \/ \E f \in editor.floors : fl = f.number + 1,
         op = "upload" => fl = editor.selected /\ editor.selected # None
  PROVE  MapInv'
<1>1. /\ action = None
      /\ action' = [op |-> op, floor |-> fl, pano |-> p, place |-> pl,
                    known |-> editor.floors, selected |-> editor.selected, done |-> FALSE]
      /\ UNCHANGED <<floors, panos, changes, loads, odd>>
      BY DEF Ask
<1>2. /\ action' \in ActionRecord /\ action'.op = op /\ action'.floor = fl
      /\ action'.known = editor.floors
      BY <1>1
<1>3. /\ editor'.floors = editor.floors /\ editor'.loaded = editor.loaded
      /\ editor'.mapOf = editor.mapOf /\ editor'.listed = editor.listed
      /\ editor'.listOf = editor.listOf /\ editor'.selected = editor.selected
      /\ editor'.removed = editor.removed /\ editor' \in EditorRecord
  <2>1. CASE editor' = editor BY <2>1, MapRecords DEF MapInv
  <2>2. CASE editor' = [editor EXCEPT !.drag = None]
    <3>1. editor' = [floors |-> editor.floors, loaded |-> editor.loaded, mapOf |-> editor.mapOf,
                     listed |-> editor.listed, listOf |-> editor.listOf,
                     selected |-> editor.selected, drag |-> None,
                     watched |-> editor.watched, removed |-> editor.removed]
          BY <2>2, EditorIs DEF MapInv
    <3> QED BY <3>1, MapRecords DEF MapInv, EditorRecord, Or
  <2> QED BY <2>1, <2>2
<1>4. Maps' = Maps /\ Lists' = Lists BY <1>1, <1>3 DEF Maps, Lists
<1>5. MapTypeOK' BY <1>1, <1>2, <1>3 DEF MapInv, MapTypeOK, Or
<1>6. FloorsKnown' /\ Numbered' /\ Versions' /\ OnMap' BY <1>1, <1>3, <1>4, PageStays
<1>7. HandlerKnows'
  <2>1. Ever' = Ever BY <1>1, <1>3 DEF Ever
  <2>2. PICK e : e = [is |-> editor.floors, at |-> editor.mapOf] OBVIOUS
  <2>3. e \in Maps /\ e.is = editor.floors BY <2>2, MapsAndLists DEF MapInv
  <2>4. Ids(editor.floors) \subseteq Ever /\ \A f \in editor.floors : f.number <= f.id
        BY <2>3 DEF MapInv, FloorsKnown, Numbered
  <2>5. op = "upload" => /\ fl \in Ever
                         /\ "order" \in odd \/ fl \in Ids(editor.floors) \cup editor.removed
        BY DEF MapInv, FloorsKnown, OnMap
  <2> QED BY <1>1, <1>2, <1>3, <2>1, <2>4, <2>5 DEF HandlerKnows
<1>8. MapComes' BY <1>1, <1>3 DEF MapInv, MapComes
<1>9. PanosCome'
  <2>1. (\A is : Agrees(is)' <=> Agrees(is)) /\ \A v : Solid(v) => Solid(v)'
        BY <1>1, <1>4, SolidStays
  <2> QED BY <1>1, <1>3, <2>1 DEF MapInv, PanosCome
<1> QED BY <1>5, <1>6, <1>7, <1>8, <1>9 DEF MapInv

\* The next number follows the highest one shown.
LEMMA NextNumberIs ==
  ASSUME MapTypeOK
  PROVE  /\ NextNumber \in 1..(MaxFloors + 1)
         /\ NextNumber = 1 \/ \E f \in editor.floors : NextNumber = f.number + 1
<1>1. PICK S : S = {f.number : f \in editor.floors} \cup {0} OBVIOUS
<1>2. \A f \in editor.floors : f.number \in 1..MaxFloors BY MapRecords DEF FloorRecord
<1>3. MaxFloors \in Nat \ {0} BY MapPageAssumption
<1>4. S \subseteq 0..MaxFloors /\ S # {} BY <1>1, <1>2, <1>3
<1>5. Max(S) \in S BY <1>3, <1>4, MaxIs
<1>6. PICK m \in S : m = Max(S) BY <1>5
<1>7. NextNumber = m + 1 BY <1>1, <1>6 DEF NextNumber
<1>8. m = 0 \/ \E f \in editor.floors : m = f.number BY <1>1
<1>9. m + 1 \in 1..(MaxFloors + 1) BY <1>3, <1>4
<1> QED BY <1>7, <1>8, <1>9

LEMMA AdminAsks ==
  ASSUME MapInv, \/ AddFloor \/ DeleteFloor \/ ReplaceImage \/ DeletePano
                 \/ UploadPano \/ EndDrag \/ SaveEdit
  PROVE  MapInv'
<1>1. editor.floors \subseteq FloorRecord /\ MaxFloors \in Nat \ {0} BY MapRecords DEF MapInv
<1>2. None \in Or(1..(MaxFloors + 1)) /\ None \in Or(Pano) /\ 0 \in Place BY DEF Or, Place
<1>3. \A f \in editor.floors : f.id \in 1..(MaxFloors + 1) /\ f.id \in Or(1..(MaxFloors + 1))
      BY <1>1 DEF FloorRecord, Or
<1>4. (\A p \in Pano : p \in Or(Pano)) /\ editor.selected \in Or(1..MaxFloors)
      BY MapRecords DEF MapInv, Or
<1>5. CASE AddFloor
  <2>1. PICK n : n = NextNumber OBVIOUS
  <2>2. Ask("addFloor", n, None, 0) /\ editor' = editor BY <1>5, <2>1 DEF AddFloor
  <2>3. n \in Or(1..(MaxFloors + 1)) /\ (n = 1 \/ \E f \in editor.floors : n = f.number + 1)
        BY <2>1, NextNumberIs DEF MapInv, Or
  <2>4. [op |-> "addFloor", floor |-> n, pano |-> None, place |-> 0, known |-> editor.floors,
         selected |-> editor.selected, done |-> FALSE] \in ActionRecord
        BY <1>1, <1>2, <1>4, <2>3 DEF ActionRecord
  <2> QED BY <2>2, <2>3, <2>4, AskKeeps
<1>6. CASE DeleteFloor
  <2>1. PICK f \in editor.floors : Ask("deleteFloor", f.id, None, 0) /\ editor' = editor
        BY <1>6 DEF DeleteFloor
  <2>2. PICK i : i = f.id OBVIOUS
  <2>3. Ask("deleteFloor", i, None, 0) BY <2>1, <2>2
  <2>4. [op |-> "deleteFloor", floor |-> i, pano |-> None, place |-> 0, known |-> editor.floors,
         selected |-> editor.selected, done |-> FALSE] \in ActionRecord
        BY <1>1, <1>2, <1>3, <1>4, <2>2 DEF ActionRecord
  <2> QED BY <2>1, <2>3, <2>4, AskKeeps
<1>7. CASE DeletePano
  <2>1. PICK p \in Pano : Ask("deletePano", None, p, 0) /\ editor' = editor
        BY <1>7 DEF DeletePano
  <2>2. [op |-> "deletePano", floor |-> None, pano |-> p, place |-> 0, known |-> editor.floors,
         selected |-> editor.selected, done |-> FALSE] \in ActionRecord
        BY <1>1, <1>2, <1>4 DEF ActionRecord
  <2> QED BY <2>1, <2>2, AskKeeps
<1>8. CASE UploadPano
  <2>1. PICK p \in Pano : /\ Ask("upload", editor.selected, p, 0) /\ editor' = editor
                          /\ editor.selected # None
        BY <1>8 DEF UploadPano
  <2>2. PICK s : s = editor.selected OBVIOUS
  <2>3. s \in Or(1..(MaxFloors + 1)) BY <1>1, <2>2, MapRecords DEF MapInv, Or
  <2>4. [op |-> "upload", floor |-> s, pano |-> p, place |-> 0, known |-> editor.floors,
         selected |-> editor.selected, done |-> FALSE] \in ActionRecord
        BY <1>1, <1>2, <1>4, <2>3 DEF ActionRecord
  <2>5. Ask("upload", s, p, 0) BY <2>1, <2>2
  <2> QED BY <2>1, <2>2, <2>4, <2>5, AskKeeps
<1>9. CASE EndDrag
  <2>1. PICK x \in Pointer : Ask("move", None, editor.drag, ToRelative(x)) BY <1>9 DEF EndDrag
  <2>2. editor.drag # None /\ editor' = [editor EXCEPT !.drag = None] BY <1>9 DEF EndDrag
  <2>3. PICK p : p = editor.drag OBVIOUS
  <2>4. PICK pl : pl = ToRelative(x) OBVIOUS
  <2>5. pl \in Place BY <2>1, <2>4 DEF ToRelative, Pointer, Place
  <2>6. p \in Or(Pano) BY <2>3, MapRecords DEF MapInv
  <2>7. [op |-> "move", floor |-> None, pano |-> p, place |-> pl, known |-> editor.floors,
         selected |-> editor.selected, done |-> FALSE] \in ActionRecord
        BY <1>1, <1>2, <1>4, <2>5, <2>6 DEF ActionRecord
  <2>8. Ask("move", None, p, pl) BY <2>1, <2>3, <2>4
  <2> QED BY <2>2, <2>7, <2>8, AskKeeps
<1>10. CASE SaveEdit \/ ReplaceImage
  <2>1. PICK op \in {"save", "image"} : Ask(op, None, None, 0) /\ editor' = editor
        BY <1>10 DEF SaveEdit, ReplaceImage
  <2>2. [op |-> op, floor |-> None, pano |-> None, place |-> 0, known |-> editor.floors,
         selected |-> editor.selected, done |-> FALSE] \in ActionRecord
        BY <1>1, <1>2, <1>4 DEF ActionRecord
  <2> QED BY <2>1, <2>2, AskKeeps
<1> QED BY <1>5, <1>6, <1>7, <1>8, <1>9, <1>10

LEMMA StartDragKeeps == ASSUME MapInv, StartDrag PROVE MapInv'
<1>1. PICK p \in Pano : editor' = [editor EXCEPT !.drag = p] BY DEF StartDrag
<1>2. UNCHANGED <<floors, panos, changes, loads, action, odd>> BY DEF StartDrag
<1>3. editor' = [floors |-> editor.floors, loaded |-> editor.loaded, mapOf |-> editor.mapOf,
                 listed |-> editor.listed, listOf |-> editor.listOf,
                 selected |-> editor.selected, drag |-> p,
                 watched |-> editor.watched, removed |-> editor.removed]
      BY <1>1, EditorIs DEF MapInv
<1>4. /\ editor'.floors = editor.floors /\ editor'.loaded = editor.loaded
      /\ editor'.mapOf = editor.mapOf /\ editor'.listed = editor.listed
      /\ editor'.listOf = editor.listOf /\ editor'.selected = editor.selected
      /\ editor'.removed = editor.removed
      BY <1>3
<1>5. editor' \in EditorRecord BY <1>3, MapRecords DEF MapInv, EditorRecord, Or
<1>6. Maps' = Maps /\ Lists' = Lists BY <1>2, <1>4 DEF Maps, Lists
<1>7. MapTypeOK' BY <1>2, <1>5 DEF MapInv, MapTypeOK
<1>8. FloorsKnown' /\ Numbered' /\ Versions' /\ OnMap' BY <1>2, <1>4, <1>6, PageStays
<1>9. HandlerKnows' BY <1>2, <1>4, HandlerStays
<1>10. MapComes' BY <1>2, <1>4 DEF MapInv, MapComes
<1>11. PanosCome'
  <2>1. (\A is : Agrees(is)' <=> Agrees(is)) /\ \A v : Solid(v) => Solid(v)'
        BY <1>2, <1>6, SolidStays
  <2> QED BY <1>2, <1>4, <2>1 DEF MapInv, PanosCome
<1> QED BY <1>7, <1>8, <1>9, <1>10, <1>11 DEF MapInv

LEMMA SelectFloorKeeps == ASSUME MapInv, SelectFloor PROVE MapInv'
<1>1. PICK f \in editor.floors : editor' = [editor EXCEPT !.selected = f.id] BY DEF SelectFloor
<1>2. UNCHANGED <<floors, panos, changes, loads, action, odd>> BY DEF SelectFloor
<1>3. PICK s : s = f.id OBVIOUS
<1>4. editor' = [floors |-> editor.floors, loaded |-> editor.loaded, mapOf |-> editor.mapOf,
                 listed |-> editor.listed, listOf |-> editor.listOf,
                 selected |-> s, drag |-> editor.drag,
                 watched |-> editor.watched, removed |-> editor.removed]
      BY <1>1, <1>3, EditorIs DEF MapInv
<1>5. /\ editor'.floors = editor.floors /\ editor'.loaded = editor.loaded
      /\ editor'.mapOf = editor.mapOf /\ editor'.listed = editor.listed
      /\ editor'.listOf = editor.listOf /\ editor'.selected = s
      /\ editor'.removed = editor.removed
      BY <1>4
<1>6. /\ s \in Ids(editor.floors) /\ s \in 1..MaxFloors /\ s # None
  <2>1. f \in FloorRecord BY MapRecords DEF MapInv
  <2> QED BY <1>3, <2>1, MapPageAssumption DEF Ids, FloorRecord
<1>7. editor' \in EditorRecord BY <1>4, <1>6, MapRecords DEF MapInv, EditorRecord, Or
<1>8. Maps' = Maps /\ Lists' = Lists BY <1>2, <1>5 DEF Maps, Lists
<1>9. MapTypeOK' BY <1>2, <1>7 DEF MapInv, MapTypeOK
<1>10. Ever' = Ever BY <1>2, <1>5 DEF Ever
<1>11. FloorsKnown'
  <2>1. PICK e : e = [is |-> editor.floors, at |-> editor.mapOf] OBVIOUS
  <2>2. e \in Maps /\ e.is = editor.floors BY <2>1, MapsAndLists DEF MapInv
  <2>3. s \in Ever BY <1>6, <2>2 DEF MapInv, FloorsKnown
  <2> QED BY <1>2, <1>5, <1>8, <1>10, <2>3 DEF MapInv, FloorsKnown
<1>12. Numbered' BY <1>2, <1>8 DEF MapInv, Numbered
<1>13. Versions' BY <1>2, <1>5, <1>8 DEF MapInv, Versions
<1>14. OnMap' BY <1>2, <1>5, <1>6 DEF MapInv, OnMap
<1>15. HandlerKnows' BY <1>2, <1>5, HandlerStays
<1>16. MapComes' BY <1>2, <1>5 DEF MapInv, MapComes
<1>17. PanosCome'
  <2>1. (\A is : Agrees(is)' <=> Agrees(is)) /\ \A v : Solid(v) => Solid(v)'
        BY <1>2, <1>8, SolidStays
  <2> QED BY <1>2, <1>5, <2>1 DEF MapInv, PanosCome
<1> QED BY <1>9, <1>11, <1>12, <1>13, <1>14, <1>15, <1>16, <1>17 DEF MapInv

LEMMA AdminActsKeep == ASSUME MapInv, AdminActs PROVE MapInv'
BY AdminAsks, StartDragKeeps, SelectFloorKeeps DEF AdminActs

-----------------------------------------------------------------------------
(* The server.                                                             *)

\* A floor added is new to everybody, and its number at most its id.
LEMMA NewFloorIs ==
  ASSUME MapInv, action # None, action.op = "addFloor", NewFloor
  PROVE  \E f \in FloorRecord :
           /\ floors' = floors \cup {f} /\ panos' = panos
           /\ f.id \notin Ever /\ f.number <= f.id
<1>1. PICK S : S = Ids(floors) \cup Ids(editor.floors) \cup editor.removed \cup {0} OBVIOUS
<1>2. PICK id : id = Max(S) + 1 OBVIOUS
<1>3. id <= MaxFloors /\ floors' = floors \cup {[id |-> id, number |-> action.floor]} /\ panos' = panos
      BY <1>1, <1>2 DEF NewFloor
<1>4. MaxFloors \in Nat BY MapPageAssumption
<1>5. Ids(floors) \subseteq 1..MaxFloors /\ Ids(editor.floors) \subseteq 1..MaxFloors
      BY MapRecords DEF MapInv, Ids, FloorRecord
<1>6. editor.removed \subseteq 1..MaxFloors BY MapRecords DEF MapInv
<1>7. S \subseteq 0..MaxFloors /\ S # {} BY <1>1, <1>4, <1>5, <1>6
<1>8. Max(S) \in S /\ \A x \in S : x <= Max(S) BY <1>4, <1>7, MaxIs
<1>9. PICK m \in S : m = Max(S) BY <1>8
<1>10. m \in 0..MaxFloors /\ id = m + 1 /\ \A x \in S : x <= m BY <1>2, <1>7, <1>8, <1>9
<1>11. \A x \in S : x \in Nat /\ x < id BY <1>4, <1>7, <1>10
<1>12. Ever \subseteq S BY <1>1 DEF Ever
<1>13. id \notin Ever BY <1>10, <1>11, <1>12
<1>14. id \in 1..MaxFloors BY <1>3, <1>4, <1>10
<1>15. action.floor \in 1..id
  <2>1. CASE action.floor = 1 BY <1>14, <2>1
  <2>2. CASE \E f \in action.known : action.floor = f.number + 1
    <3>1. PICK f \in action.known : action.floor = f.number + 1 BY <2>2
    <3>2. f.number \in 1..MaxFloors /\ f.id \in 1..MaxFloors
          BY <3>1, ActionFields DEF MapInv, FloorRecord
    <3>3. f.number <= f.id /\ f.id \in Ever BY <3>1 DEF MapInv, HandlerKnows, Ids
    <3>4. f.id < id BY <1>11, <1>12, <3>3
    <3> QED BY <1>4, <1>14, <3>1, <3>2, <3>3, <3>4
  <2> QED BY <2>1, <2>2 DEF MapInv, HandlerKnows
<1>16. PICK f : f = [id |-> id, number |-> action.floor] OBVIOUS
<1>17. f.id = id /\ f.number = action.floor /\ f.number <= f.id BY <1>4, <1>14, <1>15, <1>16
<1>18. action.floor \in 1..MaxFloors BY <1>4, <1>14, <1>15
<1>19. f \in FloorRecord BY <1>14, <1>16, <1>18 DEF FloorRecord
<1> QED BY <1>3, <1>13, <1>16, <1>17, <1>19

\* What a request changes: floors never return, panoramas stay on floors that are there.
LEMMA AddServed ==
  ASSUME MapInv, action # None, action.op = "addFloor", NewFloor
  PROVE  /\ floors' \subseteq FloorRecord /\ panos' = panos
         /\ Ids(floors) \subseteq Ids(floors') /\ Ids(floors') \cap editor.removed = {}
         /\ (Ids(floors') \ Ids(floors)) \cap Ever = {}
         /\ \A f \in floors' : f.number <= f.id
         /\ \A is : (\A p \in Pano : is[p] # None => is[p].floor \in Ever) /\ Agrees(is) => Agrees(is)'
<1>1. PICK f \in FloorRecord :
        /\ floors' = floors \cup {f} /\ panos' = panos
        /\ f.id \notin Ever /\ f.number <= f.id
      BY NewFloorIs
<1>2. floors' \subseteq FloorRecord BY <1>1, MapRecords DEF MapInv
<1>3. Ids(floors') = Ids(floors) \cup {f.id} BY <1>1 DEF Ids
<1>4. Ids(floors') \cap editor.removed = {} BY <1>1, <1>3 DEF Ever, MapInv, FloorsKnown
<1>5. (Ids(floors') \ Ids(floors)) \cap Ever = {} BY <1>1, <1>3
<1>6. \A g \in floors' : g.number <= g.id BY <1>1 DEF MapInv, Numbered
<1>7. \A is : (\A p \in Pano : is[p] # None => is[p].floor \in Ever) /\ Agrees(is) => Agrees(is)'
      BY <1>1, <1>3, <1>5 DEF Agrees
<1> QED BY <1>1, <1>2, <1>3, <1>4, <1>5, <1>6, <1>7

LEMMA RemoveServed ==
  ASSUME MapInv, RemoveFloor
  PROVE  /\ floors' \subseteq floors /\ panos' \in [Pano -> Or(PlaceOn)]
         /\ \A p \in Pano : panos'[p] # None => panos'[p] = panos[p] /\ panos'[p].floor \in Ids(floors')
         /\ \A is : Agrees(is) => Agrees(is)'
<1>1. /\ floors' = {f \in floors : f.id # action.floor}
      /\ panos' = [p \in Pano |-> IF panos[p] # None /\ panos[p].floor = action.floor THEN None
                                  ELSE panos[p]]
      BY DEF RemoveFloor
<1>2. Ids(floors') = Ids(floors) \ {action.floor} BY <1>1 DEF Ids
<1>3. panos \in [Pano -> Or(PlaceOn)] BY MapRecords DEF MapInv
<1>4. panos' \in [Pano -> Or(PlaceOn)] BY <1>1, <1>3 DEF Or
<1>5. ASSUME NEW p \in Pano, panos'[p] # None
      PROVE  panos'[p] = panos[p] /\ panos'[p].floor \in Ids(floors')
  <2>1. panos'[p] = panos[p] /\ panos[p].floor # action.floor BY <1>1, <1>5
  <2>2. panos[p].floor \in Ids(floors) BY <1>5, <2>1 DEF MapInv, FloorsKnown
  <2> QED BY <1>2, <2>1, <2>2
<1>6. ASSUME NEW is, Agrees(is), NEW p \in Pano,
             panos'[p] # None \/ (is[p] # None /\ is[p].floor \in Ids(floors'))
      PROVE  is[p] = panos'[p]
  <2>1. CASE panos'[p] # None
    <3>1. panos'[p] = panos[p] BY <1>5, <2>1
    <3> QED BY <1>6, <2>1, <3>1 DEF Agrees
  <2>2. CASE is[p] # None /\ is[p].floor \in Ids(floors')
    <3>1. is[p] = panos[p] BY <1>2, <1>6, <2>2 DEF Agrees
    <3>2. panos[p].floor # action.floor BY <1>2, <2>2, <3>1
    <3> QED BY <1>1, <3>1, <3>2
  <2> QED BY <1>6, <2>1, <2>2
<1>7. \A is : Agrees(is) => Agrees(is)' BY <1>6 DEF Agrees
<1> QED BY <1>1, <1>4, <1>5, <1>7

LEMMA PanoServed ==
  ASSUME MapInv, action # None, action.op \in PanoOp, Performed
  PROVE  /\ floors' = floors /\ panos' \in [Pano -> Or(PlaceOn)]
         /\ \A p \in Pano : panos'[p] # None =>
              /\ panos'[p].floor \in Ids(floors)
              /\ "order" \notin odd => panos'[p].floor \in Ids(editor.floors)
<1>1. panos \in [Pano -> Or(PlaceOn)] BY MapRecords DEF MapInv
<1>2. \A p \in Pano : panos[p] # None =>
        /\ panos[p] \in PlaceOn /\ panos[p].floor \in Ids(floors)
        /\ "order" \notin odd => panos[p].floor \in Ids(editor.floors)
      BY <1>1 DEF Or, MapInv, FloorsKnown, OnMap
<1>3. SUFFICES ASSUME NEW at, PanoTo(at),
                      action.pano \in Pano /\ at # None =>
                        /\ at \in PlaceOn /\ at.floor \in Ids(floors)
                        /\ "order" \notin odd => at.floor \in Ids(editor.floors)
               PROVE  /\ floors' = floors /\ panos' \in [Pano -> Or(PlaceOn)]
                      /\ \A p \in Pano : panos'[p] # None =>
                           /\ panos'[p].floor \in Ids(floors)
                           /\ "order" \notin odd => panos'[p].floor \in Ids(editor.floors)
  <2>1. CASE action.op = "upload"
    <3>1. action.floor \in Ids(floors) /\ PanoTo([floor |-> action.floor, place |-> 0])
          BY <2>1 DEF Performed
    <3>2. PICK at : at = [floor |-> action.floor, place |-> 0] OBVIOUS
    <3>3. action.floor \in 1..MaxFloors BY <3>1, MapRecords DEF MapInv, Ids, FloorRecord
    <3>4. at \in PlaceOn /\ at.floor = action.floor BY <3>2, <3>3 DEF PlaceOn, Place
    <3>5. "order" \notin odd => action.floor \in Ids(editor.floors)
          BY <2>1, <3>1 DEF MapInv, HandlerKnows, FloorsKnown
    <3>6. PanoTo(at) BY <3>1, <3>2
    <3> QED BY <1>3, <3>1, <3>4, <3>5, <3>6
  <2>2. CASE action.op = "move"
    <3>1. panos[action.pano] # None /\ PanoTo([panos[action.pano] EXCEPT !.place = action.place])
          BY <2>2 DEF Performed
    <3>2. PICK at : at = [panos[action.pano] EXCEPT !.place = action.place] OBVIOUS
    <3>3. action.place \in Place BY ActionFields DEF MapInv
    <3>4. ASSUME action.pano \in Pano
          PROVE  at \in PlaceOn /\ at.floor = panos[action.pano].floor
      <4>1. panos[action.pano] \in PlaceOn BY <1>2, <3>1, <3>4
      <4> QED BY <3>2, <3>3, <4>1 DEF PlaceOn
    <3>5. PanoTo(at) BY <3>1, <3>2
    <3> QED BY <1>2, <1>3, <3>1, <3>4, <3>5
  <2>3. CASE action.op = "deletePano"
    <3>1. PanoTo(None) BY <2>3 DEF Performed
    <3> QED BY <1>3, <3>1
  <2> QED BY <2>1, <2>2, <2>3 DEF PanoOp
<1>4. floors' = floors /\ panos' = [panos EXCEPT ![action.pano] = at] BY <1>3 DEF PanoTo
<1>5. \A p \in Pano : panos'[p] = panos[p] \/ (p = action.pano /\ panos'[p] = at) BY <1>1, <1>4
<1>6. panos' \in [Pano -> Or(PlaceOn)]
  <2>1. \A p \in Pano : panos'[p] \in Or(PlaceOn) BY <1>1, <1>3, <1>5 DEF Or
  <2> QED BY <1>1, <1>4, <2>1
<1> QED BY <1>2, <1>3, <1>4, <1>5, <1>6

\* All of them.
LEMMA ServedIs ==
  ASSUME MapInv, action # None, Performed
  PROVE  /\ floors' \subseteq FloorRecord /\ panos' \in [Pano -> Or(PlaceOn)]
         /\ Ids(floors') \cap (editor.removed \cup (Ids(floors) \ Ids(floors'))) = {}
         /\ (Ids(floors') \ Ids(floors)) \cap Ever = {}
         /\ \A f \in floors' : f.number <= f.id
         /\ \A p \in Pano : panos'[p] # None =>
              /\ panos'[p].floor \in Ids(floors')
              /\ "order" \notin odd => panos'[p].floor \in Ids(editor.floors)
         /\ action.op \in PanoOp => floors' = floors
         /\ action.op \notin PanoOp =>
              \A is : (\A p \in Pano : is[p] # None => is[p].floor \in Ever) /\ Agrees(is) => Agrees(is)'
<1>1. /\ floors \subseteq FloorRecord /\ panos \in [Pano -> Or(PlaceOn)]
      /\ Ids(floors) \cap editor.removed = {} /\ \A f \in floors : f.number <= f.id
      /\ \A p \in Pano : panos[p] # None =>
           /\ panos[p].floor \in Ids(floors)
           /\ "order" \notin odd => panos[p].floor \in Ids(editor.floors)
      BY MapRecords DEF MapInv, FloorsKnown, Numbered, OnMap
<1>2. CASE action.op = "addFloor"
  <2>1. NewFloor BY <1>2 DEF Performed
  <2>2. /\ floors' \subseteq FloorRecord /\ panos' = panos
        /\ Ids(floors) \subseteq Ids(floors') /\ Ids(floors') \cap editor.removed = {}
        /\ (Ids(floors') \ Ids(floors)) \cap Ever = {}
        /\ \A f \in floors' : f.number <= f.id
        /\ \A is : (\A p \in Pano : is[p] # None => is[p].floor \in Ever) /\ Agrees(is) => Agrees(is)'
        BY <1>2, <2>1, AddServed
  <2>3. Ids(floors') \cap (editor.removed \cup (Ids(floors) \ Ids(floors'))) = {} BY <2>2
  <2>4. action.op \notin PanoOp BY <1>2 DEF PanoOp
  <2>5. \A p \in Pano : panos'[p] # None =>
              /\ panos'[p].floor \in Ids(floors')
              /\ "order" \notin odd => panos'[p].floor \in Ids(editor.floors)
        BY <1>1, <2>2
  <2> QED BY <1>1, <2>2, <2>3, <2>4, <2>5
<1>3. CASE action.op = "deleteFloor"
  <2>1. RemoveFloor BY <1>3 DEF Performed
  <2>2. /\ floors' \subseteq floors /\ panos' \in [Pano -> Or(PlaceOn)]
        /\ \A p \in Pano : panos'[p] # None => panos'[p] = panos[p] /\ panos'[p].floor \in Ids(floors')
        /\ \A is : Agrees(is) => Agrees(is)'
        BY <2>1, RemoveServed
  <2>3. Ids(floors') \subseteq Ids(floors) BY <2>2 DEF Ids
  <2>4. action.op \notin PanoOp BY <1>3 DEF PanoOp
  <2>5. \A p \in Pano : panos'[p] # None =>
              /\ panos'[p].floor \in Ids(floors')
              /\ "order" \notin odd => panos'[p].floor \in Ids(editor.floors)
        BY <1>1, <2>2
  <2>6. Ids(floors') \cap (editor.removed \cup (Ids(floors) \ Ids(floors'))) = {} BY <1>1, <2>3
  <2>7. (Ids(floors') \ Ids(floors)) \cap Ever = {} BY <2>3
  <2>8. floors' \subseteq FloorRecord /\ \A f \in floors' : f.number <= f.id BY <1>1, <2>2
  <2> QED BY <2>2, <2>4, <2>5, <2>6, <2>7, <2>8
<1>4. CASE action.op \in PanoOp
  <2>1. /\ floors' = floors /\ panos' \in [Pano -> Or(PlaceOn)]
        /\ \A p \in Pano : panos'[p] # None =>
             /\ panos'[p].floor \in Ids(floors)
             /\ "order" \notin odd => panos'[p].floor \in Ids(editor.floors)
        BY <1>4, PanoServed
  <2>2. Ids(floors') = Ids(floors) BY <2>1
  <2> QED BY <1>1, <1>4, <2>1, <2>2
<1>5. CASE action.op \in {"image", "save"}
  <2>1. UNCHANGED <<floors, panos>> BY <1>5 DEF Performed
  <2>2. \A is : Agrees(is)' <=> Agrees(is) BY <2>1 DEF Agrees
  <2>3. Ids(floors') = Ids(floors) BY <2>1
  <2>4. action.op \notin PanoOp BY <1>5 DEF PanoOp
  <2> QED BY <1>1, <2>1, <2>2, <2>3, <2>4
<1> QED BY <1>2, <1>3, <1>4, <1>5, ActionFields DEF MapInv, ActionRecord, PanoOp

LEMMA ServeActionKeeps == ASSUME MapInv, ServeAction PROVE MapInv'
<1>1. /\ action # None /\ ~action.done /\ (action.op = "save" \/ ChangesMore) /\ Performed
      /\ action' = [action EXCEPT !.done = TRUE]
      /\ changes' = [map |-> IF floors' = floors THEN changes.map ELSE changes.map + 1,
                     panos |-> IF panos' = panos THEN changes.panos ELSE changes.panos + 1]
      /\ editor' = [editor EXCEPT !.removed = @ \cup (Ids(floors) \ Ids(floors'))]
      /\ UNCHANGED <<loads, odd>>
      BY DEF ServeAction
<1>2. /\ floors' \subseteq FloorRecord /\ panos' \in [Pano -> Or(PlaceOn)]
      /\ Ids(floors') \cap (editor.removed \cup (Ids(floors) \ Ids(floors'))) = {}
      /\ (Ids(floors') \ Ids(floors)) \cap Ever = {}
      /\ \A f \in floors' : f.number <= f.id
      /\ \A p \in Pano : panos'[p] # None =>
           /\ panos'[p].floor \in Ids(floors')
           /\ "order" \notin odd => panos'[p].floor \in Ids(editor.floors)
      /\ action.op \in PanoOp => floors' = floors
      /\ action.op \notin PanoOp =>
           \A is : (\A p \in Pano : is[p] # None => is[p].floor \in Ever) /\ Agrees(is) => Agrees(is)'
      BY <1>1, ServedIs
<1>3. PICK r : r = editor.removed \cup (Ids(floors) \ Ids(floors')) OBVIOUS
<1>4. editor' = [floors |-> editor.floors, loaded |-> editor.loaded, mapOf |-> editor.mapOf,
                 listed |-> editor.listed, listOf |-> editor.listOf,
                 selected |-> editor.selected, drag |-> editor.drag,
                 watched |-> editor.watched, removed |-> r]
      BY <1>1, <1>3, EditorIs DEF MapInv
<1>5. /\ editor'.floors = editor.floors /\ editor'.loaded = editor.loaded
      /\ editor'.mapOf = editor.mapOf /\ editor'.listed = editor.listed
      /\ editor'.listOf = editor.listOf /\ editor'.selected = editor.selected
      /\ editor'.removed = r
      BY <1>4
<1>6. Ids(floors) \subseteq 1..MaxFloors /\ r \subseteq 1..MaxFloors
      BY <1>3, MapRecords DEF MapInv, Ids, FloorRecord
<1>7. editor' \in EditorRecord BY <1>4, <1>6, MapRecords DEF MapInv, EditorRecord
<1>8. /\ action' \in ActionRecord /\ action' # None /\ action'.done
      /\ action'.op = action.op /\ action'.floor = action.floor /\ action'.known = action.known
  <2>1. action' \in ActionRecord /\ action'.done
        /\ action'.op = action.op /\ action'.floor = action.floor /\ action'.known = action.known
        BY <1>1, ActionFields DEF MapInv, ActionRecord
  <2> QED BY <2>1, NoneAssumption
<1>9. /\ changes.map \in 0..MaxChanges /\ changes.panos \in 0..MaxChanges /\ MaxChanges \in Nat
      BY MapRecords DEF MapInv
<1>10. /\ changes'.map = IF floors' = floors THEN changes.map ELSE changes.map + 1
       /\ changes'.panos = IF panos' = panos THEN changes.panos ELSE changes.panos + 1
       BY <1>1
<1>24. ChangesMore \/ (floors' = floors /\ panos' = panos) BY <1>1 DEF Performed
<1>25. changes.map + changes.panos < MaxChanges \/ (floors' = floors /\ panos' = panos)
       BY <1>24 DEF ChangesMore
<1>11. /\ changes.map <= changes'.map /\ changes'.map \in 0..MaxChanges
       /\ changes'.map = changes.map => floors' = floors
       BY <1>9, <1>10, <1>25
<1>12. /\ changes.panos <= changes'.panos /\ changes'.panos \in 0..MaxChanges
       /\ changes'.panos = changes.panos => panos' = panos
       BY <1>9, <1>10, <1>25
<1>13. changes' \in [map: 0..MaxChanges, panos: 0..MaxChanges]
  <2>1. changes' = [map |-> changes'.map, panos |-> changes'.panos] BY <1>1, <1>10
  <2> QED BY <1>11, <1>12, <2>1
<1>14. Maps' = Maps /\ Lists' = Lists BY <1>1, <1>5 DEF Maps, Lists
<1>15. Ever \subseteq Ever' BY <1>3, <1>5 DEF Ever
<1>16. MapTypeOK' BY <1>1, <1>2, <1>7, <1>8, <1>13 DEF MapInv, MapTypeOK, Or
<1>17. FloorsKnown'
  <2>1. \A a \in Maps' : Ids(a.is) \subseteq Ever' BY <1>14, <1>15 DEF MapInv, FloorsKnown
  <2>2. \A p \in Pano : editor.listed[p] # None => editor.listed[p].floor \in Ever'
        BY <1>15 DEF MapInv, FloorsKnown
  <2>3. \A a \in Lists' : \A p \in Pano : a.is[p] # None => a.is[p].floor \in Ever'
        BY <1>14, <1>15 DEF MapInv, FloorsKnown
  <2>4. editor.selected # None => editor.selected \in Ever' BY <1>15 DEF MapInv, FloorsKnown
  <2>5. r \cap Ids(floors') = {} BY <1>2, <1>3
  <2> QED BY <1>2, <1>5, <2>1, <2>2, <2>3, <2>4, <2>5 DEF FloorsKnown
<1>18. Numbered' BY <1>2, <1>14 DEF MapInv, Numbered
<1>19. Versions'
  <2>1. \A a \in Maps' : a.at <= changes'.map /\ (a.at = changes'.map => a.is = floors')
    <3>1. SUFFICES ASSUME NEW a \in Maps
                   PROVE  a.at <= changes'.map /\ (a.at = changes'.map => a.is = floors')
          BY <1>14
    <3>2. a.at \in Nat BY <3>1, MapsAndLists DEF MapInv
    <3>3. a.at <= changes.map /\ (a.at = changes.map => a.is = floors)
          BY <3>1 DEF MapInv, Versions
    <3>4. a.at <= changes'.map /\ (a.at = changes'.map => a.at = changes.map /\ changes'.map = changes.map)
          BY <1>9, <1>11, <3>2, <3>3
    <3> QED BY <1>11, <3>3, <3>4
  <2>2. \A a \in Lists' : a.at <= changes'.panos /\ (a.at = changes'.panos => a.is = panos')
    <3>1. SUFFICES ASSUME NEW a \in Lists
                   PROVE  a.at <= changes'.panos /\ (a.at = changes'.panos => a.is = panos')
          BY <1>14
    <3>2. a.at \in Nat BY <3>1, MapsAndLists DEF MapInv
    <3>3. a.at <= changes.panos /\ (a.at = changes.panos => a.is = panos)
          BY <3>1 DEF MapInv, Versions
    <3>4. a.at <= changes'.panos
          /\ (a.at = changes'.panos => a.at = changes.panos /\ changes'.panos = changes.panos)
          BY <1>9, <1>12, <3>2, <3>3
    <3> QED BY <1>12, <3>3, <3>4
  <2>3. editor'.listOf <= changes'.panos
    <3>1. editor.listOf \in Nat /\ editor.listOf <= changes.panos
          BY MapRecords DEF MapInv, Versions
    <3> QED BY <1>5, <1>9, <1>12, <3>1
  <2>4. ASSUME NEW a \in Maps, NEW b \in Maps, a.at <= b.at
        PROVE  Ids(a.is) \cap Ids(floors') \subseteq Ids(b.is)
    <3>1. Ids(a.is) \subseteq Ever BY <2>4 DEF MapInv, FloorsKnown
    <3>2. Ids(a.is) \cap Ids(floors') \subseteq Ids(a.is) \cap Ids(floors) BY <1>2, <3>1
    <3>3. Ids(a.is) \cap Ids(floors) \subseteq Ids(b.is) BY <2>4 DEF MapInv, Versions
    <3> QED BY <3>2, <3>3
  <2>5. \A a, b \in Maps' : a.at <= b.at => Ids(a.is) \cap Ids(floors') \subseteq Ids(b.is)
        BY <1>14, <2>4
  <2> QED BY <2>1, <2>2, <2>3, <2>5 DEF Versions
<1>20. OnMap' BY <1>1, <1>2, <1>3, <1>5 DEF MapInv, OnMap
<1>21. HandlerKnows' BY <1>1, <1>3, <1>5, <1>8, <1>15 DEF MapInv, HandlerKnows
<1>22. MapComes'
  <2>1. CASE action.op \in PanoOp
    <3>1. changes'.map = changes.map BY <1>2, <1>10, <2>1
    <3> QED BY <1>1, <1>5, <2>1, <3>1 DEF MapInv, MapComes
  <2>2. CASE action.op \notin PanoOp BY <1>8, <2>2 DEF MapComes
  <2> QED BY <2>1, <2>2
<1>23. PanosCome'
  <2>1. CASE action.op \in PanoOp BY <1>8, <2>1 DEF PanosCome
  <2>2. CASE action.op \notin PanoOp
    <3>1. \A is : (\A p \in Pano : is[p] # None => is[p].floor \in Ever) /\ Agrees(is) => Agrees(is)'
          BY <1>2, <2>2
    <3>2. Agrees(editor.listed) => Agrees(editor.listed)'
      <4>1. PICK l : l = editor.listed OBVIOUS
      <4>2. \A p \in Pano : l[p] # None => l[p].floor \in Ever BY <4>1 DEF MapInv, FloorsKnown
      <4>3. Agrees(l) => Agrees(l)' BY <3>1, <4>2
      <4> QED BY <1>5, <4>1, <4>3 DEF Agrees
    <3>3. ASSUME NEW v, Solid(v) PROVE Solid(v)'
      <4>1. \A a \in Lists : a.at >= v => Agrees(a.is)'
            BY <3>1, <3>3 DEF Solid, MapInv, FloorsKnown
      <4> QED BY <1>14, <4>1 DEF Solid, Agrees
    <3>4. \A v : Solid(v) => Solid(v)' BY <3>3
    <3> QED BY <1>1, <1>5, <2>2, <3>2, <3>4 DEF MapInv, PanosCome
  <2> QED BY <2>1, <2>2
<1> QED BY <1>16, <1>17, <1>18, <1>19, <1>20, <1>21, <1>22, <1>23 DEF MapInv

LEMMA FailActionKeeps == ASSUME MapInv, FailAction PROVE MapInv'
<1>1. /\ action # None /\ ~action.done /\ action' = None
      /\ UNCHANGED <<floors, panos, changes, editor, loads, odd>>
      BY DEF FailAction
<1>2. Maps' = Maps /\ Lists' = Lists BY <1>1 DEF Maps, Lists
<1>3. MapTypeOK' BY <1>1 DEF MapInv, MapTypeOK, Or
<1>4. FloorsKnown' /\ Numbered' /\ Versions' /\ OnMap' BY <1>1, <1>2, PageStays
<1>5. HandlerKnows' BY <1>1 DEF HandlerKnows
<1>6. MapComes' BY <1>1 DEF MapInv, MapComes
<1>7. PanosCome'
  <2>1. (\A is : Agrees(is)' <=> Agrees(is)) /\ \A v : Solid(v) => Solid(v)'
        BY <1>1, <1>2, SolidStays
  <2> QED BY <1>1, <2>1 DEF MapInv, PanosCome
<1> QED BY <1>3, <1>4, <1>5, <1>6, <1>7 DEF MapInv

\* What was done without an answer leaves the page behind.
LEMMA AnswerLostKeeps == ASSUME MapInv, AnswerLost PROVE MapInv'
<1>1. /\ action # None /\ action.done /\ action' = None
      /\ UNCHANGED <<floors, panos, changes, editor, loads>>
      BY DEF AnswerLost
<1>2. PICK w : w = IF action.op \in PanoOp THEN "panos" ELSE "map" OBVIOUS
<1>3. odd' = odd \cup {w} BY <1>2 DEF AnswerLost, PanoOp
<1>4. Maps' = Maps /\ Lists' = Lists BY <1>1 DEF Maps, Lists
<1>5. MapTypeOK' BY <1>1, <1>2, <1>3 DEF MapInv, MapTypeOK, Or
<1>6. "order" \in odd' <=> "order" \in odd BY <1>2, <1>3
<1>7. FloorsKnown' /\ Numbered' /\ Versions' /\ OnMap' BY <1>1, <1>4, <1>6, PageStays
<1>8. HandlerKnows' BY <1>1 DEF HandlerKnows
<1>9. MapComes'
  <2>1. CASE action.op \in PanoOp BY <1>1, <1>3, <2>1 DEF MapInv, MapComes
  <2>2. CASE action.op \notin PanoOp BY <1>2, <1>3, <2>2 DEF MapComes
  <2> QED BY <2>1, <2>2
<1>10. PanosCome'
  <2>1. (\A is : Agrees(is)' <=> Agrees(is)) /\ \A v : Solid(v) => Solid(v)'
        BY <1>1, <1>4, SolidStays
  <2>2. CASE action.op \in PanoOp BY <1>2, <1>3, <2>2 DEF PanosCome
  <2>3. CASE action.op \notin PanoOp
    <3>1. odd \cap {"order", "panos"} # {} => odd' \cap {"order", "panos"} # {} BY <1>3
    <3> QED BY <1>1, <2>1, <2>3, <3>1 DEF MapInv, PanosCome
  <2> QED BY <2>2, <2>3
<1> QED BY <1>5, <1>7, <1>8, <1>9, <1>10 DEF MapInv

-----------------------------------------------------------------------------
(* The handler goes on.                                                    *)

LEMMA LoadsAre ==
  /\ \A s \in Or(1..MaxFloors) :
       LoadMap(s) \in MapLoad /\ LoadMap(s).of = "map" /\ LoadMap(s).answer = None
  /\ \A fs : LoadPanos(fs).of = "panos" /\ LoadPanos(fs).answer = None
  /\ \A fs \in SUBSET FloorRecord :
       LoadPanos(fs) \in PanosLoad({None}) /\ LoadPanos(fs) \in PanosLoad(Or(PanosAnswer))
<1>1. ASSUME NEW s \in Or(1..MaxFloors)
      PROVE  LoadMap(s) \in MapLoad /\ LoadMap(s).of = "map" /\ LoadMap(s).answer = None
  <2>1. {s} \ {None} \subseteq 1..MaxFloors BY DEF Or
  <2> QED BY <2>1 DEF LoadMap, MapLoad, Or
<1>2. \A fs : LoadPanos(fs).of = "panos" /\ LoadPanos(fs).answer = None BY DEF LoadPanos
<1>3. ASSUME NEW fs \in SUBSET FloorRecord
      PROVE  LoadPanos(fs) \in PanosLoad({None}) /\ LoadPanos(fs) \in PanosLoad(Or(PanosAnswer))
  <2>1. Ids(fs) \subseteq 1..MaxFloors BY DEF Ids, FloorRecord
  <2> QED BY <2>1 DEF LoadPanos, PanosLoad, Or
<1> QED BY <1>1, <1>2, <1>3

\* One more GET is sent, at most two are open.
LEMMA AskedOnce ==
  ASSUME MapInv, NEW g, loads' = loads \cup {g}, Cardinality(loads') <= 2, g.answer = None,
         (g.of = "map" /\ g \in MapLoad) \/ (g.of = "panos" /\ g \in PanosLoad(Or(PanosAnswer))),
         UNCHANGED <<floors, panos, changes, odd>>, NEW w \in Or(PanosLoad({None})),
         editor' = [editor EXCEPT !.watched = w],
         action' = None \/ action' = action
  PROVE  /\ MapTypeOK' /\ FloorsKnown' /\ Numbered' /\ Versions' /\ OnMap' /\ HandlerKnows'
         /\ editor'.loaded = editor.loaded /\ editor'.mapOf = editor.mapOf
         /\ Agrees(editor.listed) => Agrees(editor.listed)'
         /\ Solid(editor.listOf) => Solid(editor.listOf)'
         /\ \A k \in loads : Solid(k.answer.at) => Solid(k.answer.at)'
<1>1. editor' = [floors |-> editor.floors, loaded |-> editor.loaded, mapOf |-> editor.mapOf,
                 listed |-> editor.listed, listOf |-> editor.listOf,
                 selected |-> editor.selected, drag |-> editor.drag,
                 watched |-> w, removed |-> editor.removed]
      BY EditorIs DEF MapInv
<1>2. /\ editor'.floors = editor.floors /\ editor'.loaded = editor.loaded
      /\ editor'.mapOf = editor.mapOf /\ editor'.listed = editor.listed
      /\ editor'.listOf = editor.listOf /\ editor'.selected = editor.selected
      /\ editor'.removed = editor.removed
      BY <1>1
<1>3. editor' \in EditorRecord BY <1>1, MapRecords DEF MapInv, EditorRecord
<1>4. Maps' = Maps /\ Lists' = Lists BY <1>2 DEF Maps, Lists
<1>5. MapTypeOK'
  <2>1. IsFiniteSet(loads') BY FS_AddElement DEF MapInv, MapTypeOK
  <2>2. \A k \in loads' : IF k.of = "map" THEN k \in MapLoad ELSE k \in PanosLoad(Or(PanosAnswer))
        BY DEF MapInv, MapTypeOK
  <2>3. action' \in Or(ActionRecord) BY DEF MapInv, MapTypeOK, Or
  <2> QED BY <1>3, <2>1, <2>2, <2>3 DEF MapInv, MapTypeOK
<1>6. FloorsKnown' /\ Numbered' /\ Versions' /\ OnMap' BY <1>2, <1>4, PageStays
<1>7. HandlerKnows' BY <1>2, HandlerStays
<1>8. (\A is : Agrees(is)' <=> Agrees(is)) /\ \A v : Solid(v) => Solid(v)'
      BY <1>4, SolidStays
<1>9. Agrees(editor.listed) => Agrees(editor.listed)' BY <1>2, <1>8 DEF Agrees
<1>10. Solid(editor.listOf) => Solid(editor.listOf)' BY <1>2, <1>8 DEF Solid, Agrees
<1> QED BY <1>2, <1>5, <1>6, <1>7, <1>8, <1>9, <1>10

LEMMA ActionAnsweredKeeps == ASSUME MapInv, ActionAnswered PROVE MapInv'
<1>1. /\ action # None /\ action.done /\ action' = None
      /\ UNCHANGED <<floors, panos, changes, odd>>
      /\ loads' = loads \cup Reloads /\ Cardinality(loads') <= 2
      /\ editor' = [editor EXCEPT !.watched = IF action.op = "upload"
                                                THEN LoadPanos(action.known) ELSE @]
      BY DEF ActionAnswered
<1>2. PICK g : g = IF action.op \in PanoOp THEN LoadPanos(action.known)
                   ELSE LoadMap(action.selected)
      OBVIOUS
<1>3. loads' = loads \cup {g} /\ g \in loads' BY <1>1, <1>2 DEF Reloads, PanoOp
<1>4. action.known \in SUBSET FloorRecord /\ action.selected \in Or(1..MaxFloors)
      BY <1>1, ActionFields DEF MapInv
<1>5. g.answer = None /\ (action.op \in PanoOp => g.of = "panos")
      /\ (action.op \notin PanoOp => g.of = "map")
      BY <1>2, <1>4, LoadsAre
<1>6. (g.of = "map" /\ g \in MapLoad) \/ (g.of = "panos" /\ g \in PanosLoad(Or(PanosAnswer)))
      BY <1>2, <1>4, LoadsAre
<1>7. PICK w : w = IF action.op = "upload" THEN LoadPanos(action.known) ELSE editor.watched
      OBVIOUS
<1>8. w \in Or(PanosLoad({None})) BY <1>4, <1>7, MapRecords, LoadsAre DEF MapInv, Or
<1>9. editor' = [editor EXCEPT !.watched = w] BY <1>1, <1>7
<1>10. /\ MapTypeOK' /\ FloorsKnown' /\ Numbered' /\ Versions' /\ OnMap' /\ HandlerKnows'
       /\ editor'.loaded = editor.loaded /\ editor'.mapOf = editor.mapOf
       /\ Agrees(editor.listed) => Agrees(editor.listed)'
       /\ Solid(editor.listOf) => Solid(editor.listOf)'
       /\ \A k \in loads : Solid(k.answer.at) => Solid(k.answer.at)'
       BY <1>1, <1>3, <1>5, <1>6, <1>8, <1>9, AskedOnce
<1>11. MapComes'
  <2>1. CASE action.op \in PanoOp BY <1>1, <1>3, <1>10, <2>1 DEF MapInv, MapComes
  <2>2. CASE action.op \notin PanoOp BY <1>3, <1>5, <2>2 DEF MapComes
  <2> QED BY <2>1, <2>2
<1>12. PanosCome'
  <2>1. CASE action.op \in PanoOp BY <1>3, <1>5, <2>1 DEF PanosCome
  <2>2. CASE action.op \notin PanoOp BY <1>1, <1>3, <1>10, <2>2 DEF MapInv, PanosCome
  <2> QED BY <2>1, <2>2
<1> QED BY <1>10, <1>11, <1>12 DEF MapInv

LEMMA TilingReportedKeeps == ASSUME MapInv, TilingReported PROVE MapInv'
<1>1. /\ editor.watched # None /\ loads' = loads \cup {editor.watched}
      /\ Cardinality(loads') <= 2 /\ editor' = [editor EXCEPT !.watched = None]
      /\ UNCHANGED <<floors, panos, changes, action, odd>>
      BY DEF TilingReported
<1>2. PICK g : g = editor.watched OBVIOUS
<1>3. g \in PanosLoad({None}) BY <1>1, <1>2, MapRecords DEF MapInv, Or
<1>4. g.of = "panos" /\ g.answer = None /\ g \in PanosLoad(Or(PanosAnswer))
      BY <1>3 DEF PanosLoad, Or
<1>5. None \in Or(PanosLoad({None})) BY DEF Or
<1>6. loads' = loads \cup {g} BY <1>1, <1>2
<1>7. /\ MapTypeOK' /\ FloorsKnown' /\ Numbered' /\ Versions' /\ OnMap' /\ HandlerKnows'
      /\ editor'.loaded = editor.loaded /\ editor'.mapOf = editor.mapOf
      BY <1>1, <1>4, <1>5, <1>6, AskedOnce
<1>8. MapComes' BY <1>1, <1>6, <1>7 DEF MapInv, MapComes
<1>9. PanosCome' BY <1>4, <1>6 DEF PanosCome
<1> QED BY <1>7, <1>8, <1>9 DEF MapInv

-----------------------------------------------------------------------------
(* The page shows the map.                                                 *)

LEMMA MapInitInv == MapInit => MapInv
<1> SUFFICES ASSUME MapInit PROVE MapInv OBVIOUS
<1>1. MaxFloors \in Nat \ {0} /\ MaxChanges \in Nat BY MapPageAssumption
<1>2. /\ floors = {} /\ panos = [p \in Pano |-> None]
      /\ changes = [map |-> 0, panos |-> 0]
      /\ editor = [floors |-> {}, loaded |-> FALSE, mapOf |-> 0, listed |-> [p \in Pano |-> None],
                   listOf |-> 0, selected |-> None, drag |-> None, watched |-> None, removed |-> {}]
      /\ loads = {[of |-> "map", filter |-> {}, answer |-> None]}
      /\ action = None /\ odd = {}
      BY DEF MapInit
<1>3. /\ editor.floors = {} /\ editor.listed = [p \in Pano |-> None] /\ editor.mapOf = 0
      /\ editor.listOf = 0 /\ editor.selected = None /\ editor.removed = {}
      /\ changes.map = 0 /\ changes.panos = 0
      BY <1>2
<1>4. 0 \in 0..MaxChanges BY <1>1
<1>5. MapTypeOK
  <2>1. [p \in Pano |-> None] \in [Pano -> Or(PlaceOn)] BY DEF Or
  <2>2. changes \in [map: 0..MaxChanges, panos: 0..MaxChanges] BY <1>2, <1>4
  <2>3. editor \in EditorRecord BY <1>2, <1>4, <2>1 DEF EditorRecord, Or
  <2>4. IsFiniteSet(loads) /\ Cardinality(loads) = 1 BY <1>2, FS_Singleton
  <2>5. \A g \in loads : IF g.of = "map" THEN g \in MapLoad ELSE g \in PanosLoad(Or(PanosAnswer))
        BY <1>2 DEF MapLoad, Or
  <2> QED BY <1>2, <2>1, <2>2, <2>3, <2>4, <2>5 DEF MapTypeOK, Or
<1>6. \A g \in loads : g.of = "map" /\ g.answer = None BY <1>2
<1>7. Lists = {} BY <1>6 DEF Lists
<1>8. \A a \in Maps : a.is = {} /\ a.at = 0 BY <1>3, <1>6 DEF Maps
<1>9. Ids({}) = {} BY DEF Ids
<1>10. FloorsKnown BY <1>2, <1>3, <1>7, <1>8, <1>9 DEF FloorsKnown
<1>11. Numbered BY <1>2, <1>8 DEF Numbered
<1>12. Versions BY <1>2, <1>3, <1>7, <1>8, <1>9 DEF Versions
<1>13. OnMap BY <1>2, <1>3 DEF OnMap
<1>14. HandlerKnows BY <1>2 DEF HandlerKnows
<1>15. MapComes BY <1>2, <1>6 DEF MapComes
<1>16. PanosCome
  <2>1. Agrees(editor.listed) BY <1>2, <1>3 DEF Agrees
  <2>2. Solid(editor.listOf) BY <1>7 DEF Solid
  <2> QED BY <2>1, <2>2 DEF PanosCome
<1> QED BY <1>5, <1>10, <1>11, <1>12, <1>13, <1>14, <1>15, <1>16 DEF MapInv

LEMMA MapNextInv == MapInv /\ [MapNext]_mapVars => MapInv'
<1>1. ASSUME MapInv, UNCHANGED mapVars PROVE MapInv'
  <2>1. UNCHANGED <<floors, panos, changes, editor, loads, action, odd>> BY <1>1 DEF mapVars
  <2>2. Maps' = Maps /\ Lists' = Lists BY <2>1 DEF Maps, Lists
  <2>3. MapTypeOK' BY <1>1, <2>1 DEF MapInv, MapTypeOK
  <2>4. FloorsKnown' /\ Numbered' /\ Versions' /\ OnMap' BY <1>1, <2>1, <2>2, PageStays
  <2>5. HandlerKnows' BY <1>1, <2>1, HandlerStays
  <2>6. MapComes' BY <1>1, <2>1 DEF MapInv, MapComes
  <2>7. PanosCome'
    <3>1. (\A is : Agrees(is)' <=> Agrees(is)) /\ \A v : Solid(v) => Solid(v)'
          BY <2>1, <2>2, SolidStays
    <3> QED BY <1>1, <2>1, <3>1 DEF MapInv, PanosCome
  <2> QED BY <2>3, <2>4, <2>5, <2>6, <2>7 DEF MapInv
<1> QED BY <1>1, ServeLoadKeeps, LoadAnsweredKeeps, AdminActsKeep, ServeActionKeeps,
           FailActionKeeps, ActionAnsweredKeeps, TilingReportedKeeps, LoadFailsKeeps,
           AnswerLostKeeps DEF MapNext

LEMMA MapShows == MapInv => MapInStep
<1> SUFFICES ASSUME MapInv PROVE MapInStep OBVIOUS
<1>1. ASSUME Settled, "map" \notin odd PROVE editor.floors = floors
  <2>1. loads = {} /\ action = None BY <1>1 DEF Settled
  <2>2. editor.mapOf = changes.map BY <1>1, <2>1 DEF MapInv, MapComes
  <2>3. PICK e : e = [is |-> editor.floors, at |-> editor.mapOf] OBVIOUS
  <2>4. e \in Maps /\ e.is = editor.floors /\ e.at = editor.mapOf
        BY <2>3, MapsAndLists DEF MapInv
  <2> QED BY <2>2, <2>4 DEF MapInv, Versions
<1>2. ASSUME Settled, odd \cap {"order", "panos"} = {} PROVE Agrees(editor.listed)
  <2>1. loads = {} /\ action = None BY <1>2 DEF Settled
  <2> QED BY <1>2, <2>1 DEF MapInv, PanosCome
<1>4. ShowsTheMap BY <1>1, <1>2 DEF ShowsTheMap, Agrees
<1>3. SelectionOnMap BY DEF MapInv, OnMap, SelectionOnMap
<1> QED BY <1>3, <1>4 DEF MapInStep

-----------------------------------------------------------------------------
(* AdminLists: the rows are those of the newest GET, which was sent after  *)
(* the last change.                                                        *)

Made == edit # Nobody /\ edit.done = "ok"

\* The GETs have numbers of their own, up to the number sent; the rows came with another.
Numbers ==
  /\ \A f, g \in fetches : f.no = g.no => f = g
  /\ \A f \in fetches : f.no <= sent /\ f.no # rows.at
  /\ rows.at <= sent

\* Only the search waits, for the query that is chosen; the server has what was asked.
Waiting ==
  /\ timer # Nobody => timer = query /\ Debounced
  /\ Made => items[edit.item] = edit.to
  /\ edit # Nobody => edit.query \in Queries
  /\ edit # Nobody /\ list = "userSearch" =>
       \/ edit.seen = "a" /\ edit.to = "b"
       \/ edit.seen = "b" /\ edit.to = "a"

\* The GET sent last is for the query that is chosen, or a GET is to follow.
Newest ==
  quirk = {} =>
    \/ timer # Nobody \/ (Made /\ ~Patches)
    \/ \E f \in fetches : f.no = sent /\ f.query = query
    \/ rows.at = sent

\* A page that fetches again shows what the server has, or its GET is still to be
\* served, or to be sent.
FetchedRows ==
  quirk = {} /\ ~Patches =>
    /\ \A f \in fetches : f.no = sent /\ f.query = query /\ f.answer # Nobody =>
         Made \/ f.answer = Answer(query)
    /\ rows.at = sent => Made \/ rows.is = Answer(query)

\* A page that patches its rows has them as the server, but for the change at hand.
PatchedRows ==
  quirk = {} /\ Patches =>
    /\ \A i \in Item : rows.is[i] \in {"gone", items[i]} \/ (Made /\ edit.item = i)
    /\ rows.at = sent /\ sent > 0 /\ timer = Nobody /\ query = "all" =>
         \A i \in Item : items[i] # "gone" /\ rows.is[i] = "gone" => Made /\ edit.item = i

ListInv == ListTypeOK /\ Numbers /\ Waiting /\ Newest /\ FetchedRows /\ PatchedRows

LEMMA ListRecords ==
  ASSUME ListTypeOK
  PROVE  /\ Queries \subseteq {"all", "a", "b"} /\ "all" \in Queries
         /\ \A q : Answer(q) \in Row
         /\ \A f \in fetches : /\ f \in [query: Queries, no: 1..MaxSent, answer: Row \cup {Nobody}]
                               /\ f.query \in Queries /\ f.no \in 1..MaxSent
                               /\ f.answer \in Row \cup {Nobody}
         /\ rows.at \in 0..MaxSent /\ rows.is \in Row /\ rows = [at |-> rows.at, is |-> rows.is]
         /\ sent \in 0..MaxSent /\ MaxSent \in Nat \ {0}
         /\ edit # Nobody =>
              /\ edit.item \in Item /\ edit.to \in {"a", "b", "gone"} /\ edit \in EditRecord
              /\ edit.query \in {"all", "a", "b"} /\ edit.seen \in {"a", "b", "gone"}
              /\ edit.done \in {"no", "ok", "failed"}
BY AdminListsAssumption DEF ListTypeOK, Queries, Answer, Row, EditRecord

LEMMA ListInitInv == ListInit => ListInv
<1> SUFFICES ASSUME ListInit PROVE ListInv OBVIOUS
<1>1. items \in Row /\ rows = NoRows /\ NoRows.is \in Row /\ NoRows.at = 0 /\ list \in ListPage
      BY DEF ListInit, Row, NoRows
<1>2. query = "all" /\ quirk = {} /\ edit = Nobody /\ ~Made BY DEF ListInit, Made
<1>3. "all" \in Queries BY DEF Queries
<1>4. CASE Debounced
  <2>1. fetches = {} /\ sent = 0 /\ timer = "all" BY <1>4 DEF ListInit
  <2>2. ListTypeOK
        BY <1>1, <1>2, <1>3, <2>1, AdminListsAssumption DEF ListTypeOK, NoRows
  <2>3. Numbers BY <1>1, <2>1 DEF Numbers
  <2>4. Waiting BY <1>2, <1>4, <2>1 DEF Waiting
  <2>5. Newest BY <2>1, NobodyAssumption DEF Newest
  <2>6. FetchedRows BY <1>4 DEF FetchedRows, Debounced, Patches
  <2>7. PatchedRows BY <1>1, <2>1 DEF PatchedRows, NoRows
  <2> QED BY <2>2, <2>3, <2>4, <2>5, <2>6, <2>7 DEF ListInv
<1>5. CASE ~Debounced
  <2>1. fetches = {[query |-> "all", no |-> 1, answer |-> Nobody]} /\ sent = 1 /\ timer = Nobody
        BY <1>5 DEF ListInit
  <2>2. ListTypeOK
        BY <1>1, <1>2, <1>3, <2>1, AdminListsAssumption DEF ListTypeOK, NoRows
  <2>3. Numbers BY <1>1, <2>1 DEF Numbers
  <2>4. Waiting BY <1>2, <2>1 DEF Waiting
  <2>5. Newest BY <1>2, <2>1 DEF Newest
  <2>6. FetchedRows BY <1>1, <2>1 DEF FetchedRows
  <2>7. PatchedRows BY <1>1, <2>1 DEF PatchedRows, NoRows
  <2> QED BY <2>2, <2>3, <2>4, <2>5, <2>6, <2>7 DEF ListInv
<1> QED BY <1>4, <1>5

\* A GET more, with the next number.
LEMMA LoadSends ==
  ASSUME ListInv, NEW q \in Queries, Load(q)
  PROVE  /\ sent' = sent + 1 /\ sent' \in 1..MaxSent
         /\ Fetch(q).no = sent' /\ Fetch(q).query = q /\ Fetch(q).answer = Nobody
         /\ Fetch(q) \in [query: Queries, no: 1..MaxSent, answer: Row \cup {Nobody}]
         /\ Fetch(q) \in fetches' /\ \A f \in fetches' : f = Fetch(q) \/ f \in fetches
         /\ \A f \in fetches : f.no < sent'
         /\ \A f, g \in fetches' : f.no = g.no => f = g
         /\ rows.at < sent'
<1>1. sent \in 0..MaxSent /\ MaxSent \in Nat \ {0} /\ rows.at \in 0..MaxSent
      /\ \A f \in fetches : f.no \in 1..MaxSent
      BY ListRecords DEF ListInv
<1>2. sent' = sent + 1 /\ sent' \in 1..MaxSent /\ fetches' = fetches \cup {Fetch(q)}
      BY <1>1 DEF Load
<1>3. Fetch(q).no = sent' /\ Fetch(q).query = q /\ Fetch(q).answer = Nobody
      BY <1>2 DEF Fetch
<1>4. Fetch(q) \in [query: Queries, no: 1..MaxSent, answer: Row \cup {Nobody}]
      BY <1>2 DEF Fetch
<1>5. /\ \A f, g \in fetches : f.no = g.no => f = g
      /\ \A f \in fetches : f.no <= sent
      /\ rows.at <= sent
      BY DEF ListInv, Numbers
<1>6. /\ \A f \in fetches : f.no < sent'
      /\ rows.at < sent'
      BY <1>1, <1>2, <1>5
<1>7. \A f, g \in fetches' : f.no = g.no => f = g BY <1>1, <1>2, <1>3, <1>5, <1>6
<1> QED BY <1>2, <1>3, <1>4, <1>6, <1>7

LEMMA ChooseQueryKeeps == ASSUME ListInv, ChooseQuery PROVE ListInv'
<1>1. PICK q \in Queries \ {query} :
        /\ query' = q
        /\ IF Debounced THEN timer' = q /\ UNCHANGED <<fetches, sent, quirk>>
           ELSE Load(q) /\ timer' = timer /\ quirk' = IF Patches THEN quirk ELSE {}
      BY DEF ChooseQuery
<1>2. UNCHANGED <<list, items, rows, edit>> BY DEF ChooseQuery
<1>3. /\ Queries' = Queries /\ Patches' = Patches /\ Debounced' = Debounced /\ Made' = Made
      /\ \A r : Answer(r)' = Answer(r)
      BY <1>2 DEF Queries, Patches, Debounced, Made, Answer
<1>4. Queries \subseteq {"all", "a", "b"} /\ rows.at \in 0..MaxSent /\ sent \in 0..MaxSent
      BY ListRecords DEF ListInv
<1>5. CASE Debounced
  <2>1. timer' = q /\ UNCHANGED <<fetches, sent, quirk>> BY <1>1, <1>5
  <2>2. timer' # Nobody BY <1>1, <1>4, <2>1, NobodyAssumption
  <2>3. ListTypeOK' BY <1>1, <1>2, <1>3, <1>4, <2>1 DEF ListInv, ListTypeOK
  <2>4. Numbers' BY <1>2, <2>1 DEF ListInv, Numbers
  <2>5. Waiting' BY <1>1, <1>2, <1>3, <1>5, <2>1 DEF ListInv, Waiting
  <2>6. Newest' BY <2>2 DEF Newest
  <2>7. FetchedRows' BY <1>3, <1>5 DEF FetchedRows, Debounced, Patches
  <2>8. PatchedRows' BY <1>2, <1>3, <2>1, <2>2 DEF ListInv, PatchedRows
  <2> QED BY <2>3, <2>4, <2>5, <2>6, <2>7, <2>8 DEF ListInv
<1>6. CASE ~Debounced
  <2>1. Load(q) /\ timer' = timer /\ quirk' = IF Patches THEN quirk ELSE {} BY <1>1, <1>6
  <2>2. timer = Nobody BY <1>6 DEF ListInv, Waiting
  <2>9. /\ quirk' \subseteq {"order", "closure", "patch", "lost"} /\ (Patches => quirk' = quirk)
        BY <2>1 DEF ListInv, ListTypeOK
  <2>3. ListTypeOK'
        BY <1>1, <1>2, <1>3, <2>1, <2>2, <2>9, LoadSends, ListRecords DEF ListInv, ListTypeOK
  <2>4. Numbers'
    <3>1. \A f \in fetches' : f.no <= sent' /\ f.no # rows.at
          BY <2>1, LoadSends, ListRecords DEF ListInv, Numbers
    <3>2. rows.at <= sent' BY <2>1, <1>4, LoadSends
    <3> QED BY <1>2, <2>1, <3>1, <3>2, LoadSends DEF Numbers
  <2>5. Waiting' BY <1>2, <1>3, <2>1, <2>2 DEF ListInv, Waiting
  <2>6. Newest' BY <1>1, <2>1, LoadSends DEF Newest
  <2>7. FetchedRows'
    <3>1. \A f \in fetches' : f.no = sent' => f.answer = Nobody
          BY <2>1, <1>4, LoadSends, ListRecords DEF ListInv
    <3>2. rows'.at # sent' BY <1>2, <1>4, <2>1, LoadSends
    <3> QED BY <3>1, <3>2 DEF FetchedRows
  <2>8. PatchedRows'
    <3>1. rows'.at # sent' BY <1>2, <1>4, <2>1, LoadSends
    <3>2. CASE ~Patches BY <1>3, <3>2 DEF PatchedRows
    <3>3. CASE Patches BY <1>2, <1>3, <2>9, <3>1, <3>3 DEF ListInv, PatchedRows
    <3> QED BY <3>2, <3>3
  <2> QED BY <2>3, <2>4, <2>5, <2>6, <2>7, <2>8 DEF ListInv
<1> QED BY <1>5, <1>6

LEMMA TimerFiresKeeps == ASSUME ListInv, TimerFires PROVE ListInv'
<1>1. /\ timer # Nobody /\ Load(timer) /\ timer' = Nobody
      /\ UNCHANGED <<list, items, query, rows, edit, quirk>>
      BY DEF TimerFires
<1>2. timer = query /\ query \in Queries BY <1>1 DEF ListInv, Waiting, ListTypeOK
<1>3. /\ Queries' = Queries /\ Patches' = Patches /\ Debounced' = Debounced /\ Made' = Made
      /\ \A r : Answer(r)' = Answer(r)
      BY <1>1 DEF Queries, Patches, Debounced, Made, Answer
<1>4. rows.at \in 0..MaxSent /\ sent \in 0..MaxSent BY ListRecords DEF ListInv
<1>5. Load(query) BY <1>1, <1>2
<1>6. ListTypeOK' BY <1>1, <1>2, <1>3, <1>5, LoadSends, ListRecords DEF ListInv, ListTypeOK
<1>7. Numbers'
  <2>1. \A f \in fetches' : f.no <= sent' /\ f.no # rows.at
        BY <1>2, <1>5, LoadSends, ListRecords DEF ListInv, Numbers
  <2>2. rows.at <= sent' BY <1>2, <1>5, <1>4, LoadSends
  <2> QED BY <1>1, <1>2, <1>5, <2>1, <2>2, LoadSends DEF Numbers
<1>8. Waiting' BY <1>1, <1>3 DEF ListInv, Waiting
<1>9. Newest' BY <1>1, <1>2, <1>5, LoadSends DEF Newest
<1>10. rows'.at # sent' BY <1>1, <1>2, <1>4, <1>5, LoadSends
<1>11. FetchedRows'
  <2>1. \A f \in fetches' : f.no = sent' => f.answer = Nobody
        BY <1>2, <1>5, <1>4, LoadSends, ListRecords DEF ListInv
  <2> QED BY <2>1, <1>10 DEF FetchedRows
<1>12. PatchedRows' BY <1>1, <1>3, <1>10 DEF ListInv, PatchedRows
<1> QED BY <1>6, <1>7, <1>8, <1>9, <1>11, <1>12 DEF ListInv

LEMMA ServeFetchKeeps == ASSUME ListInv, ServeFetch PROVE ListInv'
<1>1. PICK f \in fetches : /\ f.answer = Nobody
                           /\ fetches' = (fetches \ {f}) \cup {[f EXCEPT !.answer = Answer(f.query)]}
      BY DEF ServeFetch
<1>2. UNCHANGED <<list, items, query, rows, sent, timer, edit, quirk>> BY DEF ServeFetch
<1>3. /\ Queries' = Queries /\ Patches' = Patches /\ Debounced' = Debounced /\ Made' = Made
      /\ \A r : Answer(r)' = Answer(r)
      BY <1>2 DEF Queries, Patches, Debounced, Made, Answer
<1>4. PICK g : g = [f EXCEPT !.answer = Answer(f.query)] OBVIOUS
<1>5. g.no = f.no /\ g.query = f.query /\ g.answer = Answer(f.query)
      /\ g \in [query: Queries, no: 1..MaxSent, answer: Row \cup {Nobody}]
      BY <1>4, ListRecords DEF ListInv
<1>6. /\ g \in fetches' /\ \A h \in fetches' : h = g \/ (h \in fetches /\ h # f)
      /\ \A h \in fetches : h # f => h \in fetches'
      BY <1>1, <1>4
<1>7. ListTypeOK' BY <1>2, <1>3, <1>5, <1>6 DEF ListInv, ListTypeOK
<1>8. Numbers'
  <2>1. \A h \in fetches' : h.no <= sent /\ h.no # rows.at
        BY <1>5, <1>6 DEF ListInv, Numbers
  <2>2. \A h, k \in fetches' : h.no = k.no => h = k
        BY <1>5, <1>6 DEF ListInv, Numbers
  <2> QED BY <1>2, <2>1, <2>2 DEF ListInv, Numbers
<1>9. Waiting' BY <1>2, <1>3 DEF ListInv, Waiting
<1>10. Newest' BY <1>2, <1>3, <1>5, <1>6 DEF ListInv, Newest
<1>11. FetchedRows' BY <1>2, <1>3, <1>5, <1>6 DEF ListInv, FetchedRows
<1>12. PatchedRows' BY <1>2, <1>3 DEF ListInv, PatchedRows
<1> QED BY <1>7, <1>8, <1>9, <1>10, <1>11, <1>12 DEF ListInv

LEMMA FetchAnsweredKeeps == ASSUME ListInv, FetchAnswered PROVE ListInv'
<1>1. PICK f \in fetches :
        /\ f.answer # Nobody
        /\ fetches' = fetches \ {f}
        /\ rows' = [at |-> f.no, is |-> f.answer]
        /\ quirk' = quirk \cup (IF f.no < rows.at THEN {"order"} ELSE {})
                         \cup (IF Patches /\ f.answer # Answer(f.query) THEN {"patch"} ELSE {})
      BY DEF FetchAnswered
<1>2. UNCHANGED <<list, items, query, sent, timer, edit>> BY DEF FetchAnswered
<1>3. /\ Queries' = Queries /\ Patches' = Patches /\ Debounced' = Debounced /\ Made' = Made
      /\ \A r : Answer(r)' = Answer(r)
      BY <1>2 DEF Queries, Patches, Debounced, Made, Answer
<1>4. /\ f.no \in 1..MaxSent /\ f.answer \in Row /\ f.query \in Queries
      /\ rows.at \in 0..MaxSent /\ sent \in 0..MaxSent
      BY <1>1, ListRecords DEF ListInv
<1>5. /\ rows'.at = f.no /\ rows'.is = f.answer
      /\ f.no <= sent /\ f.no # rows.at
      /\ \A g \in fetches' : g \in fetches /\ g # f /\ g.no # f.no
      /\ \A g \in fetches : g = f \/ g \in fetches'
      BY <1>1 DEF ListInv, Numbers
<1>6. quirk' = {} => quirk = {} /\ ~(f.no < rows.at) /\ (Patches => f.answer = Answer(f.query))
      BY <1>1
<1>7. ListTypeOK'
  <2>1. rows' \in [at: 0..MaxSent, is: Row] BY <1>1, <1>4
  <2>2. quirk' \subseteq {"order", "closure", "patch", "lost"} BY <1>1 DEF ListInv, ListTypeOK
  <2> QED BY <1>2, <1>3, <1>5, <2>1, <2>2 DEF ListInv, ListTypeOK
<1>8. Numbers' BY <1>2, <1>5 DEF ListInv, Numbers
<1>9. Waiting' BY <1>2, <1>3 DEF ListInv, Waiting
<1>10. Newest'
  <2>1. SUFFICES ASSUME quirk' = {}, timer = Nobody, ~(Made /\ ~Patches), f.no # sent
                 PROVE  \E g \in fetches' : g.no = sent /\ g.query = query
        BY <1>2, <1>3, <1>5 DEF Newest
  <2>2. rows.at # sent BY <1>4, <1>5, <1>6, <2>1
  <2>3. PICK g \in fetches : g.no = sent /\ g.query = query
        BY <1>6, <2>1, <2>2 DEF ListInv, Newest
  <2> QED BY <1>5, <2>1, <2>3
<1>11. ASSUME quirk' = {}, f.no = sent, timer = Nobody, ~(Made /\ ~Patches) PROVE f.query = query
  <2>1. rows.at # sent BY <1>5, <1>11
  <2>2. PICK g \in fetches : g.no = sent /\ g.query = query
        BY <1>6, <1>11, <2>1 DEF ListInv, Newest
  <2>3. g = f BY <1>5, <1>11, <2>2
  <2> QED BY <2>2, <2>3
<1>12. FetchedRows'
  <2>1. ASSUME quirk' = {}, ~Patches, f.no = sent PROVE Made \/ f.answer = Answer(query)
    <3>1. timer = Nobody BY <2>1 DEF ListInv, Waiting, Debounced, Patches
    <3>2. CASE Made BY <3>2
    <3>3. CASE ~Made
      <4>1. f.query = query BY <1>11, <2>1, <3>1, <3>3
      <4> QED BY <1>1, <1>6, <2>1, <3>3, <4>1 DEF ListInv, FetchedRows
    <3> QED BY <3>2, <3>3
  <2>2. quirk' = {} /\ ~Patches => \A g \in fetches : g.no = sent /\ g.query = query /\ g.answer # Nobody
                               => Made \/ g.answer = Answer(query)
        BY <1>6 DEF ListInv, FetchedRows
  <2> QED BY <1>2, <1>3, <1>5, <2>1, <2>2 DEF FetchedRows
<1>13. PatchedRows'
  <2>1. SUFFICES ASSUME quirk' = {}, Patches
                 PROVE  /\ \A i \in Item : f.answer[i] \in {"gone", items[i]}
                        /\ f.no = sent /\ timer = Nobody /\ query = "all" =>
                             \A i \in Item : items[i] = "gone" \/ f.answer[i] # "gone"
        BY <1>2, <1>3, <1>5 DEF PatchedRows
  <2>2. \A i \in Item : f.answer[i] = IF items[i] # "gone" /\ f.query \in {"all", items[i]} THEN items[i] ELSE "gone"
        BY <1>6, <2>1 DEF Answer
  <2>3. f.no = sent /\ timer = Nobody => f.query = query BY <1>11, <2>1
  <2> QED BY <2>2, <2>3
<1> QED BY <1>7, <1>8, <1>9, <1>10, <1>12, <1>13 DEF ListInv

LEMMA FetchFailsKeeps == ASSUME ListInv, FetchFails PROVE ListInv'
<1>1. PICK f \in fetches : fetches' = fetches \ {f} BY DEF FetchFails
<1>2. UNCHANGED <<list, items, query, rows, sent, timer, edit>> BY DEF FetchFails
<1>3. Queries' = Queries /\ Debounced' = Debounced /\ Made' = Made
      BY <1>2 DEF Queries, Debounced, Made
<1>4. quirk' = quirk \cup {"lost"} /\ quirk' # {} BY DEF FetchFails
<1>5. ListTypeOK' BY <1>1, <1>2, <1>3, <1>4 DEF ListInv, ListTypeOK
<1>6. Numbers' BY <1>1, <1>2 DEF ListInv, Numbers
<1>7. Waiting' BY <1>2, <1>3 DEF ListInv, Waiting
<1>8. Newest' /\ FetchedRows' /\ PatchedRows' BY <1>4 DEF Newest, FetchedRows, PatchedRows
<1> QED BY <1>5, <1>6, <1>7, <1>8 DEF ListInv

LEMMA ChangeKeeps == ASSUME ListInv, Change PROVE ListInv'
<1>1. edit = Nobody /\ ~Made BY DEF Change, Made
<1>0. PICK i \in Item : \E to \in Changes(i) :
        edit' = [item |-> i, to |-> to, query |-> query, seen |-> rows.is[i], done |-> "no"]
      BY DEF Change
<1>2. PICK to \in Changes(i) :
        edit' = [item |-> i, to |-> to, query |-> query, seen |-> rows.is[i], done |-> "no"]
      BY <1>0
<1>3. UNCHANGED <<list, items, query, rows, fetches, sent, timer, quirk>> BY DEF Change
<1>4. /\ Queries' = Queries /\ Patches' = Patches /\ Debounced' = Debounced
      /\ \A r : Answer(r)' = Answer(r)
      BY <1>3 DEF Queries, Patches, Debounced, Answer
<1>5. ~Made' BY <1>2 DEF Made
<1>6. rows.is[i] \in {"a", "b", "gone"} BY ListRecords DEF ListInv, Row
<1>7. to \in {"a", "b", "gone"} BY <1>2 DEF Changes
<1>8. edit' \in EditRecord
  <2>1. query \in {"all", "a", "b"} BY ListRecords DEF ListInv, ListTypeOK
  <2> QED BY <1>2, <1>6, <1>7, <2>1 DEF EditRecord
<1>9. ListTypeOK' BY <1>3, <1>4, <1>8 DEF ListInv, ListTypeOK
<1>10. Numbers' BY <1>3 DEF ListInv, Numbers
<1>11. Waiting'
  <2>0. edit'.query = query /\ query \in Queries BY <1>2 DEF ListInv, ListTypeOK
  <2>1. list = "userSearch" => \/ rows.is[i] = "a" /\ to = "b"
                               \/ rows.is[i] = "b" /\ to = "a"
        BY <1>2, <1>6 DEF Changes
  <2>2. edit'.seen = rows.is[i] /\ edit'.to = to BY <1>2
  <2> QED BY <1>3, <1>4, <1>5, <2>0, <2>1, <2>2 DEF ListInv, Waiting
<1>12. Newest' BY <1>1, <1>3, <1>4, <1>5 DEF ListInv, Newest
<1>13. FetchedRows' BY <1>1, <1>3, <1>4, <1>5 DEF ListInv, FetchedRows
<1>14. PatchedRows' BY <1>1, <1>3, <1>4, <1>5 DEF ListInv, PatchedRows
<1> QED BY <1>9, <1>10, <1>11, <1>12, <1>13, <1>14 DEF ListInv

LEMMA ServeChangeKeeps == ASSUME ListInv, ServeChange PROVE ListInv'
<1>1. edit # Nobody /\ edit.done = "no" /\ ~Made BY DEF ServeChange, Made
<1>2. UNCHANGED <<list, query, rows, fetches, sent, timer, quirk>> BY DEF ServeChange
<1>3. Queries' = Queries /\ Patches' = Patches /\ Debounced' = Debounced
      BY <1>2 DEF Queries, Patches, Debounced
<1>4. /\ edit \in EditRecord /\ edit.item \in Item /\ edit.to \in {"a", "b", "gone"}
      BY <1>1, ListRecords DEF ListInv
<1>5. PICK d \in {"ok", "failed"} :
        /\ edit' = [edit EXCEPT !.done = d]
        /\ d = "ok" => items' = [items EXCEPT ![edit.item] = edit.to]
        /\ d = "failed" => items' = items
      BY DEF ServeChange
<1>6. /\ edit' \in EditRecord /\ edit'.item = edit.item /\ edit'.to = edit.to
      /\ edit'.seen = edit.seen /\ edit'.done = d /\ edit'.query = edit.query
      BY <1>4, <1>5 DEF EditRecord
<1>7. edit' # Nobody /\ (Made' <=> d = "ok") BY <1>6, NobodyAssumption DEF Made
<1>8. /\ items' \in Row
      /\ \A i \in Item : (d = "ok" /\ i = edit.item) \/ items'[i] = items[i]
      /\ d = "ok" => items'[edit.item] = edit.to
      BY <1>4, <1>5 DEF ListInv, ListTypeOK, Row
<1>9. ListTypeOK' BY <1>2, <1>3, <1>6, <1>8 DEF ListInv, ListTypeOK
<1>10. Numbers' BY <1>2 DEF ListInv, Numbers
<1>11. Waiting' BY <1>1, <1>2, <1>3, <1>6, <1>7, <1>8 DEF ListInv, Waiting
<1>12. Newest' BY <1>1, <1>2, <1>3, <1>7 DEF ListInv, Newest
<1>13. FetchedRows'
  <2>1. CASE d = "ok" BY <1>7, <2>1 DEF FetchedRows
  <2>2. CASE d = "failed"
    <3>1. \A r : Answer(r)' = Answer(r) BY <1>5, <2>2 DEF Answer
    <3> QED BY <1>1, <1>2, <1>3, <3>1 DEF ListInv, FetchedRows
  <2> QED BY <2>1, <2>2
<1>14. PatchedRows' BY <1>1, <1>2, <1>3, <1>6, <1>7, <1>8 DEF ListInv, PatchedRows
<1> QED BY <1>9, <1>10, <1>11, <1>12, <1>13, <1>14 DEF ListInv

LEMMA ChangeAnsweredKeeps == ASSUME ListInv, ChangeAnswered PROVE ListInv'
<1>1. edit # Nobody /\ edit.done # "no" /\ edit' = Nobody BY DEF ChangeAnswered
<1>2. UNCHANGED <<list, items, query, timer>> BY DEF ChangeAnswered
<1>3. /\ Queries' = Queries /\ Patches' = Patches /\ Debounced' = Debounced /\ ~Made'
      /\ \A r : Answer(r)' = Answer(r)
      BY <1>1, <1>2 DEF Queries, Patches, Debounced, Made, Answer
<1>4. /\ edit.item \in Item /\ edit.to \in {"a", "b", "gone"} /\ edit.seen \in {"a", "b", "gone"}
      /\ rows.at \in 0..MaxSent /\ sent \in 0..MaxSent /\ rows.is \in Row
      BY <1>1, ListRecords DEF ListInv
<1>5. CASE edit.done = "failed"
  <2>1. UNCHANGED <<rows, fetches, sent, quirk>> BY <1>5 DEF ChangeAnswered
  <2>2. ~Made BY <1>5 DEF Made
  <2>3. ListTypeOK' BY <1>1, <1>2, <1>3, <2>1 DEF ListInv, ListTypeOK
  <2>4. Numbers' BY <2>1 DEF ListInv, Numbers
  <2>5. Waiting' BY <1>1, <1>2, <1>3 DEF ListInv, Waiting
  <2>6. Newest' BY <1>2, <1>3, <2>1, <2>2 DEF ListInv, Newest
  <2>7. FetchedRows' BY <1>2, <1>3, <2>1, <2>2 DEF ListInv, FetchedRows
  <2>8. PatchedRows' BY <1>2, <1>3, <2>1, <2>2 DEF ListInv, PatchedRows
  <2> QED BY <2>3, <2>4, <2>5, <2>6, <2>7, <2>8 DEF ListInv
<1>6. CASE edit.done # "failed" /\ Patches
  <2>1. /\ rows' = [rows EXCEPT !.is = Patched(edit.item, edit.to)]
        /\ quirk' = quirk \cup (IF rows.is[edit.item] = edit.seen THEN {} ELSE {"patch"})
        /\ UNCHANGED <<fetches, sent>>
        BY <1>6 DEF ChangeAnswered
  <2>2. Made BY <1>1, <1>4, <1>6, ListRecords DEF Made, ListInv
  <2>3. PICK is : is = Patched(edit.item, edit.to) OBVIOUS
  <2>4. /\ is \in Row /\ \A i \in Item \ {edit.item} : is[i] = rows.is[i]
        /\ list # "userSearch" => is[edit.item] = edit.to
        /\ list = "userSearch" /\ rows.is[edit.item] = "a" => is[edit.item] = "b"
        /\ list = "userSearch" /\ rows.is[edit.item] = "b" => is[edit.item] = "a"
        BY <1>4, <2>3 DEF Patched, Row
  <2>5. rows' = [at |-> rows.at, is |-> is] /\ rows'.at = rows.at /\ rows'.is = is
        BY <2>1, <2>3, ListRecords DEF ListInv
  <2>6. ListTypeOK'
    <3>1. rows' \in [at: 0..MaxSent, is: Row] BY <1>4, <2>4, <2>5
    <3>2. quirk' \subseteq {"order", "closure", "patch", "lost"} BY <2>1 DEF ListInv, ListTypeOK
    <3> QED BY <1>1, <1>2, <1>3, <2>1, <3>1, <3>2 DEF ListInv, ListTypeOK
  <2>7. Numbers' BY <2>1, <2>5 DEF ListInv, Numbers
  <2>8. Waiting' BY <1>1, <1>2, <1>3 DEF ListInv, Waiting
  <2>9. quirk' = {} => quirk = {} /\ rows.is[edit.item] = edit.seen BY <2>1
  <2>10. Newest' BY <1>2, <1>3, <1>6, <2>1, <2>5, <2>9 DEF ListInv, Newest
  <2>11. FetchedRows' BY <1>3, <1>6 DEF FetchedRows
  <2>12. PatchedRows'
    <3>1. SUFFICES ASSUME quirk' = {}
                   PROVE  /\ \A i \in Item : is[i] \in {"gone", items[i]}
                          /\ rows.at = sent /\ sent > 0 /\ timer = Nobody /\ query = "all" =>
                               \A i \in Item : items[i] = "gone" \/ is[i] # "gone"
          BY <1>2, <1>3, <2>1, <2>5 DEF PatchedRows
    <3>2. items[edit.item] = edit.to BY <2>2 DEF ListInv, Waiting
    <3>3. is[edit.item] = edit.to
      <4>1. CASE list # "userSearch" BY <2>4, <4>1
      <4>2. CASE list = "userSearch"
        <5>1. \/ edit.seen = "a" /\ edit.to = "b"
              \/ edit.seen = "b" /\ edit.to = "a"
              BY <1>1, <4>2 DEF ListInv, Waiting
        <5> QED BY <2>4, <2>9, <3>1, <4>2, <5>1
      <4> QED BY <4>1, <4>2
    <3>4. \A i \in Item \ {edit.item} : is[i] \in {"gone", items[i]}
          BY <1>6, <2>4, <2>9, <3>1 DEF ListInv, PatchedRows
    <3>5. rows.at = sent /\ sent > 0 /\ timer = Nobody /\ query = "all" =>
            \A i \in Item \ {edit.item} : items[i] = "gone" \/ is[i] # "gone"
          BY <1>6, <2>4, <2>9, <3>1 DEF ListInv, PatchedRows
    <3> QED BY <3>2, <3>3, <3>4, <3>5
  <2> QED BY <2>6, <2>7, <2>8, <2>10, <2>11, <2>12 DEF ListInv
<1>7. CASE edit.done # "failed" /\ ~Patches
  <2>1. /\ Load(edit.query)
        /\ quirk' = IF edit.query = query THEN {} ELSE quirk \cup {"closure"}
        /\ rows' = rows
        BY <1>7 DEF ChangeAnswered
  <2>2. PICK q \in Queries : q = edit.query BY <1>1 DEF ListInv, Waiting
  <2>3. Load(q) BY <2>1, <2>2
  <2>4. ListTypeOK'
    <3>1. quirk' \subseteq {"order", "closure", "patch", "lost"} BY <2>1 DEF ListInv, ListTypeOK
    <3>2. sent' \in 0..MaxSent BY <2>3, LoadSends, AdminListsAssumption
    <3>3. \A f \in fetches' : f \in [query: Queries, no: 1..MaxSent, answer: Row \cup {Nobody}]
          BY <2>3, LoadSends, ListRecords DEF ListInv
    <3> QED BY <1>1, <1>2, <1>3, <2>1, <3>1, <3>2, <3>3 DEF ListInv, ListTypeOK
  <2>5. Numbers'
    <3>1. \A f \in fetches' : f.no <= sent' /\ f.no # rows.at
          BY <2>3, LoadSends, ListRecords DEF ListInv, Numbers
    <3>2. rows.at <= sent' BY <2>3, <1>4, LoadSends
    <3> QED BY <2>1, <2>3, <3>1, <3>2, LoadSends DEF Numbers
  <2>6. Waiting' BY <1>1, <1>2, <1>3 DEF ListInv, Waiting
  <2>7. quirk' = {} => q = query BY <2>1, <2>2
  <2>8. Newest' BY <1>2, <2>3, <2>7, LoadSends DEF Newest
  <2>9. FetchedRows'
    <3>1. \A f \in fetches' : f.no = sent' => f.answer = Nobody
          BY <2>3, <1>4, LoadSends, ListRecords DEF ListInv
    <3>2. rows'.at # sent' BY <1>4, <2>1, <2>3, LoadSends
    <3> QED BY <3>1, <3>2 DEF FetchedRows
  <2>10. PatchedRows' BY <1>3, <1>7 DEF PatchedRows
  <2> QED BY <2>4, <2>5, <2>6, <2>8, <2>9, <2>10 DEF ListInv
<1> QED BY <1>5, <1>6, <1>7

LEMMA AnswerToChangeLostKeeps == ASSUME ListInv, AnswerToChangeLost PROVE ListInv'
<1>1. /\ edit' = Nobody /\ quirk' = quirk \cup {"lost"} /\ quirk' # {}
      /\ UNCHANGED <<list, items, query, rows, fetches, sent, timer>>
      BY DEF AnswerToChangeLost
<1>2. Queries' = Queries /\ Patches' = Patches /\ Debounced' = Debounced /\ ~Made'
      BY <1>1 DEF Queries, Patches, Debounced, Made
<1>3. ListTypeOK' BY <1>1, <1>2 DEF ListInv, ListTypeOK
<1>4. Numbers' BY <1>1 DEF ListInv, Numbers
<1>5. Waiting' BY <1>1, <1>2 DEF ListInv, Waiting
<1>6. Newest' /\ FetchedRows' /\ PatchedRows' BY <1>1 DEF Newest, FetchedRows, PatchedRows
<1> QED BY <1>3, <1>4, <1>5, <1>6 DEF ListInv

LEMMA ListNextInv == ListInv /\ [ListNext]_listVars => ListInv'
<1> SUFFICES ASSUME ListInv, [ListNext]_listVars PROVE ListInv' OBVIOUS
<1>1. CASE ListNext
      BY <1>1, ChooseQueryKeeps, TimerFiresKeeps, ServeFetchKeeps, FetchAnsweredKeeps,
         FetchFailsKeeps, ChangeKeeps, ServeChangeKeeps, ChangeAnsweredKeeps,
         AnswerToChangeLostKeeps
      DEF ListNext
<1>2. CASE UNCHANGED listVars
  <2>1. UNCHANGED <<list, items, query, rows, fetches, sent, timer, edit, quirk>>
        BY <1>2 DEF listVars
  <2>2. /\ Queries' = Queries /\ Patches' = Patches /\ Debounced' = Debounced /\ Made' = Made
        /\ \A r : Answer(r)' = Answer(r)
        BY <2>1 DEF Queries, Patches, Debounced, Made, Answer
  <2>3. ListTypeOK' BY <2>1, <2>2 DEF ListInv, ListTypeOK
  <2>4. Numbers' BY <2>1 DEF ListInv, Numbers
  <2>5. Waiting' BY <2>1, <2>2 DEF ListInv, Waiting
  <2>6. Newest' BY <2>1, <2>2 DEF ListInv, Newest
  <2>7. FetchedRows' BY <2>1, <2>2 DEF ListInv, FetchedRows
  <2>8. PatchedRows' BY <2>1, <2>2 DEF ListInv, PatchedRows
  <2> QED BY <2>3, <2>4, <2>5, <2>6, <2>7, <2>8 DEF ListInv
<1> QED BY <1>1, <1>2

\* With nothing open the GET sent last has been answered, for the query chosen.
LEMMA ListShows == ListInv => ListInStep
<1> SUFFICES ASSUME ListInv PROVE ListInStep OBVIOUS
<1>1. SUFFICES ASSUME ListSettled, quirk = {}, rows.at # 0
               PROVE  /\ \A i \in Item :
                           IF Patches THEN rows.is[i] # "gone" => rows.is[i] = items[i]
                           ELSE rows.is[i] = Answer(query)[i]
                      /\ query = "all" => \A i \in Item : items[i] # "gone" => rows.is[i] # "gone"
      BY DEF ListInStep, RowsOfQuery, NoRowLost
<1>2. fetches = {} /\ timer = Nobody /\ ~Made BY <1>1 DEF ListSettled, Made
<1>3. rows.at = sent /\ sent > 0
      BY <1>1, <1>2, ListRecords DEF ListInv, Newest
<1>4. CASE Patches BY <1>1, <1>2, <1>3, <1>4 DEF ListInv, PatchedRows
<1>5. CASE ~Patches
  <2>1. rows.is = Answer(query) BY <1>1, <1>2, <1>3, <1>5 DEF ListInv, FetchedRows
  <2>2. \A i \in Item : Answer("all")[i] = items[i] BY DEF Answer
  <2> QED BY <1>5, <2>1, <2>2
<1> QED BY <1>4, <1>5

-----------------------------------------------------------------------------
(* UserList: the newest GET asks for the view that is chosen, and brings   *)
(* its page and its total.                                                 *)

\* The rows and the total are those of the search, the filter and the page.
UpToDate(rs, total) ==
  rs = RowsOf(Now(view)) /\ total = Cardinality(Found(Now(view)))

\* The GETs have numbers of their own, up to the number sent; the rows came with another.
Counted ==
  /\ \A g, h \in open : g.no = h.no => g = h
  /\ \A g \in open : g.no <= count /\ g.no # view.at
  /\ view.at <= count

\* Who registered is there by now; before the list shrinks or grows nobody did and
\* nothing was changed.
There ==
  /\ joined <= Cardinality({u \in User : users[u] # "later"})
  /\ "shrunk" \notin trouble => joined = 0 /\ (request = Nothing \/ ~request.done)

\* The GET sent last is for what is on show and brings what the server has, or has
\* brought it, or a GET is to follow.
LatestAsked ==
  trouble \subseteq {"shrunk"} =>
    \/ debounce # Nothing
    \/ request # Nothing /\ request.done
    \/ \E g \in open : /\ g.no = count /\ g.args = Now(view)
                       /\ joined > 0 \/ g.answer = Nothing \/ UpToDate(g.answer.rows, g.answer.total)
    \/ view.at = count /\ (joined > 0 \/ UpToDate(view.rows, view.total))

PagesOf(n) == (n + PerPage - 1) \div PerPage

\* The page on show is there, or a GET of the first page is to follow.
OnAPage ==
  "shrunk" \notin trouble /\ ~early =>
    debounce # Nothing \/ view.page = 1 \/ view.page <= PagesOf(Cardinality(Found(Now(view))))

UserInv == UserTypeOK /\ Counted /\ There /\ LatestAsked /\ OnAPage

LEMMA UserRecords ==
  ASSUME UserTypeOK
  PROVE  /\ view.search \in {"none", "term"} /\ view.filter \in Filter /\ view.page \in Nat \ {0}
         /\ view.rows \subseteq UserRow /\ view.total \in 0..MaxUsers /\ view.at \in 0..MaxLoads
         /\ Now(view) \in Args /\ Now(view).page = view.page
         /\ \A g \in open : /\ g.args \in Args /\ g.no \in 1..MaxLoads
                            /\ g.answer \in AnswerRecord \cup {Nothing}
         /\ request # Nothing =>
              /\ request \in RequestRecord /\ request.user \in User /\ request.args \in Args
              /\ request.op \in {"ban", "unban", "delete"} /\ request.done \in BOOLEAN
         /\ count \in 1..MaxLoads /\ MaxLoads \in Nat \ {0} /\ MaxUsers \in Nat \ {0}
BY UserListAssumption DEF UserTypeOK, View, Args, Now, AskedFor, RequestRecord

\* The page again, with some of it changed.
LEMMA ViewWith ==
  ASSUME view \in View, NEW s \in {"none", "term"}, NEW f \in Filter, NEW p \in Nat \ {0},
         view' = [view EXCEPT !.search = s, !.filter = f, !.page = p]
  PROVE  /\ view' \in View /\ view'.search = s /\ view'.filter = f /\ view'.page = p
         /\ view'.at = view.at
<1>1. view' = [search |-> s, filter |-> f, page |-> p, rows |-> view.rows,
               total |-> view.total, at |-> view.at]
      BY DEF View
<1>2. view.rows \in SUBSET UserRow /\ view.total \in 0..MaxUsers /\ view.at \in 0..MaxLoads
      BY DEF View
<1> QED BY <1>1, <1>2 DEF View

LEMMA ViewOn ==
  ASSUME view \in View, NEW p \in Nat \ {0}, view' = [view EXCEPT !.page = p]
  PROVE  /\ view' \in View /\ view'.search = view.search /\ view'.filter = view.filter
         /\ view'.page = p /\ view'.at = view.at
<1>1. view.search \in {"none", "term"} /\ view.filter \in Filter BY DEF View
<1>2. view' = [view EXCEPT !.search = view.search, !.filter = view.filter, !.page = p] BY DEF View
<1> QED BY <1>1, <1>2, ViewWith

LEMMA UsersAreFinite ==
  ASSUME NEW S, S \subseteq User
  PROVE  IsFiniteSet(S) /\ Cardinality(S) \in 0..MaxUsers
<1>1. IsFiniteSet(1..MaxUsers) /\ Cardinality(1..MaxUsers) = MaxUsers
      BY FS_Interval, UserListAssumption
<1>2. IsFiniteSet(S) /\ Cardinality(S) <= Cardinality(1..MaxUsers)
      BY <1>1, FS_Subset DEF User
<1> QED BY <1>1, <1>2, FS_CardinalityType

LEMMA FoundAreUsers ==
  \A a : /\ Found(a) \subseteq User /\ Cardinality(Found(a)) \in 0..MaxUsers
         /\ RowsOf(a) \subseteq UserRow
<1> TAKE a
<1>1. Found(a) \subseteq User BY DEF Found
<1>2. PageOf(Found(a), a.page) \subseteq User BY <1>1 DEF PageOf
<1>3. \A u \in User : [user |-> u, banned |-> users[u] = "banned"] \in UserRow
  <2> TAKE u \in User
  <2>1. PICK b \in BOOLEAN : b = (users[u] = "banned") BY Zenon
  <2>2. [user |-> u, banned |-> b] \in UserRow BY DEF UserRow
  <2> QED BY <2>1, <2>2, Zenon
<1>4. RowsOf(a) \subseteq UserRow BY <1>2, <1>3 DEF RowsOf
<1> QED BY <1>1, <1>4, UsersAreFinite

\* A page shows the same while nothing changes at the server and on it.
LEMMA SameRows ==
  ASSUME users' = users, Now(view)' = Now(view)
  PROVE  /\ \A rs, n : UpToDate(rs, n)' <=> UpToDate(rs, n)
         /\ Found(Now(view))' = Found(Now(view))
<1>1. Found(Now(view))' = Found(Now(view)) BY DEF Found
<1>2. RowsOf(Now(view))' = RowsOf(Now(view)) BY <1>1 DEF RowsOf
<1> QED BY <1>1, <1>2 DEF UpToDate

\* The users found do not depend on the page.
LEMMA SameFound ==
  ASSUME NEW v, NEW w, v.search = w.search, v.filter = w.filter
  PROVE  Found(Now(v)) = Found(Now(w))
BY DEF Found, Now, AskedFor

LEMMA UserInitInv == UserInit => UserInv
<1> SUFFICES ASSUME UserInit PROVE UserInv OBVIOUS
<1>1. /\ users \in [User -> {"active", "banned", "gone", "later"}]
      BY UserListAssumption DEF UserInit, User
<1>2. /\ view = [search |-> "none", filter |-> "all", page |-> 1, rows |-> {}, total |-> 0, at |-> 0]
      /\ open = {[args |-> Now(view), no |-> 1, answer |-> Nothing]} /\ count = 1
      /\ debounce = Nothing /\ request = Nothing /\ joined = 0 /\ trouble = {} /\ early = FALSE
      BY DEF UserInit
<1>3. view \in View
  <2>1. {} \in SUBSET User /\ 0 \in 0..MaxUsers /\ 0 \in 0..MaxLoads /\ 1 \in Nat \ {0}
        BY UserListAssumption
  <2>2. "none" \in {"none", "term"} /\ "all" \in Filter BY DEF Filter
  <2> QED BY <1>2, <2>1, <2>2 DEF View
<1>4. Now(view) \in Args
  <2>1. "none" \in {"none", "term"} /\ "all" \in Filter /\ 1 \in Nat \ {0} BY DEF Filter
  <2>2. Now(view) = [search |-> "none", filter |-> "all", page |-> 1] BY <1>2 DEF Now, AskedFor
  <2> QED BY <2>1, <2>2 DEF Args
<1>5. UserTypeOK
  <2>1. \A g \in open : g \in [args: Args, no: 1..MaxLoads, answer: AnswerRecord \cup {Nothing}]
    <3>1. 1 \in 1..MaxLoads BY UserListAssumption
    <3> QED BY <1>2, <1>4, <3>1
  <2>2. count \in 1..MaxLoads /\ joined \in 0..MaxUsers BY <1>2, UserListAssumption
  <2> QED BY <1>1, <1>2, <1>3, <2>1, <2>2 DEF UserTypeOK
<1>6. Counted
  <2>1. \A g \in open : g.no = 1 BY <1>2
  <2>2. \A g, h \in open : g = h BY <1>2
  <2>3. view.at = 0 BY <1>2
  <2> QED BY <1>2, <2>1, <2>2, <2>3 DEF Counted
<1>7. There
  <2>1. {u \in User : users[u] # "later"} \subseteq User OBVIOUS
  <2>2. 0 <= Cardinality({u \in User : users[u] # "later"}) BY <2>1, UsersAreFinite
  <2> QED BY <1>2, <2>2 DEF There
<1>8. LatestAsked BY <1>2 DEF LatestAsked
<1>9. OnAPage BY <1>2 DEF OnAPage
<1> QED BY <1>5, <1>6, <1>7, <1>8, <1>9 DEF UserInv

-----------------------------------------------------------------------------
(* GETs more, one or two, with the next numbers.                           *)

\* What was open stays; what is new has a number behind all the others.
Sent(n, q) ==
  /\ \A g \in open' : g \in open \/ (g \in [args: Args, no: 1..MaxLoads, answer: {Nothing}] /\ g.no > count)
  /\ \A g, h \in open' : g.no = h.no => g = h
  /\ \A g \in open' : g.no <= count'
  /\ count' = count + n /\ count' \in 1..MaxLoads
  /\ \E g \in open' : g.no = count' /\ g.args = q /\ g.answer = Nothing

\* The rows are those of what is on show again, in the end, or of what was left since.
After(q, v) ==
  trouble' = IF q = Now(v) THEN trouble \cap {"shrunk"} ELSE trouble \cup {"closure"}

LEMMA OneSent ==
  ASSUME UserInv, NEW q \in Args, NEW v, LoadAll(<<q>>, v)
  PROVE  /\ Sent(1, q)
         /\ After(q, v)
<1>1. /\ count' = count + 1 /\ count + 1 <= MaxLoads
      /\ open' = open \cup {[args |-> <<q>>[i], no |-> count + i, answer |-> Nothing] : i \in 1..1}
      /\ After(q, v)
      BY DEF LoadAll, After
<1>2. PICK g : g = [args |-> q, no |-> count + 1, answer |-> Nothing] OBVIOUS
<1>3. open' = open \cup {g} BY <1>1, <1>2
<1>4. count \in 1..MaxLoads /\ count' \in 1..MaxLoads /\ \A h \in open : h.no \in 1..MaxLoads
      BY <1>1, UserRecords DEF UserInv
<1>5. /\ g \in [args: Args, no: 1..MaxLoads, answer: {Nothing}]
      /\ g.no = count' /\ g.args = q /\ g.answer = Nothing
      BY <1>1, <1>2, <1>4
<1>6. \A h \in open : h.no <= count BY DEF UserInv, Counted
<1>7. \A h, k \in open : h.no = k.no => h = k BY DEF UserInv, Counted
<1>8. \A h, k \in open' : h.no = k.no => h = k BY <1>1, <1>3, <1>4, <1>5, <1>6, <1>7
<1>9. \A h \in open' : h.no <= count' BY <1>1, <1>3, <1>4, <1>5, <1>6
<1>10. g.no > count BY <1>1, <1>4, <1>5
<1>11. Sent(1, q) BY <1>1, <1>3, <1>4, <1>5, <1>8, <1>9, <1>10 DEF Sent
<1> QED BY <1>1, <1>11

LEMMA TwoSent ==
  ASSUME UserInv, NEW q \in Args, NEW r \in Args, NEW v, LoadAll(<<q, r>>, v)
  PROVE  /\ Sent(2, r)
         /\ After(r, v)
<1>1. /\ count' = count + 2 /\ count + 2 <= MaxLoads
      /\ open' = open \cup {[args |-> <<q, r>>[i], no |-> count + i, answer |-> Nothing] : i \in 1..2}
      /\ After(r, v)
      BY DEF LoadAll, After
<1>2. PICK f : f = [args |-> q, no |-> count + 1, answer |-> Nothing] OBVIOUS
<1>3. PICK g : g = [args |-> r, no |-> count + 2, answer |-> Nothing] OBVIOUS
<1>4. open' = open \cup {f, g}
  <2>1. 1..2 = {1, 2} OBVIOUS
  <2>2. {[args |-> <<q, r>>[i], no |-> count + i, answer |-> Nothing] : i \in 1..2} = {f, g}
        BY <1>2, <1>3, <2>1
  <2> QED BY <1>1, <2>2
<1>5. count \in 1..MaxLoads /\ count' \in 1..MaxLoads /\ \A h \in open : h.no \in 1..MaxLoads
      BY <1>1, UserRecords DEF UserInv
<1>6. /\ f \in [args: Args, no: 1..MaxLoads, answer: {Nothing}]
      /\ f.no = count + 1 /\ f.args = q /\ f.answer = Nothing
      BY <1>1, <1>2, <1>5, UserListAssumption
<1>7. /\ g \in [args: Args, no: 1..MaxLoads, answer: {Nothing}]
      /\ g.no = count + 2 /\ g.args = r /\ g.answer = Nothing
      BY <1>1, <1>3, <1>5, UserListAssumption
<1>8. \A h \in open : h.no <= count BY DEF UserInv, Counted
<1>9. \A h, k \in open : h.no = k.no => h = k BY DEF UserInv, Counted
<1>10. \A h, k \in open' : h.no = k.no => h = k BY <1>4, <1>5, <1>6, <1>7, <1>8, <1>9
<1>11. \A h \in open' : h.no <= count' BY <1>1, <1>4, <1>5, <1>6, <1>7, <1>8
<1>12. f.no > count /\ g.no > count BY <1>5, <1>6, <1>7
<1>13. \A h \in open' :
         h \in open \/ (h \in [args: Args, no: 1..MaxLoads, answer: {Nothing}] /\ h.no > count)
       BY <1>4, <1>6, <1>7, <1>12
<1>14. \E h \in open' : h.no = count' /\ h.args = r /\ h.answer = Nothing BY <1>1, <1>4, <1>7
<1>15. Sent(2, r) BY <1>1, <1>5, <1>10, <1>11, <1>13, <1>14 DEF Sent
<1> QED BY <1>1, <1>15

\* What is asked last is what is on show by then, or the request knew other things.
LEMMA AllSent ==
  ASSUME UserInv, view' \in View, view'.at = view.at, NEW q \in Args,
         LoadAll(<<q>> \o Effect(view'), view') \/ LoadAll(<<q>>, view')
  PROVE  /\ \E n \in {1, 2} : \E r \in Args : Sent(n, r) /\ ("closure" \notin trouble' => r = Now(view'))
         /\ ("shrunk" \in trouble' <=> "shrunk" \in trouble) /\ trouble' \subseteq trouble \cup {"closure"}
<1>1. Now(view') \in Args BY DEF View, Args, Now, AskedFor
<1>2. CASE LoadAll(<<q>>, view')
  <2>1. Sent(1, q) /\ After(q, view') BY <1>2, OneSent
  <2> QED BY <2>1 DEF After
<1>3. CASE LoadAll(<<q, Now(view')>>, view')
  <2>1. Sent(2, Now(view')) BY <1>1, <1>3, TwoSent
  <2>2. After(Now(view'), view') BY <1>1, <1>3, TwoSent
  <2> QED BY <1>1, <2>1, <2>2 DEF After
<1>4. \/ <<q>> \o Effect(view') = <<q>>
      \/ <<q>> \o Effect(view') = <<q, Now(view')>>
  <2>1. CASE Effect(view') = <<>> BY <2>1
  <2>2. CASE Effect(view') = <<Now(view')>>
    <3>1. PICK r \in Args : r = Now(view') BY <1>1
    <3>2. <<q>> \o <<r>> = <<q, r>>
      <4>1. <<q>> \in Seq(Args) /\ <<r>> \in Seq(Args) /\ <<q, r>> \in Seq(Args) OBVIOUS
      <4>2. Len(<<q>> \o <<r>>) = 2 /\ <<q>> \o <<r>> \in Seq(Args) BY <4>1
      <4>3. (<<q>> \o <<r>>)[1] = q /\ (<<q>> \o <<r>>)[2] = r BY <4>1
      <4>4. \A i \in 1..2 : (<<q>> \o <<r>>)[i] = <<q, r>>[i] BY <4>3
      <4> QED BY <4>1, <4>2, <4>4, SeqEqual
    <3> QED BY <2>2, <3>1, <3>2
  <2> QED BY <2>1, <2>2 DEF Effect
<1> QED BY <1>2, <1>3, <1>4

\* GETs that are sent keep their type and their numbers, and are the latest.
LEMMA SentKeeps ==
  ASSUME UserInv, view'.at = view.at, NEW n \in {1, 2}, NEW q \in Args, Sent(n, q),
         "closure" \notin trouble' => q = Now(view')
  PROVE  /\ \A g \in open' : g \in [args: Args, no: 1..MaxLoads, answer: AnswerRecord \cup {Nothing}]
         /\ count' \in 1..MaxLoads /\ Counted' /\ LatestAsked'
<1>1. \A g \in open' : g \in [args: Args, no: 1..MaxLoads, answer: AnswerRecord \cup {Nothing}]
      BY DEF Sent, UserInv, UserTypeOK
<1>2. /\ \A g \in open : g.no # view.at
      /\ view.at <= count /\ view.at \in 0..MaxLoads /\ count \in 1..MaxLoads
      BY UserRecords DEF UserInv, Counted
<1>3. count' = count + n /\ count' \in 1..MaxLoads BY DEF Sent
<1>4. \A g \in open' : g.no # view.at BY <1>1, <1>2 DEF Sent
<1>5. view.at <= count' BY <1>2, <1>3
<1>6. Counted' BY <1>4, <1>5 DEF Sent, Counted
<1>7. PICK g \in open' : g.no = count' /\ g.args = q /\ g.answer = Nothing BY DEF Sent
<1>8. LatestAsked' BY <1>7 DEF LatestAsked
<1> QED BY <1>1, <1>3, <1>6, <1>8

-----------------------------------------------------------------------------
(* One lemma for each action.                                              *)

LEMMA ServeUsersKeeps == ASSUME UserInv, ServeUsers PROVE UserInv'
<1>1. PICK g \in open :
        /\ g.answer = Nothing
        /\ open' = (open \ {g}) \cup {[g EXCEPT !.answer =
             [rows |-> RowsOf(g.args), total |-> Cardinality(Found(g.args))]]}
      BY DEF ServeUsers
<1>2. UNCHANGED <<users, view, count, debounce, request, joined, trouble, early>> BY DEF ServeUsers
<1>3. PICK a : a = [rows |-> RowsOf(g.args), total |-> Cardinality(Found(g.args))]
      OBVIOUS
<1>4. a \in AnswerRecord /\ a.rows = RowsOf(g.args)
      /\ a.total = Cardinality(Found(g.args))
      BY <1>3, FoundAreUsers DEF AnswerRecord
<1>5. PICK h : h = [g EXCEPT !.answer = a] OBVIOUS
<1>6. /\ h \in [args: Args, no: 1..MaxLoads, answer: AnswerRecord \cup {Nothing}]
      /\ h.args = g.args /\ h.no = g.no /\ h.answer = a
      BY <1>4, <1>5 DEF UserInv, UserTypeOK
<1>7. open' = (open \ {g}) \cup {h} BY <1>1, <1>3, <1>5
<1>8. \A rs, n : UpToDate(rs, n)' <=> UpToDate(rs, n) BY <1>2, SameRows
<1>9. Now(view)' = Now(view) BY <1>2
<1>10. UserTypeOK' BY <1>2, <1>6, <1>7 DEF UserInv, UserTypeOK
<1>11. Counted' BY <1>2, <1>6, <1>7 DEF UserInv, Counted
<1>12. There' BY <1>2 DEF UserInv, There
<1>13. LatestAsked'
  <2>1. g.args = Now(view) => UpToDate(a.rows, a.total)
        BY <1>4 DEF UpToDate
  <2>2. SUFFICES ASSUME trouble \subseteq {"shrunk"}, debounce = Nothing,
                        ~(request # Nothing /\ request.done),
                        ~(view.at = count /\ (joined > 0 \/ UpToDate(view.rows, view.total)))
                 PROVE  \E k \in open' : /\ k.no = count /\ k.args = Now(view)
                                         /\ joined > 0 \/ k.answer = Nothing \/ UpToDate(k.answer.rows, k.answer.total)
        BY <1>2, <1>8, <1>9 DEF LatestAsked
  <2>3. PICK k \in open : /\ k.no = count /\ k.args = Now(view)
                          /\ joined > 0 \/ k.answer = Nothing \/ UpToDate(k.answer.rows, k.answer.total)
        BY <2>2 DEF UserInv, LatestAsked
  <2>4. CASE k = g BY <1>6, <1>7, <2>1, <2>3, <2>4
  <2>5. CASE k # g BY <1>7, <2>3, <2>5
  <2> QED BY <2>4, <2>5
<1>14. OnAPage' BY <1>2 DEF UserInv, OnAPage, Found
<1> QED BY <1>10, <1>11, <1>12, <1>13, <1>14 DEF UserInv

LEMMA UsersAnsweredKeeps == ASSUME UserInv, UsersAnswered PROVE UserInv'
<1>1. PICK g \in open :
        /\ g.answer # Nothing
        /\ open' = open \ {g}
        /\ view' = [view EXCEPT !.rows = g.answer.rows, !.total = g.answer.total, !.at = g.no]
        /\ trouble' = trouble \cup (IF g.no < view.at THEN {"order"} ELSE {})
      BY DEF UsersAnswered
<1>2. UNCHANGED <<users, count, debounce, request, joined, early>> BY DEF UsersAnswered
<1>3. /\ g.answer \in AnswerRecord /\ g.no \in 1..MaxLoads /\ g.args \in Args
      /\ g.answer.rows \subseteq UserRow /\ g.answer.total \in 0..MaxUsers
      BY <1>1, UserRecords DEF UserInv, AnswerRecord
<1>4. /\ view' \in View /\ view'.search = view.search /\ view'.filter = view.filter
      /\ view'.page = view.page /\ view'.rows = g.answer.rows /\ view'.total = g.answer.total
      /\ view'.at = g.no
  <2>1. view' = [search |-> view.search, filter |-> view.filter, page |-> view.page,
                 rows |-> g.answer.rows, total |-> g.answer.total, at |-> g.no]
        BY <1>1 DEF UserInv, UserTypeOK, View
  <2>2. g.no \in 0..MaxLoads BY <1>3, UserListAssumption
  <2> QED BY <1>3, <2>1, <2>2, UserRecords DEF UserInv, View
<1>5. Now(view)' = Now(view) BY <1>4 DEF Now
<1>6. \A rs, n : UpToDate(rs, n)' <=> UpToDate(rs, n) BY <1>2, <1>5, SameRows
<1>7. view.at \in 0..MaxLoads /\ count \in 1..MaxLoads /\ g.no <= count /\ g.no # view.at
      /\ view.at <= count /\ MaxLoads \in Nat /\ g.no \in 1..MaxLoads
      BY UserRecords DEF UserInv, Counted
<1>8. trouble \subseteq trouble' /\ ("order" \notin trouble' => g.no > view.at) /\ trouble' \subseteq trouble \cup {"order"}
  <2>1. view.at \in Nat /\ g.no \in Nat /\ g.no # view.at BY <1>7
  <2>2. g.no < view.at \/ g.no > view.at BY <2>1
  <2> QED BY <1>1, <2>2
<1>9. UserTypeOK' BY <1>1, <1>2, <1>4, <1>8 DEF UserInv, UserTypeOK
<1>10. Counted' BY <1>1, <1>2, <1>4, <1>7 DEF UserInv, Counted
<1>11. There' BY <1>2, <1>8 DEF UserInv, There
<1>12. LatestAsked'
  <2>1. SUFFICES ASSUME trouble' \subseteq {"shrunk"}, debounce = Nothing,
                        ~(request # Nothing /\ request.done)
                 PROVE  \/ \E k \in open' : /\ k.no = count /\ k.args = Now(view)
                                            /\ joined > 0 \/ k.answer = Nothing \/ UpToDate(k.answer.rows, k.answer.total)
                        \/ g.no = count /\ (joined > 0 \/ UpToDate(g.answer.rows, g.answer.total))
        BY <1>2, <1>4, <1>5, <1>6 DEF LatestAsked
  <2>2. view.at # count
    <3>1. view.at \in Nat /\ g.no \in Nat /\ count \in Nat /\ g.no <= count BY <1>7
    <3>2. g.no > view.at BY <1>8, <2>1
    <3> QED BY <3>1, <3>2
  <2>3. PICK k \in open : /\ k.no = count /\ k.args = Now(view)
                          /\ joined > 0 \/ k.answer = Nothing \/ UpToDate(k.answer.rows, k.answer.total)
        BY <1>8, <2>1, <2>2 DEF UserInv, LatestAsked
  <2>4. CASE k = g BY <1>1, <2>3, <2>4
  <2>5. CASE k # g BY <1>1, <2>3, <2>5
  <2> QED BY <2>4, <2>5
<1>13. OnAPage'
  <2>1. Found(Now(view))' = Found(Now(view)) BY <1>2, <1>5, SameRows
  <2> QED BY <1>2, <1>4, <1>8, <2>1 DEF UserInv, OnAPage
<1> QED BY <1>9, <1>10, <1>11, <1>12, <1>13 DEF UserInv

LEMMA UsersFailKeeps == ASSUME UserInv, UsersFail PROVE UserInv'
<1>1. PICK g \in open :
        /\ g.answer = Nothing /\ open' = open \ {g}
        /\ trouble' = trouble \cup (IF g.no = count THEN {"lost"} ELSE {})
      BY DEF UsersFail
<1>2. UNCHANGED <<users, view, count, debounce, request, joined, early>> BY DEF UsersFail
<1>3. Now(view)' = Now(view) BY <1>2
<1>4. /\ \A rs, n : UpToDate(rs, n)' <=> UpToDate(rs, n)
      /\ Found(Now(view))' = Found(Now(view))
      BY <1>2, <1>3, SameRows
<1>5. UserTypeOK' BY <1>1, <1>2 DEF UserInv, UserTypeOK
<1>6. Counted' BY <1>1, <1>2 DEF UserInv, Counted
<1>7. There' BY <1>1, <1>2 DEF UserInv, There
<1>8. LatestAsked'
  <2>1. SUFFICES ASSUME trouble' \subseteq {"shrunk"} PROVE LatestAsked' BY DEF LatestAsked
  <2>2. g.no # count /\ trouble' = trouble BY <1>1, <2>1
  <2>3. \A k \in open : k.no = count => k \in open' BY <1>1, <2>2
  <2> QED BY <1>2, <1>3, <1>4, <2>2, <2>3 DEF UserInv, LatestAsked
<1>9. OnAPage' BY <1>1, <1>2, <1>4 DEF UserInv, OnAPage
<1> QED BY <1>5, <1>6, <1>7, <1>8, <1>9 DEF UserInv

LEMMA SearchKeeps == ASSUME UserInv, Search PROVE UserInv'
<1>1. PICK s \in {"none", "term"} :
        view' = [view EXCEPT !.search = s] /\ debounce' = AskedFor(s, view.filter, 1)
      BY DEF Search
<1>2. UNCHANGED <<users, open, count, request, joined, trouble, early>> BY DEF Search
<1>3. view' \in View /\ view'.at = view.at BY <1>1, UserListAssumption DEF UserInv, UserTypeOK, View
<1>4. debounce' \in Args BY <1>1, UserRecords DEF UserInv, Args, AskedFor
<1>5. debounce' # Nothing BY <1>4, NothingAssumption
<1>6. UserTypeOK' BY <1>2, <1>3, <1>4 DEF UserInv, UserTypeOK
<1>7. Counted' BY <1>2, <1>3 DEF UserInv, Counted
<1>8. There' BY <1>2 DEF UserInv, There
<1>9. LatestAsked' BY <1>5 DEF LatestAsked
<1>10. OnAPage' BY <1>5 DEF OnAPage
<1> QED BY <1>6, <1>7, <1>8, <1>9, <1>10 DEF UserInv

LEMMA SearchFiresKeeps == ASSUME UserInv, SearchFires PROVE UserInv'
<1>1. /\ debounce # Nothing /\ debounce' = Nothing
      /\ view' = [view EXCEPT !.page = 1]
      /\ LoadAll(<<debounce>> \o Effect(view'), view')
      /\ UNCHANGED <<users, request, joined, early>>
      BY DEF SearchFires
<1>2. view' \in View /\ view'.at = view.at /\ view'.page = 1
  <2>1. 1 \in Nat \ {0} OBVIOUS
  <2> QED BY <1>1, <2>1, ViewOn DEF UserInv, UserTypeOK
<1>3. debounce \in Args BY <1>1 DEF UserInv, UserTypeOK
<1>4. PICK q \in Args : q = debounce BY <1>3
<1>5. LoadAll(<<q>> \o Effect(view'), view') BY <1>1, <1>4
<1>6. /\ \E n \in {1, 2} : \E r \in Args : Sent(n, r) /\ ("closure" \notin trouble' => r = Now(view'))
      /\ ("shrunk" \in trouble' <=> "shrunk" \in trouble) /\ trouble' \subseteq trouble \cup {"closure"}
      BY <1>2, <1>5, AllSent
<1>7. PICK n \in {1, 2}, r \in Args : Sent(n, r) /\ ("closure" \notin trouble' => r = Now(view'))
      BY <1>6
<1>8. /\ \A g \in open' : g \in [args: Args, no: 1..MaxLoads, answer: AnswerRecord \cup {Nothing}]
      /\ count' \in 1..MaxLoads /\ Counted' /\ LatestAsked'
      BY <1>2, <1>7, SentKeeps
<1>9. UserTypeOK' BY <1>1, <1>2, <1>6, <1>8 DEF UserInv, UserTypeOK
<1>10. There' BY <1>1, <1>6 DEF UserInv, There
<1>11. OnAPage' BY <1>2 DEF OnAPage
<1> QED BY <1>8, <1>9, <1>10, <1>11 DEF UserInv

LEMMA ChooseFilterKeeps == ASSUME UserInv, ChooseFilter PROVE UserInv'
<1>1. PICK f \in Filter \ {view.filter} : view' = [view EXCEPT !.filter = f, !.page = 1]
      BY DEF ChooseFilter
<1>2. /\ LoadAll(Effect(view'), view')
      /\ UNCHANGED <<users, debounce, request, joined, early>>
      BY DEF ChooseFilter
<1>3. view' \in View /\ view'.at = view.at /\ view'.page = 1 /\ view'.filter # view.filter
  <2>1. 1 \in Nat \ {0} /\ view.search \in {"none", "term"} BY UserRecords DEF UserInv
  <2>2. view' = [view EXCEPT !.search = view.search, !.filter = f, !.page = 1]
        BY <1>1 DEF UserInv, UserTypeOK, View
  <2> QED BY <1>1, <2>1, <2>2, ViewWith DEF UserInv, UserTypeOK
<1>4. Now(view') \in Args BY <1>3 DEF View, Args, Now, AskedFor
<1>5. LoadAll(<<Now(view')>>, view') BY <1>2, <1>3 DEF Effect
<1>6. Sent(1, Now(view')) /\ trouble' = trouble \cap {"shrunk"}
      BY <1>4, <1>5, OneSent DEF After
<1>7. /\ \A g \in open' : g \in [args: Args, no: 1..MaxLoads, answer: AnswerRecord \cup {Nothing}]
      /\ count' \in 1..MaxLoads /\ Counted' /\ LatestAsked'
      BY <1>3, <1>4, <1>6, SentKeeps
<1>8. UserTypeOK' BY <1>2, <1>3, <1>6, <1>7 DEF UserInv, UserTypeOK
<1>9. There' BY <1>2, <1>6 DEF UserInv, There
<1>10. OnAPage' BY <1>3 DEF OnAPage
<1> QED BY <1>7, <1>8, <1>9, <1>10 DEF UserInv

\* With nothing open and nothing to follow the answer on show is the one asked for last.
LEMMA AllAnswered ==
  ASSUME UserInv, open = {}, debounce = Nothing, request = Nothing \/ ~request.done, joined = 0,
         trouble \subseteq {"shrunk"}
  PROVE  UpToDate(view.rows, view.total)
BY DEF UserInv, UserTypeOK, LatestAsked

LEMMA TurnPageKeeps == ASSUME UserInv, TurnPage PROVE UserInv'
<1>1. /\ TotalPages > 1
      /\ \/ view.page # 1 /\ view' = [view EXCEPT !.page = @ - 1]
         \/ view.page # TotalPages /\ view' = [view EXCEPT !.page = @ + 1]
      /\ LoadAll(Effect(view'), view')
      /\ early' = (early \/ open # {} \/ trouble \ {"shrunk"} # {})
      /\ UNCHANGED <<users, debounce, request, joined>>
      BY DEF TurnPage
<1>2. PICK p \in Nat \ {0} : /\ view' = [view EXCEPT !.page = p]
                             /\ \/ p = view.page - 1
                                \/ p = view.page + 1 /\ view.page # TotalPages
  <2>1. view.page \in Nat \ {0} BY UserRecords DEF UserInv
  <2>2. CASE view.page # 1 /\ view' = [view EXCEPT !.page = @ - 1]
    <3>1. view.page - 1 \in Nat \ {0} BY <2>1, <2>2
    <3> QED BY <2>2, <3>1
  <2>3. CASE view.page # TotalPages /\ view' = [view EXCEPT !.page = @ + 1]
    <3>1. view.page + 1 \in Nat \ {0} BY <2>1
    <3> QED BY <2>3, <3>1
  <2> QED BY <1>1, <2>2, <2>3
<1>3. /\ view' \in View /\ view'.at = view.at /\ view'.page = p
      /\ view'.search = view.search /\ view'.filter = view.filter
      BY <1>2 DEF UserInv, UserTypeOK, View
<1>4. Now(view') \in Args BY <1>3 DEF View, Args, Now, AskedFor
<1>5. view'.page # view.page
  <2>1. view.page \in Nat \ {0} BY UserRecords DEF UserInv
  <2> QED BY <1>2, <1>3, <2>1
<1>6. LoadAll(<<Now(view')>>, view') BY <1>1, <1>5 DEF Effect
<1>7. Sent(1, Now(view')) /\ trouble' = trouble \cap {"shrunk"}
      BY <1>4, <1>6, OneSent DEF After
<1>8. /\ \A g \in open' : g \in [args: Args, no: 1..MaxLoads, answer: AnswerRecord \cup {Nothing}]
      /\ count' \in 1..MaxLoads /\ Counted' /\ LatestAsked'
      BY <1>3, <1>4, <1>7, SentKeeps
<1>9. UserTypeOK'
  <2>1. early' \in BOOLEAN BY <1>1 DEF UserInv, UserTypeOK
  <2> QED BY <1>1, <1>3, <1>7, <1>8, <2>1 DEF UserInv, UserTypeOK
<1>10. There' BY <1>1, <1>7 DEF UserInv, There
<1>11. OnAPage'
  <2>1. SUFFICES ASSUME trouble = {}, ~early, open = {}, debounce = Nothing
                 PROVE  p = 1 \/ p <= PagesOf(Cardinality(Found(Now(view))'))
        BY <1>1, <1>3, <1>7 DEF OnAPage, PagesOf
  <2>2. Found(Now(view))' = Found(Now(view)) BY <1>1, <1>3 DEF Found, Now, AskedFor
  <2>3. joined = 0 /\ (request = Nothing \/ ~request.done) BY <2>1 DEF UserInv, There
  <2>4. UpToDate(view.rows, view.total) BY <2>1, <2>3, AllAnswered
  <2>5. TotalPages = PagesOf(Cardinality(Found(Now(view))))
        BY <2>4 DEF UpToDate, TotalPages, PagesOf
  <2>6. view.page = 1 \/ view.page <= PagesOf(Cardinality(Found(Now(view))))
        BY <2>1 DEF UserInv, OnAPage
  <2>7. PagesOf(Cardinality(Found(Now(view)))) \in Int
        BY FoundAreUsers, UserListAssumption DEF PagesOf
  <2>8. view.page \in Nat \ {0} BY UserRecords DEF UserInv
  <2>9. PICK t \in Int : t = PagesOf(Cardinality(Found(Now(view)))) BY <2>7
  <2>10. t > 1 /\ (view.page = 1 \/ view.page <= t)
        /\ (p = view.page - 1 \/ (p = view.page + 1 /\ view.page # t))
        BY <1>1, <1>2, <2>5, <2>6, <2>9
  <2>11. p = 1 \/ p <= t BY <2>8, <2>9, <2>10
  <2> QED BY <2>2, <2>9, <2>11
<1> QED BY <1>8, <1>9, <1>10, <1>11 DEF UserInv

LEMMA BanOrDeleteKeeps == ASSUME UserInv, BanOrDelete PROVE UserInv'
<1>1. PICK row \in view.rows, op \in {"ban", "unban", "delete"} :
        request' = [user |-> row.user, op |-> op, args |-> Now(view), done |-> FALSE]
      BY DEF BanOrDelete
<1>2. request = Nothing /\ UNCHANGED <<users, view, open, count, debounce, joined, trouble, early>>
      BY DEF BanOrDelete
<1>3. request' \in RequestRecord /\ ~request'.done
  <2>1. row.user \in User BY UserRecords DEF UserInv, UserRow
  <2> QED BY <1>1, <2>1, UserRecords DEF UserInv, RequestRecord
<1>4. UserTypeOK' BY <1>2, <1>3 DEF UserInv, UserTypeOK
<1>5. Counted' BY <1>2 DEF UserInv, Counted
<1>6. There' BY <1>2, <1>3 DEF UserInv, There
<1>7. /\ \A rs, n : UpToDate(rs, n)' <=> UpToDate(rs, n)
      /\ Found(Now(view))' = Found(Now(view)) /\ Now(view)' = Now(view)
      BY <1>2, SameRows
<1>8. LatestAsked' BY <1>2, <1>7 DEF UserInv, LatestAsked
<1>9. OnAPage' BY <1>2, <1>7 DEF UserInv, OnAPage
<1> QED BY <1>4, <1>5, <1>6, <1>8, <1>9 DEF UserInv

LEMMA ServeRequestKeeps == ASSUME UserInv, ServeRequest PROVE UserInv'
<1>1. /\ request # Nothing /\ ~request.done
      /\ request' = [request EXCEPT !.done = TRUE]
      /\ trouble' = trouble \cup {"shrunk"}
      /\ UNCHANGED <<view, open, count, debounce, joined, early>>
      BY DEF ServeRequest
<1>2. users' = [users EXCEPT ![request.user] = Becomes(request.op)]
      BY DEF ServeRequest
<1>3. request \in RequestRecord /\ request.user \in User BY <1>1, UserRecords DEF UserInv
<1>4. request' \in RequestRecord /\ request'.done BY <1>1, <1>3 DEF RequestRecord
<1>5. users \in [User -> {"active", "banned", "gone", "later"}] BY DEF UserInv, UserTypeOK
<1>6. /\ users' \in [User -> {"active", "banned", "gone", "later"}]
      /\ \A u \in User : users'[u] = "later" => users[u] = "later"
  <2>1. Becomes(request.op) \in {"active", "banned", "gone"}
        BY <1>1, UserRecords DEF UserInv, Becomes
  <2> QED BY <1>2, <1>3, <1>5, <2>1
<1>7. \A u \in User : users'[u] = "later" => users[u] = "later" BY <1>6
<1>8. UserTypeOK' BY <1>1, <1>4, <1>6 DEF UserInv, UserTypeOK
<1>9. Counted' BY <1>1 DEF UserInv, Counted
<1>10. There'
  <2>1. {u \in User : users[u] # "later"} \subseteq {u \in User : users'[u] # "later"} BY <1>7
  <2>2. IsFiniteSet({u \in User : users'[u] # "later"}) BY UsersAreFinite
  <2>3. Cardinality({u \in User : users[u] # "later"}) <= Cardinality({u \in User : users'[u] # "later"})
        BY <2>1, <2>2, FS_Subset
  <2>4. /\ Cardinality({u \in User : users[u] # "later"}) \in 0..MaxUsers
        /\ Cardinality({u \in User : users'[u] # "later"}) \in 0..MaxUsers
        BY UsersAreFinite
  <2>5. joined <= Cardinality({u \in User : users[u] # "later"}) /\ joined \in 0..MaxUsers
        BY DEF UserInv, There, UserTypeOK
  <2>6. joined <= Cardinality({u \in User : users'[u] # "later"}) BY <2>3, <2>4, <2>5
  <2> QED BY <1>1, <2>6 DEF There
<1>11. LatestAsked' BY <1>4, NothingAssumption DEF LatestAsked
<1>12. OnAPage' BY <1>1 DEF OnAPage
<1> QED BY <1>8, <1>9, <1>10, <1>11, <1>12 DEF UserInv

LEMMA RequestAnsweredKeeps == ASSUME UserInv, RequestAnswered PROVE UserInv'
<1>1. /\ request # Nothing /\ request' = Nothing /\ LoadAll(<<request.args>>, view)
      /\ UNCHANGED <<users, view, debounce, joined, early>>
      BY DEF RequestAnswered
<1>2. PICK q \in Args : q = request.args BY <1>1, UserRecords DEF UserInv
<1>3. Sent(1, q) /\ After(q, view) BY <1>1, <1>2, OneSent
<1>4. "closure" \notin trouble' => q = Now(view') BY <1>1, <1>3 DEF After
<1>5. /\ \A g \in open' : g \in [args: Args, no: 1..MaxLoads, answer: AnswerRecord \cup {Nothing}]
      /\ count' \in 1..MaxLoads /\ Counted' /\ LatestAsked'
      BY <1>1, <1>3, <1>4, SentKeeps
<1>6. ("shrunk" \in trouble' <=> "shrunk" \in trouble) /\ trouble' \subseteq trouble \cup {"closure"}
      BY <1>3 DEF After
<1>7. UserTypeOK' BY <1>1, <1>5, <1>6 DEF UserInv, UserTypeOK
<1>8. There' BY <1>1, <1>6 DEF UserInv, There
<1>9. OnAPage'
  <2>1. Found(Now(view))' = Found(Now(view)) BY <1>1 DEF Found
  <2> QED BY <1>1, <1>6, <2>1 DEF UserInv, OnAPage
<1> QED BY <1>5, <1>7, <1>8, <1>9 DEF UserInv

LEMMA RequestFailsKeeps == ASSUME UserInv, RequestFails PROVE UserInv'
<1>1. /\ request # Nothing /\ request' = Nothing
      /\ trouble' = trouble \cup (IF request.done THEN {"lost"} ELSE {})
      /\ UNCHANGED <<users, view, open, count, debounce, joined, early>>
      BY DEF RequestFails
<1>2. /\ \A rs, n : UpToDate(rs, n)' <=> UpToDate(rs, n)
      /\ Found(Now(view))' = Found(Now(view)) /\ Now(view)' = Now(view)
      BY <1>1, SameRows
<1>3. request.done \in BOOLEAN BY <1>1, UserRecords DEF UserInv
<1>4. UserTypeOK' BY <1>1 DEF UserInv, UserTypeOK
<1>5. Counted' BY <1>1 DEF UserInv, Counted
<1>6. There' BY <1>1 DEF UserInv, There
<1>7. LatestAsked'
  <2>1. SUFFICES ASSUME trouble' \subseteq {"shrunk"} PROVE LatestAsked' BY DEF LatestAsked
  <2>2. ~request.done /\ trouble' = trouble BY <1>1, <1>3, <2>1
  <2> QED BY <1>1, <1>2, <2>2 DEF UserInv, LatestAsked
<1>8. OnAPage' BY <1>1, <1>2 DEF UserInv, OnAPage
<1> QED BY <1>4, <1>5, <1>6, <1>7, <1>8 DEF UserInv

LEMMA RegistersKeeps == ASSUME UserInv, Registers PROVE UserInv'
<1>1. PICK u \in User : users[u] = "later" /\ users' = [users EXCEPT ![u] = "active"]
      BY DEF Registers
<1>2. /\ joined' = joined + 1 /\ trouble' = trouble \cup {"shrunk"}
      /\ UNCHANGED <<view, open, count, debounce, request, early>>
      BY DEF Registers
<1>3. users \in [User -> {"active", "banned", "gone", "later"}] /\ joined \in 0..MaxUsers
      BY DEF UserInv, UserTypeOK
<1>4. users' \in [User -> {"active", "banned", "gone", "later"}] BY <1>1, <1>3
<1>5. {w \in User : users'[w] # "later"} = {w \in User : users[w] # "later"} \cup {u}
      BY <1>1, <1>3
<1>6. Cardinality({w \in User : users'[w] # "later"}) = Cardinality({w \in User : users[w] # "later"}) + 1
  <2>1. IsFiniteSet({w \in User : users[w] # "later"}) BY UsersAreFinite
  <2>2. u \notin {w \in User : users[w] # "later"} BY <1>1
  <2> QED BY <1>5, <2>1, <2>2, FS_AddElement
<1>7. /\ Cardinality({w \in User : users[w] # "later"}) \in 0..MaxUsers
      /\ Cardinality({w \in User : users'[w] # "later"}) \in 0..MaxUsers
      BY UsersAreFinite
<1>8. joined <= Cardinality({w \in User : users[w] # "later"}) BY DEF UserInv, There
<1>9. /\ joined' <= Cardinality({w \in User : users'[w] # "later"})
      /\ joined' \in 0..MaxUsers /\ joined' > 0
      BY <1>2, <1>3, <1>6, <1>7, <1>8, UserListAssumption
<1>10. UserTypeOK' BY <1>2, <1>4, <1>9 DEF UserInv, UserTypeOK
<1>11. Counted' BY <1>2 DEF UserInv, Counted
<1>12. There' BY <1>2, <1>9 DEF There
<1>13. LatestAsked' BY <1>2, <1>9 DEF UserInv, LatestAsked
<1>14. OnAPage' BY <1>2 DEF OnAPage
<1> QED BY <1>10, <1>11, <1>12, <1>13, <1>14 DEF UserInv

LEMMA RefreshKeeps == ASSUME UserInv, Refresh PROVE UserInv'
<1>1. /\ joined > 0 /\ joined' = 0
      /\ view' = [view EXCEPT !.page = 1]
      /\ LoadAll(<<Now(view')>> \o Effect(view'), view')
      /\ UNCHANGED <<users, debounce, request, early>>
      BY DEF Refresh
<1>2. view' \in View /\ view'.at = view.at /\ view'.page = 1
  <2>1. 1 \in Nat \ {0} OBVIOUS
  <2> QED BY <1>1, <2>1, ViewOn DEF UserInv, UserTypeOK
<1>3. PICK q \in Args : q = Now(view') BY <1>2 DEF View, Args, Now, AskedFor
<1>4. LoadAll(<<q>> \o Effect(view'), view') BY <1>1, <1>3
<1>5. /\ \E n \in {1, 2} : \E r \in Args : Sent(n, r) /\ ("closure" \notin trouble' => r = Now(view'))
      /\ ("shrunk" \in trouble' <=> "shrunk" \in trouble) /\ trouble' \subseteq trouble \cup {"closure"}
      BY <1>2, <1>4, AllSent
<1>6. PICK n \in {1, 2}, r \in Args : Sent(n, r) /\ ("closure" \notin trouble' => r = Now(view'))
      BY <1>5
<1>7. /\ \A g \in open' : g \in [args: Args, no: 1..MaxLoads, answer: AnswerRecord \cup {Nothing}]
      /\ count' \in 1..MaxLoads /\ Counted' /\ LatestAsked'
      BY <1>2, <1>6, SentKeeps
<1>8. joined' \in 0..MaxUsers BY <1>1, UserListAssumption
<1>9. UserTypeOK' BY <1>1, <1>2, <1>5, <1>7, <1>8 DEF UserInv, UserTypeOK
<1>10. There'
  <2>1. {u \in User : users'[u] # "later"} \subseteq User OBVIOUS
  <2>2. 0 <= Cardinality({u \in User : users'[u] # "later"}) BY <2>1, UsersAreFinite
  <2> QED BY <1>1, <1>5, <2>2 DEF UserInv, There
<1>11. OnAPage' BY <1>2 DEF OnAPage
<1> QED BY <1>7, <1>9, <1>10, <1>11 DEF UserInv

LEMMA UserNextInv == UserInv /\ [UserNext]_userVars => UserInv'
<1> SUFFICES ASSUME UserInv, [UserNext]_userVars PROVE UserInv' OBVIOUS
<1>1. CASE UserNext
      BY <1>1, ServeUsersKeeps, UsersAnsweredKeeps, UsersFailKeeps, SearchKeeps,
         SearchFiresKeeps, ChooseFilterKeeps, TurnPageKeeps, BanOrDeleteKeeps,
         ServeRequestKeeps, RequestAnsweredKeeps, RequestFailsKeeps, RegistersKeeps, RefreshKeeps
      DEF UserNext
<1>2. CASE UNCHANGED userVars
  <2>1. UNCHANGED <<users, view, open, count, debounce, request, joined, trouble, early>>
        BY <1>2 DEF userVars
  <2>2. UserTypeOK' BY <2>1 DEF UserInv, UserTypeOK
  <2>3. Counted' BY <2>1 DEF UserInv, Counted
  <2>4. There' BY <2>1 DEF UserInv, There
  <2>5. /\ \A rs, n : UpToDate(rs, n)' <=> UpToDate(rs, n)
        /\ Found(Now(view))' = Found(Now(view)) /\ Now(view)' = Now(view)
        BY <2>1, SameRows
  <2>6. LatestAsked' BY <2>1, <2>5 DEF UserInv, LatestAsked
  <2>7. OnAPage' BY <2>1, <2>5 DEF UserInv, OnAPage
  <2> QED BY <2>2, <2>3, <2>4, <2>6, <2>7 DEF UserInv
<1> QED BY <1>1, <1>2

LEMMA UsersShown == UserInv => UsersInStep
<1> SUFFICES ASSUME UserInv PROVE UsersInStep OBVIOUS
<1>1. RowsOfSearch BY AllAnswered DEF RowsOfSearch, UsersSettled, UpToDate
<1>2. PageExists
  <2>1. SUFFICES ASSUME UsersSettled, trouble = {}, ~early
                 PROVE  view.page <= IF TotalPages = 0 THEN 1 ELSE TotalPages
        BY DEF PageExists
  <2>2. joined = 0 BY <2>1 DEF UserInv, There
  <2>3. UpToDate(view.rows, view.total) BY <2>1, <2>2, AllAnswered DEF UsersSettled
  <2>4. TotalPages = PagesOf(Cardinality(Found(Now(view))))
        BY <2>3 DEF UpToDate, TotalPages, PagesOf
  <2>5. view.page = 1 \/ view.page <= TotalPages
        BY <2>1, <2>4 DEF UserInv, OnAPage, UsersSettled
  <2>6. TotalPages \in Nat BY UserRecords, UserListAssumption DEF UserInv, TotalPages
  <2>7. view.page \in Nat BY UserRecords DEF UserInv
  <2> QED BY <2>5, <2>6, <2>7
<1> QED BY <1>1, <1>2 DEF UsersInStep

-----------------------------------------------------------------------------
(* DeskClients: each behaviour is of one page, and leaves the others alone. *)

DeskInv == SignInv /\ RegInv /\ UploadInv /\ MapInv /\ ListInv /\ UserInv

LEMMA DeskInitInv == DeskInit => DeskInv
BY InvInit, RegInitInv, UploadInitInv, MapInitInv, ListInitInv, UserInitInv
DEF DeskInit, DeskInv

\* A page keeps its invariant, in its own steps and in those of another page.
LEMMA DeskNextInv == DeskInv /\ [DeskNext]_deskVars => DeskInv'
<1> SUFFICES ASSUME DeskInv, [DeskNext]_deskVars PROVE DeskInv' OBVIOUS
<1>1. [SignNext]_signVars BY DEF DeskNext, deskVars
<1>2. [RegNext]_regVars BY DEF DeskNext, deskVars
<1>3. [UploadNext]_uploadVars BY DEF DeskNext, deskVars
<1>4. [MapNext]_mapVars BY DEF DeskNext, deskVars
<1>5. [ListNext]_listVars BY DEF DeskNext, deskVars
<1>6. [UserNext]_userVars BY DEF DeskNext, deskVars
<1>7. SignInv' BY <1>1, InvStep DEF DeskInv
<1>8. RegInv' BY <1>2, RegNextInv DEF DeskInv
<1>9. UploadInv' BY <1>3, UploadNextInv DEF DeskInv
<1>10. MapInv' BY <1>4, MapNextInv DEF DeskInv
<1>11. ListInv' BY <1>5, ListNextInv DEF DeskInv
<1>12. UserInv' BY <1>6, UserNextInv DEF DeskInv
<1> QED BY <1>7, <1>8, <1>9, <1>10, <1>11, <1>12 DEF DeskInv

\* Whatever the order of the answers, every variable of every page has its type: the
\* places on the plans are within them, a floor never has a higher number than floors
\* were added, and no more requests are open than the bounds allow.
THEOREM DeskTypeCorrect == DeskSpec => []DeskTypeOK
<1>1. DeskInv => DeskTypeOK
      BY DEF DeskInv, SignInv, RegInv, UploadInv, MapInv, ListInv, UserInv, DeskTypeOK
<1> QED BY <1>1, DeskInitInv, DeskNextInv, PTL DEF DeskSpec

\* Once nothing is open, the floors, plans, rows and totals shown are those of the
\* server, for what is chosen on the page: every change is followed by a GET sent after
\* it.  Where that GET or the answer to the change was lost, an older answer came last
\* or a handler filtered by what was chosen before, the page is in step again once it
\* has fetched what is on show (loadMap and loadPanos of MapDetail, the lists of the
\* panel, Users).
THEOREM PagesShowTheServer == DeskSpec => []PagesInStep
<1>1. DeskInv => PagesInStep BY MapShows, ListShows, UsersShown DEF DeskInv, PagesInStep
<1> QED BY <1>1, DeskInitInv, DeskNextInv, PTL DEF DeskSpec

\* What holds of sessions, links and uploads by themselves holds of them among the other
\* pages: sessions follow the user (the interceptors of both front ends), a used link has
\* verified its address (VerifyEmail), and nothing chosen is skipped or sent twice
\* (uploadSingle and uploadPano of MapDetail), but for what the properties name.
THEOREM DeskKeepsItsParts ==
  DeskSpec => [](SessionFollowsUser /\ UsedMeansVerified /\ UploadInStep)
<1>1. SignInv => SessionFollowsUser BY FollowsFromInv
<1>2. RegInv => UsedMeansVerified BY DEF RegInv, Marked, UsedMeansVerified
<1>3. UploadInv => UploadInStep
      BY DEF UploadInv, Undisturbed, Status, UploadInStep, OfferedOnce
<1>4. DeskInv => SessionFollowsUser /\ UsedMeansVerified /\ UploadInStep
      BY <1>1, <1>2, <1>3 DEF DeskInv
<1> QED BY <1>4, DeskInitInv, DeskNextInv, PTL DEF DeskSpec

=============================================================================
