---------------------------- MODULE Registration ----------------------------
(***************************************************************************)
(* One account from the form of Register.tsx to a verified e-mail: the     *)
(* answer of the registration may be lost, the mail is sent by a Celery    *)
(* task that is tried again, the link may be followed more than once at a  *)
(* time (by the reader and by a mail scanner), and VerifyEmail writes two  *)
(* rows in two statements.                                                 *)
(***************************************************************************)
EXTENDS Integers, FiniteSets

CONSTANTS
  Visit,      \* times the link is followed
  MaxRetries  \* of the mail task (max_retries = 3)

ASSUME RegistrationAssumption == IsFiniteSet(Visit) /\ MaxRetries \in Nat

VARIABLES
  form,      \* Register.tsx: form, sending, refused, done; then login, app
  account,   \* the row in users: none, unverified or verified
  link,      \* the row in email_verification_tokens: none, fresh, used, expired
  mail,      \* the task: none, handing (to the workers), queued, sent, lost
  retries,   \* how often the task was tried again
  visits,    \* each request of the link
  lost       \* "answer", "visit": what was cut off (history)

regVars == <<form, account, link, mail, retries, visits, lost>>

RegInit ==
  /\ form = "form" /\ account = "none" /\ link = "none"
  /\ mail = "none" /\ retries = 0
  /\ visits = [v \in Visit |-> "none"] /\ lost = {}

-----------------------------------------------------------------------------
(* The form.                                                               *)

\* The button is disabled while a request is under way; the fields are required
\* and as long as the server wants them.
SendForm ==
  /\ form \in {"form", "refused"} /\ form' = "sending"
  /\ UNCHANGED <<account, link, mail, retries, visits, lost>>

\* Register: INSERT the user, INSERT the token (a failure is ignored), hand the
\* mail to the workers without waiting.  The answer may be lost.
ServeRegister ==
  /\ form = "sending" /\ account = "none"
  /\ account' = "unverified"
  /\ \/ link' = "fresh" \/ link' = "none"
  /\ mail' = "handing"
  /\ \/ form' = "done" /\ lost' = lost
     \/ form' = "refused" /\ lost' = lost \cup {"answer"}
  /\ UNCHANGED <<retries, visits>>

\* The name is taken, by this very account when an answer was lost; or the
\* request fails.
RefuseRegister ==
  /\ form = "sending" /\ form' = "refused"
  /\ UNCHANGED <<account, link, mail, retries, visits, lost>>

\* "Continue to app" logs in with what was typed, verified or not; or leads to
\* the page of the login.
ContinueToApp ==
  /\ form = "done" /\ form' \in IF account = "none" THEN {"login"} ELSE {"app", "login"}
  /\ UNCHANGED <<account, link, mail, retries, visits, lost>>

-----------------------------------------------------------------------------
(* The mail.                                                               *)

\* POST to the workers, which queue the task; nobody looks whether that failed.
HandOver ==
  /\ mail = "handing" /\ mail' \in {"queued", "lost"}
  /\ UNCHANGED <<form, account, link, retries, visits, lost>>

\* SMTP takes it, or the task is tried again, or given up.
SendMail ==
  /\ mail = "queued"
  /\ \/ mail' = "sent" /\ UNCHANGED retries
     \/ retries < MaxRetries /\ retries' = retries + 1 /\ UNCHANGED mail
     \/ retries = MaxRetries /\ mail' = "lost" /\ UNCHANGED retries
  /\ UNCHANGED <<form, account, link, visits, lost>>

-----------------------------------------------------------------------------
(* The link.                                                               *)

At(v, here, there) == visits[v] = here /\ visits' = [visits EXCEPT ![v] = there]

\* Mutant: the link is consumed by the look at it.
FollowConsumes ==
  /\ mail = "sent"
  /\ \E v \in Visit : At(v, "none", IF link = "fresh" THEN "checked" ELSE "refused")
  /\ link' = IF link = "fresh" THEN "used" ELSE link
  /\ UNCHANGED <<form, account, mail, retries, lost>>

\* The link in the mail leads to the API itself: VerifyEmail looks whether the token
\* is used or expired ...
Follow ==
  /\ mail = "sent"
  /\ \E v \in Visit : At(v, "none", IF link = "fresh" THEN "checked" ELSE "refused")
  /\ UNCHANGED <<form, account, link, mail, retries, lost>>

\* ... marks it as used ...
MarkUsed ==
  /\ \E v \in Visit : At(v, "checked", "marked")
  /\ link' = "used"
  /\ UNCHANGED <<form, account, mail, retries, lost>>

\* ... and the user as verified, and redirects to the frontend.
Verify ==
  /\ \E v \in Visit : At(v, "marked", "verified")
  /\ account' = "verified"
  /\ UNCHANGED <<form, link, mail, retries, lost>>

\* A statement fails, or the server stops in between.
CutOff ==
  /\ \E v \in Visit : At(v, "checked", "failed") \/ At(v, "marked", "failed")
  /\ lost' = lost \cup {"visit"}
  /\ UNCHANGED <<form, account, link, mail, retries>>

\* 24 hours are over.
Expire ==
  /\ link = "fresh" /\ link' = "expired"
  /\ UNCHANGED <<form, account, mail, retries, visits, lost>>

RegNext ==
  \/ SendForm \/ ServeRegister \/ RefuseRegister \/ ContinueToApp \/ HandOver \/ SendMail
  \/ Follow \/ MarkUsed \/ Verify \/ CutOff \/ Expire

RegSpec == RegInit /\ [][RegNext]_regVars

-----------------------------------------------------------------------------
(* Properties.                                                             *)

\* Every variable has its type.
RegTypeOK ==
  /\ form \in {"form", "sending", "refused", "done", "login", "app"}
  /\ account \in {"none", "unverified", "verified"}
  /\ link \in {"none", "fresh", "used", "expired"}
  /\ mail \in {"none", "handing", "queued", "sent", "lost"} /\ retries \in 0..MaxRetries
  /\ visits \in [Visit -> {"none", "checked", "marked", "verified", "refused", "failed"}]
  /\ lost \subseteq {"answer", "visit"}

\* A used link means a verified e-mail, whoever followed it at the same time, unless
\* a request was cut off between its two statements: nothing repairs that, since
\* the link is refused from then on and no other is ever sent.
UsedMeansVerified ==
  link = "used" /\ (\A v \in Visit : visits[v] # "marked") /\ "visit" \notin lost
  => account = "verified"

=============================================================================
