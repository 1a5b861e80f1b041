------------------------------- MODULE SignIn -------------------------------
(***************************************************************************)
(* Who is signed in: the tabs of one browser, some on the game and some on *)
(* the admin panel, which share its cookies; the interceptor of client.ts  *)
(* and adminClient.ts, which answers a 401 by a refresh and a retry; and   *)
(* the token endpoints of services/game/internal/auth, which keep one      *)
(* refresh token per account in Valkey.  The refresh goes through the same *)
(* interceptor: its own 401 starts another refresh, and so on until one    *)
(* succeeds or nginx limits the burst, and every refresh that is retried   *)
(* on the way back rotates the token once more.                            *)
(*                                                                         *)
(* Tokens are compared with the stored one and never with each other, so   *)
(* of a refresh token only that matters: whether it is the stored one.     *)
(***************************************************************************)
EXTENDS Integers, FiniteSets

CONSTANTS
  PlayerTab,  \* tabs on the game
  AdminTab,   \* tabs on the admin panel
  Burst,      \* refreshes in a row that nginx lets through (limit_req zone=auth)
  Browsers    \* bound: the sets of tabs a browser has open

ASSUME SignInAssumption ==
  /\ IsFiniteSet(PlayerTab) /\ IsFiniteSet(AdminTab) /\ PlayerTab \cap AdminTab = {}
  /\ Burst \in Nat \ {0}
  /\ Browsers # {} /\ \A tabs \in Browsers : tabs \subseteq PlayerTab \cup AdminTab

Tab == PlayerTab \cup AdminTab
Realm == {"player", "admin"}
RealmOf(t) == IF t \in PlayerTab THEN "player" ELSE "admin"

VARIABLES
  access,   \* the browser holds the access cookie of a realm
  refresh,  \* its refresh cookie: none, current (the stored one) or stale
  tabPage,  \* of each tab: login, app or closed
  call,     \* of each tab: the HTTP call in flight
  signed    \* of each realm: how its session should be, live or ended; unsure when
            \* the account was used elsewhere, two calls overlapped, a token was
            \* not stored or deleted, or was lost on its way (history)

signVars == <<access, refresh, tabPage, call, signed>>

Quiet == [pc |-> "none"]
Open == {t \in Tab : call[t] # Quiet}

SignInit ==
  /\ access = [r \in Realm |-> FALSE] /\ refresh = [r \in Realm |-> "none"]
  /\ \E tabs \in Browsers :
       tabPage = [t \in Tab |-> IF t \in tabs THEN "login" ELSE "closed"]
  /\ call = [t \in Tab |-> Quiet]
  /\ signed = [r \in Realm |-> "ended"]

-----------------------------------------------------------------------------
(* The pages.                                                              *)

\* Whom a request is served as: the game prefers access_token and the panel
\* admin_token; either falls back to the other one.
Who(r, acc) ==
  LET other == CHOOSE s \in Realm : s # r IN
  IF acc[r] THEN r ELSE IF acc[other] THEN other ELSE "nobody"

\* A call of op: at level 0 the request itself, at level n the n-th refresh of
\* its chain, for the first time or again; it carries the cookies of now, and
\* logout is a route of the game, whichever page calls it.
NewCall(t, op, level, again, acc, ref) ==
  [pc |-> "sent", op |-> op, level |-> level, again |-> again, gets |-> "none",
   who |-> IF level = 0 THEN Who(IF op = "logout" THEN "player" ELSE RealmOf(t), acc)
           ELSE "nobody",
   carries |-> IF level = 0 THEN "none" ELSE ref[RealmOf(t)]]

\* Login with the right or a wrong password, the calls of the app, Logout.
Asks(t) ==
  /\ call[t] = Quiet /\ tabPage[t] # "closed"
  /\ \E op \in IF tabPage[t] = "login" THEN {"login", "wrong"} ELSE {"use", "logout"} :
       call' = [call EXCEPT ![t] = NewCall(t, op, 0, FALSE, access, refresh)]
  /\ UNCHANGED <<access, refresh, tabPage, signed>>

\* Opening the app mounts AuthGuard, which asks who the user is.
OpensApp(t) ==
  /\ call[t] = Quiet /\ tabPage[t] = "login"
  /\ tabPage' = [tabPage EXCEPT ![t] = "app"]
  /\ call' = [call EXCEPT ![t] = NewCall(t, "use", 0, FALSE, access, refresh)]
  /\ UNCHANGED <<access, refresh, signed>>

-----------------------------------------------------------------------------
(* The token endpoints.                                                    *)

Outdated(token) == IF token = "current" THEN "stale" ELSE token

\* Every token of realm r but the one that call t gets is not the stored one.
Revoke(r, t, pc, token) ==
  /\ refresh' = [refresh EXCEPT ![r] = Outdated(@)]
  /\ call' = [u \in Tab |->
       IF u = t THEN [call[u] EXCEPT !.pc = pc, !.gets = token]
       ELSE IF call[u] # Quiet /\ RealmOf(u) = r
         THEN [call[u] EXCEPT !.carries = Outdated(@), !.gets = Outdated(@)]
       ELSE call[u]]

Reply(t, pc) == call' = [call EXCEPT ![t].pc = pc]

Requested(t, op) == call[t].pc = "sent" /\ call[t].level = 0 /\ call[t].op = op

Unsure(r, known, doubt) ==
  signed' = [signed EXCEPT ![r] = IF @ \in known /\ doubt THEN "unsure" ELSE @]

\* The other refreshes of the account that are open.
Refreshing(t) == {u \in Open \ {t} : RealmOf(u) = RealmOf(t) /\ call[u].level > 0}

\* issueTokens: one token per account, so a login revokes the one before.
ServeLogin(t) ==
  /\ Requested(t, "login")
  /\ Revoke(RealmOf(t), t, "ok", "current")
  /\ signed' = [signed EXCEPT ![RealmOf(t)] = IF Refreshing(t) = {} THEN "live" ELSE "unsure"]
  /\ UNCHANGED <<access, tabPage>>

\* Valkey fails and nobody looks: the new token is given out, the one before stays
\* the stored one.
NotStored(t) ==
  /\ Requested(t, "login") \/ call[t].pc = "checked"
  /\ call' = [call EXCEPT ![t].pc = "ok", ![t].gets = "stale"]
  /\ signed' = [signed EXCEPT ![RealmOf(t)] = "unsure"]
  /\ UNCHANGED <<access, refresh, tabPage>>

\* Mutant: a logout clears the cookies and leaves the token stored.
ServeLogoutCookies(t) ==
  /\ Requested(t, "logout") /\ call[t].who # "nobody"
  /\ Reply(t, "ok") /\ signed' = [signed EXCEPT ![call[t].who] = "ended"]
  /\ UNCHANGED <<access, refresh, tabPage>>

\* Logout deletes the token of whom Required found: the player's, even when the
\* panel asks, as long as a player is signed in too.
ServeLogout(t) ==
  /\ Requested(t, "logout") /\ call[t].who # "nobody"
  /\ Revoke(call[t].who, t, "ok", "none")
  /\ signed' = [signed EXCEPT ![call[t].who] = "ended"]
  /\ UNCHANGED <<access, tabPage>>

\* Valkey fails and nobody looks: the cookies are cleared, the token stays stored.
NotDeleted(t) ==
  /\ Requested(t, "logout") /\ call[t].who # "nobody"
  /\ Reply(t, "ok") /\ signed' = [signed EXCEPT ![call[t].who] = "unsure"]
  /\ UNCHANGED <<access, refresh, tabPage>>

\* The panel is forbidden to a player; no 401, so no refresh.
ServeUse(t) ==
  /\ Requested(t, "use") /\ call[t].who # "nobody"
  /\ Reply(t, IF t \in AdminTab /\ call[t].who = "player" THEN "403" ELSE "ok")
  /\ UNCHANGED <<access, refresh, tabPage, signed>>

Unauthorized(t) ==
  /\ Requested(t, "wrong") \/ (\E op \in {"use", "logout"} : Requested(t, op) /\ call[t].who = "nobody")
  /\ Reply(t, "401")
  /\ UNCHANGED <<access, refresh, tabPage, signed>>

\* Refresh GETs the stored token and compares; a GET that fails is a token revoked ...
RefreshCheck(t) ==
  /\ call[t].pc = "sent" /\ call[t].level \in 1..Burst
  /\ (call[t].carries = "current" /\ Reply(t, "checked")) \/ Reply(t, "401")
  /\ UNCHANGED <<access, refresh, tabPage, signed>>

\* A refresh tried again is not tried a third time when its token is outrun.
Outruns(t) == \E u \in Refreshing(t) : call[u].again /\ call[u].carries = "current"

\* ... and SETs a new one without looking again, even after a logout.
RefreshIssue(t) ==
  /\ call[t].pc = "checked"
  /\ Revoke(RealmOf(t), t, "ok", "current")
  /\ Unsure(RealmOf(t), {"live", "ended"}, call[t].carries # "current" \/ Outruns(t))
  /\ UNCHANGED <<access, tabPage>>

\* nginx limits the endpoint, at the latest to the last refresh of a burst.
Limited(t) ==
  /\ call[t].pc = "sent" /\ call[t].level > 0
  /\ Reply(t, "429")
  /\ UNCHANGED <<access, refresh, tabPage, signed>>

-----------------------------------------------------------------------------
(* The answer reaches the browser, then the interceptor.                   *)

\* Set-Cookie of a token, maybe of one that a later one has revoked.
TokenReceived(t, r) ==
  /\ access' = [access EXCEPT ![r] = TRUE]
  /\ refresh' = [refresh EXCEPT ![r] = call[t].gets]
  /\ Unsure(r, {"live"}, call[t].gets = "stale")

\* clearCookies drops both access cookies; the refresh cookies have a path of
\* their own and stay.
Received(t) ==
  LET c == call[t] IN
  IF c.pc = "ok" /\ c.gets # "none" THEN TokenReceived(t, RealmOf(t))
  ELSE /\ access' = IF c.pc = "ok" /\ c.level = 0 /\ c.op = "logout"
                      THEN [r \in Realm |-> FALSE] ELSE access
       /\ UNCHANGED <<refresh, signed>>

Completed(t) ==
  /\ call[t].pc = "ok" /\ call[t].level = 0
  /\ tabPage' = [tabPage EXCEPT ![t] = CASE call[t].op = "login" -> "app"
                                         [] call[t].op = "logout" -> "login"
                                         [] OTHER -> @]
  /\ call' = [call EXCEPT ![t] = Quiet]
  /\ Received(t)

\* The request is sent again with the cookies of now.
Resend(t, level, again) ==
  call' = [call EXCEPT ![t] = NewCall(t, @.op, level, again, access', refresh')]

\* A refresh that succeeded: what it was for is tried again, a refresh included.
Retried(t) ==
  /\ call[t].pc = "ok" /\ call[t].level > 0
  /\ Received(t) /\ Resend(t, call[t].level - 1, TRUE)
  /\ UNCHANGED tabPage

\* The first 401 of a call starts a refresh.
Refreshes(t) ==
  /\ call[t].pc = "401" /\ ~call[t].again
  /\ Received(t) /\ Resend(t, call[t].level + 1, FALSE)
  /\ UNCHANGED tabPage

\* A refresh that fails for good: the page is loaded anew at /login, the error of
\* a wrong password with it.  A request refused after its refresh, or forbidden,
\* is rejected; AuthGuard then goes there as well, logout ignores it and does too.
SentToLogin(t) ==
  /\ call[t].pc \in {"429", "403"} \/ (call[t].pc = "401" /\ call[t].again)
  /\ tabPage' = [tabPage EXCEPT ![t] = "login"]
  /\ call' = [call EXCEPT ![t] = Quiet]
  /\ Received(t)

\* An error of the server, or a request or an answer that is lost, and what it
\* brings with it: rejected, and a refresh with all that it was for.  Other pages
\* than AuthGuard stay as they are.
Lost(t) ==
  /\ call[t].pc \in {"sent", "ok"}
  /\ call' = [call EXCEPT ![t] = Quiet]
  /\ \/ tabPage' = [tabPage EXCEPT ![t] = "login"]
     \/ call[t].level = 0 /\ call[t].op = "use" /\ UNCHANGED tabPage
  /\ Unsure(RealmOf(t), {"live"}, call[t].gets = "current")
  /\ UNCHANGED <<access, refresh>>

Returns(t) == Completed(t) \/ Retried(t) \/ Refreshes(t) \/ SentToLogin(t)

-----------------------------------------------------------------------------
(* Outside the tabs.                                                       *)

\* The access cookie reaches its age.  Bound: a cookie lives longer than the
\* chain of calls that brought it.
AccessExpires ==
  \E r \in Realm :
    /\ access[r] /\ \A t \in Open : ~call[t].again /\ call[t].level = 0
    /\ access' = [access EXCEPT ![r] = FALSE]
    /\ UNCHANGED <<refresh, tabPage, call, signed>>

\* Another device signs in to the account: refresh:{user} is overwritten.
LoginElsewhere ==
  \E r \in Realm :
    /\ refresh' = [refresh EXCEPT ![r] = Outdated(@)]
    /\ call' = [t \in Tab |-> IF t \in Open /\ RealmOf(t) = r
                  THEN [call[t] EXCEPT !.carries = Outdated(@), !.gets = Outdated(@)]
                  ELSE call[t]]
    /\ Unsure(r, {"live"}, TRUE)
    /\ UNCHANGED <<access, tabPage>>

Endpoints(t) ==
  \/ ServeLogin(t) \/ ServeLogout(t) \/ ServeUse(t) \/ Unauthorized(t)
  \/ RefreshCheck(t) \/ RefreshIssue(t) \/ Limited(t) \/ NotStored(t) \/ NotDeleted(t)

SignNext ==
  \/ \E t \in Tab : Asks(t) \/ OpensApp(t) \/ Endpoints(t) \/ Lost(t) \/ Returns(t)
  \/ AccessExpires \/ LoginElsewhere

SignSpec == SignInit /\ [][SignNext]_signVars

\* A call that is sent is answered and its answer handled, in the end.
CallMoves(t) == t \in Open /\ (Endpoints(t) \/ Returns(t))

-----------------------------------------------------------------------------
(* Properties.                                                             *)

TokenState == {"none", "current", "stale"}
CallRecord ==
  [pc: {"sent", "checked", "ok", "401", "403", "429"}, op: {"login", "wrong", "use", "logout"},
   level: 0..Burst + 1, again: BOOLEAN, gets: TokenState, who: Realm \cup {"nobody"},
   carries: TokenState]

\* Every variable has its type.
SignTypeOK ==
  /\ access \in [Realm -> BOOLEAN] /\ refresh \in [Realm -> TokenState]
  /\ tabPage \in [Tab -> {"login", "app", "closed"}]
  /\ call \in [Tab -> CallRecord \cup {Quiet}]
  /\ signed \in [Realm -> {"live", "ended", "unsure"}]

\* Of one realm at most one token is the stored one, in the browser or under way.
RefreshOpen(r) == \E t \in Open : RealmOf(t) = r /\ (call[t].level > 0 \/ call[t].op = "login")

\* A session is kept: however many tabs refresh, and however often a chain rotates
\* the token on its way back, the browser ends with the stored token, unless the
\* user signed out, signed in elsewhere, two calls that issue tokens overlapped,
\* or the last token was not stored or did not arrive.
SessionKept ==
  \A r \in Realm : signed[r] = "live" /\ ~RefreshOpen(r) => refresh[r] = "current"

\* A sign-out ends the session of whom it was served as: nothing the browser keeps
\* can be refreshed, unless a refresh that had compared the token comes after it or
\* the token was not deleted.
SignOutEnds == \A r \in Realm : signed[r] = "ended" => refresh[r] # "current"

\* Who is signed in stays so until he signs out, and no longer.
SessionFollowsUser == SessionKept /\ SignOutEnds

\* A chain of refreshes ends: every call comes back to its page, each time.
CallsEnd == \A t \in Tab : []<>(call[t] = Quiet)

=============================================================================
