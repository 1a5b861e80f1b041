---------------------------- MODULE SignInProofs ----------------------------
(***************************************************************************)
(* Proof about SignIn, for any number of tabs on the game and on the panel *)
(* and chains of refreshes of any length: who is signed in stays so until  *)
(* he signs out, and no longer.                                            *)
(***************************************************************************)
EXTENDS SignIn, TLAPS

\* A call that brings a token has been answered; a request itself carries none.
Fits(c) ==
  /\ c.gets # "none" => c.pc = "ok" /\ (c.level > 0 \/ c.op = "login")
  /\ c.level = 0 => c.carries = "none"
  /\ c.pc \in {"401", "checked"} => c.level <= Burst
  /\ c.pc = "checked" => c.level > 0

CallsFit == \A t \in Tab : call[t] # Quiet => Fits(call[t])

\* The stored token of a live session is in the browser, or on its way there.
LiveIsHeld ==
  \A r \in Realm : signed[r] = "live" =>
    \/ refresh[r] = "current"
    \/ \E t \in Open : RealmOf(t) = r /\ call[t].gets = "current"

\* Neither the browser nor a call of an ended session has the stored token.
EndedIsNot ==
  \A r \in Realm : signed[r] = "ended" =>
    /\ refresh[r] # "current"
    /\ \A t \in Open : RealmOf(t) = r => call[t].carries # "current" /\ call[t].gets # "current"

SignInv == SignTypeOK /\ CallsFit /\ LiveIsHeld /\ EndedIsNot

\* Beside the call of t nothing of the calls has changed.
Others(t) == \A u \in Tab \ {t} : call'[u] = call[u]

-----------------------------------------------------------------------------
(* What the lemmas about the actions rest on.                              *)

LEMMA FollowsFromInv == SignInv => SessionFollowsUser
<1> SUFFICES ASSUME SignInv PROVE SessionFollowsUser OBVIOUS
<1>1. SignOutEnds BY DEF SignInv, EndedIsNot, SignOutEnds
<1>2. SessionKept
  <2> SUFFICES ASSUME NEW r \in Realm, signed[r] = "live", ~RefreshOpen(r)
               PROVE  refresh[r] = "current"
      BY DEF SessionKept
  <2>1. ASSUME NEW t \in Open, RealmOf(t) = r PROVE call[t].gets # "current"
        BY <2>1 DEF SignInv, CallsFit, Fits, RefreshOpen, Open
  <2> QED BY <2>1 DEF SignInv, LiveIsHeld
<1> QED BY <1>1, <1>2 DEF SessionFollowsUser

LEMMA RealmOfTab == \A t : RealmOf(t) \in Realm
BY DEF RealmOf, Realm

LEMMA OpenCall ==
  ASSUME SignTypeOK, NEW t \in Tab, call[t].pc # "none"
  PROVE  call[t] # Quiet /\ t \in Open /\ call[t] \in CallRecord
BY DEF SignTypeOK, Open, Quiet

LEMMA RecordIsNotQuiet == \A c \in CallRecord : c # Quiet
BY DEF CallRecord, Quiet

LEMMA WhoIsServed ==
  ASSUME NEW r \in Realm, NEW acc PROVE Who(r, acc) \in Realm \cup {"nobody"}
<1>1. \E s \in Realm : s # r BY DEF Realm
<1>2. (CHOOSE s \in Realm : s # r) \in Realm BY <1>1
<1> QED BY <1>2 DEF Who

\* A request sent again is typed and fits; it brings nothing and carries what the
\* browser has.
LEMMA ResendFits ==
  ASSUME SignTypeOK, NEW t \in Tab, call[t] \in CallRecord,
         NEW level \in 0..Burst + 1, NEW again \in BOOLEAN, Resend(t, level, again),
         refresh' \in [Realm -> TokenState]
  PROVE  /\ call' = [call EXCEPT ![t] = call'[t]]
         /\ call'[t] \in CallRecord /\ Fits(call'[t]) /\ call'[t].gets = "none"
         /\ call'[t].carries = "current" => refresh'[RealmOf(t)] = "current"
<1> DEFINE new == NewCall(t, call[t].op, level, again, access', refresh')
<1>1. call' = [call EXCEPT ![t] = new] /\ call'[t] = new BY DEF Resend, SignTypeOK
<1>2. RealmOf(t) \in Realm /\ "player" \in Realm /\ refresh'[RealmOf(t)] \in TokenState
      BY RealmOfTab DEF Realm
<1>3. \A r \in Realm : Who(r, access') \in Realm \cup {"nobody"} BY WhoIsServed
<1>4. /\ new \in CallRecord /\ Fits(new) /\ new.gets = "none"
      /\ new.carries = "current" => refresh'[RealmOf(t)] = "current"
      BY <1>2, <1>3 DEF NewCall, CallRecord, Fits, TokenState
<1> QED BY <1>1, <1>4

\* The call of t is replaced by one that brings nothing, as it did before, and
\* carries nothing that is stored unless the browser has that.
LEMMA QuietStep ==
  ASSUME SignInv, NEW t \in Tab, UNCHANGED <<refresh, signed>>,
         access' \in [Realm -> BOOLEAN], tabPage' \in [Tab -> {"login", "app", "closed"}],
         call' = [call EXCEPT ![t] = call'[t]],
         call[t] # Quiet => call[t].gets = "none",
         \/ call'[t] = Quiet
         \/ /\ call'[t] \in CallRecord /\ Fits(call'[t]) /\ call'[t].gets = "none"
            /\ call'[t].carries = "current" =>
                 \/ refresh[RealmOf(t)] = "current"
                 \/ call[t] # Quiet /\ call[t].carries = "current"
  PROVE  SignInv'
<1>0. Others(t) BY DEF SignInv, SignTypeOK, Others
<1>1. SignTypeOK' BY DEF SignInv, SignTypeOK
<1>2. CallsFit' BY <1>0 DEF SignInv, CallsFit, Others
<1>3. LiveIsHeld' BY <1>0 DEF SignInv, LiveIsHeld, Others, Open
<1>4. EndedIsNot' BY <1>0 DEF SignInv, EndedIsNot, Others, Open
<1> QED BY <1>1, <1>2, <1>3, <1>4 DEF SignInv

\* An answer of the server to the call of t, which brings no token.
LEMMA ReplyStep ==
  ASSUME SignInv, NEW t \in Tab, call[t] \in CallRecord, call[t].pc = "sent",
         NEW pc \in {"checked", "ok", "401", "403", "429"}, Reply(t, pc),
         pc \in {"401", "checked"} => call[t].level <= Burst,
         pc = "checked" => call[t].level > 0,
         UNCHANGED <<access, refresh, tabPage, signed>>
  PROVE  SignInv'
<1>1. call[t] # Quiet /\ Fits(call[t]) BY RecordIsNotQuiet DEF SignInv, CallsFit
<1>2. call[t].gets = "none" BY <1>1 DEF Fits
<1>4. /\ call'[t] = [call[t] EXCEPT !.pc = pc]
      /\ call' = [call EXCEPT ![t] = call'[t]]
      BY DEF Reply, SignInv, SignTypeOK
<1>5. /\ call'[t] \in CallRecord /\ call'[t].pc = pc /\ call'[t].gets = "none"
      /\ call'[t].level = call[t].level /\ call'[t].carries = call[t].carries
      BY <1>2, <1>4 DEF CallRecord
<1>6. Fits(call'[t]) BY <1>1, <1>5 DEF Fits
<1> QED BY <1>1, <1>2, <1>4, <1>5, <1>6, QuietStep DEF SignInv, SignTypeOK

\* The call of t goes on with a token that is not stored, or with none, or ends, and
\* nothing is known any more of a session it had the token of.
LEMMA DoubtStep ==
  ASSUME SignInv, NEW t \in Tab, call[t] # Quiet, UNCHANGED <<access, refresh>>,
         tabPage' \in [Tab -> {"login", "app", "closed"}],
         call' = [call EXCEPT ![t] = call'[t]],
         \/ call'[t] = Quiet
         \/ /\ call'[t] \in CallRecord /\ Fits(call'[t]) /\ call'[t].gets # "current"
            /\ call'[t].carries = call[t].carries,
         signed' \in [Realm -> {"live", "ended", "unsure"}],
         \A s \in Realm : signed'[s] = "ended" => signed[s] = "ended",
         \A s \in Realm : signed'[s] = "live" =>
           signed[s] = "live" /\ ~(RealmOf(t) = s /\ call[t].gets = "current")
  PROVE  SignInv'
<1>0. Others(t) BY DEF SignInv, SignTypeOK, Others
<1>1. SignTypeOK' BY DEF SignInv, SignTypeOK
<1>2. CallsFit' BY <1>0 DEF SignInv, CallsFit, Others
<1>3. LiveIsHeld' BY <1>0 DEF SignInv, LiveIsHeld, Others, Open
<1>4. EndedIsNot' BY <1>0 DEF SignInv, EndedIsNot, Others, Open
<1> QED BY <1>1, <1>2, <1>3, <1>4 DEF SignInv

\* The token of realm r changes hands: the call of t gets the new one, if any.
LEMMA RevokeStep ==
  ASSUME SignInv, NEW t \in Tab, NEW r \in Realm, NEW token \in {"current", "none"},
         Revoke(r, t, "ok", token), call[t] \in CallRecord,
         token = "current" => r = RealmOf(t) /\ (call[t].level > 0 \/ call[t].op = "login"),
         token = "none" => call[t].level = 0, call[t].pc # "ok",
         UNCHANGED <<access, tabPage>>,
         signed' \in [Realm -> {"live", "ended", "unsure"}],
         \A s \in Realm \ {r} : signed'[s] = signed[s],
         signed'[r] = "live" => token = "current",
         signed'[r] = "ended" =>
           token = "none"
  PROVE  SignInv'
<1>1. /\ refresh \in [Realm -> TokenState] /\ call \in [Tab -> CallRecord \cup {Quiet}]
      BY DEF SignInv, SignTypeOK
<1>2. /\ refresh' = [refresh EXCEPT ![r] = Outdated(@)]
      /\ refresh' \in [Realm -> TokenState]
      /\ refresh'[r] # "current" /\ \A s \in Realm \ {r} : refresh'[s] = refresh[s]
      BY <1>1 DEF Revoke, Outdated, TokenState
<1>3. /\ call'[t] = [call[t] EXCEPT !.pc = "ok", !.gets = token]
      /\ \A u \in Tab \ {t} :
           call'[u] = IF call[u] # Quiet /\ RealmOf(u) = r
                        THEN [call[u] EXCEPT !.carries = Outdated(@), !.gets = Outdated(@)]
                        ELSE call[u]
      BY DEF Revoke
<1>4. /\ call'[t] \in CallRecord /\ call'[t] # Quiet
      /\ call'[t].pc = "ok" /\ call'[t].gets = token
      /\ call'[t].level = call[t].level /\ call'[t].op = call[t].op
      /\ call'[t].carries = call[t].carries
  <2> DEFINE c == call[t]
  <2>1. call'[t] = [c EXCEPT !.pc = "ok", !.gets = token] BY <1>3
  <2>2. token \in TokenState BY DEF TokenState
  <2>3. c \in CallRecord OBVIOUS
  <2> HIDE DEF c
  <2>4. /\ call'[t] \in CallRecord /\ call'[t].pc = "ok" /\ call'[t].gets = token
        /\ call'[t].level = c.level /\ call'[t].op = c.op /\ call'[t].carries = c.carries
        BY <2>1, <2>2, <2>3 DEF CallRecord
  <2> QED BY <2>4, RecordIsNotQuiet DEF c
<1>5. ASSUME NEW u \in Tab \ {t}, call[u] # Quiet, RealmOf(u) = r
      PROVE  /\ call'[u] \in CallRecord /\ call'[u] # Quiet
             /\ call'[u].carries # "current" /\ call'[u].gets # "current"
             /\ call'[u].gets = "none" <=> call[u].gets = "none"
             /\ call'[u].carries = "none" <=> call[u].carries = "none"
             /\ call'[u].pc = call[u].pc /\ call'[u].level = call[u].level
             /\ call'[u].op = call[u].op
  <2>1. call[u] \in CallRecord BY <1>1, <1>5
  <2>2. call'[u] = [call[u] EXCEPT !.carries = Outdated(@), !.gets = Outdated(@)] BY <1>3, <1>5
  <2>3. /\ Outdated(call[u].carries) \in TokenState \ {"current"}
        /\ Outdated(call[u].gets) \in TokenState \ {"current"}
        BY <2>1 DEF CallRecord, TokenState, Outdated
  <2>4. call'[u] \in CallRecord BY <2>1, <2>2, <2>3 DEF CallRecord
  <2> QED BY <2>1, <2>2, <2>3, <2>4, RecordIsNotQuiet DEF CallRecord, Outdated
<1>6. ASSUME NEW u \in Tab \ {t}, call[u] = Quiet \/ RealmOf(u) # r
      PROVE  call'[u] = call[u]
      BY <1>3, <1>6
<1>7. SignTypeOK'
  <2>1. \A u \in Tab : call'[u] \in CallRecord \cup {Quiet} BY <1>1, <1>4, <1>5, <1>6
  <2>2. call' \in [Tab -> CallRecord \cup {Quiet}] BY <2>1 DEF Revoke
  <2> QED BY <1>2, <2>2 DEF SignInv, SignTypeOK
<1>8. CallsFit'
  <2>1. Fits(call'[t]) BY <1>4, RecordIsNotQuiet DEF SignInv, CallsFit, Fits
  <2>2. ASSUME NEW u \in Tab \ {t}, call'[u] # Quiet PROVE Fits(call'[u])
        BY <1>5, <1>6, <2>2 DEF SignInv, CallsFit, Fits
  <2> QED BY <2>1, <2>2 DEF CallsFit
<1>f. call[t] # Quiet /\ Fits(call[t]) /\ call[t].gets = "none"
      BY RecordIsNotQuiet DEF SignInv, CallsFit, Fits
<1>9. LiveIsHeld'
  <2>1. ASSUME signed'[r] = "live"
        PROVE  t \in Open' /\ RealmOf(t) = r /\ call'[t].gets = "current"
        BY <1>4, <2>1 DEF Open
  <2>2. ASSUME NEW s \in Realm \ {r}, signed'[s] = "live", refresh'[s] # "current"
        PROVE  \E u \in Open' : RealmOf(u) = s /\ call'[u].gets = "current"
    <3>1. signed[s] = "live" /\ refresh[s] # "current" BY <1>2, <2>2
    <3>2. PICK u \in Open : RealmOf(u) = s /\ call[u].gets = "current"
          BY <3>1 DEF SignInv, LiveIsHeld
    <3>3. u \in Tab \ {t} /\ call[u] # Quiet BY <1>f, <3>2 DEF Open
    <3>4. call'[u] = call[u] BY <1>6, <3>2, <3>3
    <3> QED BY <3>2, <3>3, <3>4 DEF Open
  <2> QED BY <2>1, <2>2 DEF LiveIsHeld
<1>10. EndedIsNot'
  <2>1. ASSUME signed'[r] = "ended", NEW u \in Open', RealmOf(u) = r
        PROVE  call'[u].carries # "current" /\ call'[u].gets # "current"
    <3>1. CASE u = t BY <1>4, <1>f, <2>1, <3>1 DEF Fits
    <3>2. CASE u # t
      <4>1. u \in Tab \ {t} BY <2>1, <3>2 DEF Open
      <4>2. call[u] # Quiet BY <1>6, <2>1, <4>1 DEF Open
      <4> QED BY <1>5, <2>1, <4>1, <4>2
    <3> QED BY <3>1, <3>2
  <2>2. ASSUME NEW s \in Realm \ {r}, signed'[s] = "ended", NEW u \in Open', RealmOf(u) = s
        PROVE  call'[u].carries # "current" /\ call'[u].gets # "current"
    <3>1. signed[s] = "ended" BY <2>2
    <3>2. CASE u = t
      <4>1. call[t].carries # "current"
            BY <1>f, <2>2, <3>1, <3>2 DEF SignInv, EndedIsNot, Open
      <4> QED BY <1>4, <2>2, <3>2, <4>1
    <3>3. CASE u # t
      <4>1. u \in Tab \ {t} /\ call'[u] = call[u] BY <1>6, <2>2, <3>3 DEF Open
      <4> QED BY <2>2, <3>1, <4>1 DEF SignInv, EndedIsNot, Open
    <3> QED BY <3>2, <3>3
  <2>3. \A s \in Realm : signed'[s] = "ended" => refresh'[s] # "current"
        BY <1>2 DEF SignInv, EndedIsNot
  <2> QED BY <2>1, <2>2, <2>3 DEF EndedIsNot
<1> QED BY <1>7, <1>8, <1>9, <1>10 DEF SignInv

\* The token that the call of t brings reaches the browser.
LEMMA TokenStep ==
  ASSUME SignInv, NEW t \in Tab, call[t] \in CallRecord, call[t].gets # "none",
         TokenReceived(t, RealmOf(t)),
         tabPage' \in [Tab -> {"login", "app", "closed"}],
         call' = [call EXCEPT ![t] = call'[t]],
         \/ call'[t] = Quiet
         \/ /\ call'[t] \in CallRecord /\ Fits(call'[t]) /\ call'[t].gets = "none"
            /\ call'[t].carries = "current" => refresh'[RealmOf(t)] = "current"
  PROVE  SignInv'
<1> DEFINE r == RealmOf(t)
<1>0. Others(t) /\ call[t] # Quiet /\ t \in Open
      BY RecordIsNotQuiet DEF SignInv, SignTypeOK, Others, Open
<1>1. r \in Realm /\ call[t].gets \in {"current", "stale"}
      BY RealmOfTab DEF CallRecord, TokenState
<1>2. /\ refresh' \in [Realm -> TokenState] /\ access' \in [Realm -> BOOLEAN]
      /\ refresh'[r] = call[t].gets /\ \A s \in Realm \ {r} : refresh'[s] = refresh[s]
      BY <1>1 DEF TokenReceived, SignInv, SignTypeOK, TokenState
<1>3. /\ signed' \in [Realm -> {"live", "ended", "unsure"}]
      /\ \A s \in Realm \ {r} : signed'[s] = signed[s]
      /\ signed'[r] = "live" => call[t].gets = "current"
      /\ signed'[r] = "ended" => signed[r] = "ended"
      BY <1>1 DEF TokenReceived, Unsure, SignInv, SignTypeOK
<1>4. SignTypeOK' BY <1>2, <1>3 DEF SignInv, SignTypeOK
<1>5. CallsFit' BY <1>0 DEF SignInv, CallsFit, Others
<1>6. LiveIsHeld'
  <2>1. ASSUME NEW s \in Realm \ {r}, signed'[s] = "live", refresh'[s] # "current"
        PROVE  \E u \in Open' : RealmOf(u) = s /\ call'[u].gets = "current"
    <3>1. PICK u \in Open : RealmOf(u) = s /\ call[u].gets = "current"
          BY <1>2, <1>3, <2>1 DEF SignInv, LiveIsHeld
    <3>2. u \in Tab \ {t} BY <3>1, <2>1 DEF Open
    <3> QED BY <1>0, <3>1, <3>2 DEF Others, Open
  <2> QED BY <1>2, <1>3, <2>1 DEF LiveIsHeld
<1>7. EndedIsNot'
  <2>1. \A s \in Realm : signed'[s] = "ended" => signed[s] = "ended" /\ refresh'[s] # "current"
        BY <1>0, <1>1, <1>2, <1>3 DEF SignInv, EndedIsNot
  <2>2. ASSUME NEW s \in Realm, signed'[s] = "ended", NEW u \in Open', RealmOf(u) = s
        PROVE  call'[u].carries # "current" /\ call'[u].gets # "current"
    <3>1. CASE u = t BY <2>1, <2>2, <3>1 DEF Open
    <3>2. CASE u # t
      <4>1. u \in Open /\ call'[u] = call[u] BY <1>0, <2>2, <3>2 DEF Others, Open
      <4> QED BY <2>1, <2>2, <4>1 DEF SignInv, EndedIsNot
    <3> QED BY <3>1, <3>2
  <2> QED BY <2>1, <2>2 DEF EndedIsNot
<1> QED BY <1>4, <1>5, <1>6, <1>7 DEF SignInv

-----------------------------------------------------------------------------
(* The steps.                                                              *)

LEMMA AskSteps ==
  ASSUME SignInv, NEW t \in Tab, Asks(t) \/ OpensApp(t) PROVE SignInv'
<1>0. SignTypeOK BY DEF SignInv
<1>1. refresh \in [Realm -> TokenState] /\ 0 \in 0..Burst + 1
      BY SignInAssumption DEF SignInv, SignTypeOK
<1>2. PICK op \in {"login", "wrong", "use", "logout"} :
        call' = [call EXCEPT ![t] = NewCall(t, op, 0, FALSE, access, refresh)]
      BY DEF Asks, OpensApp
<1>3. /\ call[t] = Quiet /\ UNCHANGED <<access, refresh, signed>>
      /\ tabPage' \in [Tab -> {"login", "app", "closed"}]
      BY <1>0 DEF Asks, OpensApp, SignTypeOK
<1>4. call'[t] = NewCall(t, op, 0, FALSE, access, refresh)
      BY <1>0, <1>2 DEF SignTypeOK
<1>5. /\ call'[t] \in CallRecord /\ Fits(call'[t]) /\ call'[t].gets = "none"
      /\ call'[t].carries = "current" => refresh[RealmOf(t)] = "current"
  <2>1. /\ NewCall(t, op, 0, FALSE, access, refresh) \in CallRecord
        /\ Fits(NewCall(t, op, 0, FALSE, access, refresh))
        /\ NewCall(t, op, 0, FALSE, access, refresh).gets = "none"
        /\ NewCall(t, op, 0, FALSE, access, refresh).carries = "current" =>
             refresh[RealmOf(t)] = "current"
    <3>1. RealmOf(t) \in Realm /\ "player" \in Realm /\ refresh[RealmOf(t)] \in TokenState
          BY <1>1, RealmOfTab DEF Realm
    <3>2. \A r \in Realm : Who(r, access) \in Realm \cup {"nobody"} BY WhoIsServed
    <3> QED BY <1>1, <3>1, <3>2 DEF NewCall, CallRecord, Fits, TokenState
  <2> QED BY <1>4, <2>1
<1> QED BY <1>0, <1>2, <1>3, <1>4, <1>5, QuietStep DEF SignTypeOK

LEMMA ReplySteps ==
  ASSUME SignInv, NEW t \in Tab,
         ServeUse(t) \/ Unauthorized(t) \/ RefreshCheck(t) \/ Limited(t)
  PROVE  SignInv'
<1>1. call[t].pc = "sent" /\ call[t] \in CallRecord
      BY OpenCall DEF ServeUse, Unauthorized, RefreshCheck, Limited, Requested, SignInv
<1>2. PICK pc \in {"checked", "ok", "401", "403", "429"} :
        /\ Reply(t, pc) /\ (pc \in {"401", "checked"} => call[t].level <= Burst)
        /\ pc = "checked" => call[t].level > 0
      BY <1>1, SignInAssumption
      DEF ServeUse, Unauthorized, RefreshCheck, Limited, Requested
<1>3. UNCHANGED <<access, refresh, tabPage, signed>>
      BY DEF ServeUse, Unauthorized, RefreshCheck, Limited
<1> QED BY <1>1, <1>2, <1>3, ReplyStep

LEMMA LoginStep == ASSUME SignInv, NEW t \in Tab, ServeLogin(t) PROVE SignInv'
<1>1. call[t].pc = "sent" /\ call[t].op = "login" /\ call[t] \in CallRecord
      BY OpenCall DEF ServeLogin, Requested, SignInv
<1>2. RealmOf(t) \in Realm BY RealmOfTab
<1>3. /\ signed' \in [Realm -> {"live", "ended", "unsure"}] /\ signed'[RealmOf(t)] # "ended"
      /\ \A s \in Realm \ {RealmOf(t)} : signed'[s] = signed[s]
      BY <1>2 DEF ServeLogin, SignInv, SignTypeOK
<1> QED BY <1>1, <1>2, <1>3, RevokeStep DEF ServeLogin

LEMMA LogoutStep == ASSUME SignInv, NEW t \in Tab, ServeLogout(t) PROVE SignInv'
<1>1. call[t].pc = "sent" /\ call[t].level = 0 /\ call[t] \in CallRecord
      BY OpenCall DEF ServeLogout, Requested, SignInv
<1>2. call[t].who \in Realm BY <1>1 DEF ServeLogout, CallRecord
<1>3. /\ signed' \in [Realm -> {"live", "ended", "unsure"}] /\ signed'[call[t].who] = "ended"
      /\ \A s \in Realm \ {call[t].who} : signed'[s] = signed[s]
      BY <1>2 DEF ServeLogout, SignInv, SignTypeOK
<1> QED BY <1>1, <1>2, <1>3, RevokeStep DEF ServeLogout

\* An ended session has no stored token for a refresh to carry.
LEMMA IssueStep == ASSUME SignInv, NEW t \in Tab, RefreshIssue(t) PROVE SignInv'
<1>1. call[t].pc = "checked" /\ call[t] \in CallRecord /\ t \in Open /\ call[t] # Quiet
      BY OpenCall DEF RefreshIssue, SignInv
<1>2. RealmOf(t) \in Realm BY RealmOfTab
<1>3. /\ signed' \in [Realm -> {"live", "ended", "unsure"}]
      /\ \A s \in Realm \ {RealmOf(t)} : signed'[s] = signed[s]
      BY <1>2 DEF RefreshIssue, Unsure, SignInv, SignTypeOK
<1>4. signed'[RealmOf(t)] # "ended"
  <2>1. signed[RealmOf(t)] = "ended" => call[t].carries # "current"
        BY <1>1, <1>2 DEF SignInv, EndedIsNot
  <2> QED BY <1>2, <2>1 DEF RefreshIssue, Unsure, SignInv, SignTypeOK
<1>5. call[t].level > 0 BY <1>1 DEF SignInv, CallsFit, Fits
<1> QED BY <1>1, <1>2, <1>3, <1>4, <1>5, RevokeStep DEF RefreshIssue

\* Valkey does not store the new token, or delete the old one.
LEMMA FailingSteps ==
  ASSUME SignInv, NEW t \in Tab, NotStored(t) \/ NotDeleted(t) PROVE SignInv'
<1>1. /\ call[t] \in CallRecord /\ call[t] # Quiet /\ Fits(call[t]) /\ call[t].pc # "ok"
      /\ call \in [Tab -> CallRecord \cup {Quiet}]
      BY OpenCall DEF NotStored, NotDeleted, Requested, SignInv, SignTypeOK, CallsFit
<1>2. call[t].gets = "none" BY <1>1 DEF Fits
<1>3. UNCHANGED <<access, refresh, tabPage>> /\ tabPage \in [Tab -> {"login", "app", "closed"}]
      BY DEF NotStored, NotDeleted, SignInv, SignTypeOK
<1>4. PICK r \in Realm : signed' = [signed EXCEPT ![r] = "unsure"]
  <2>1. CASE NotStored(t) BY <2>1, RealmOfTab DEF NotStored
  <2>2. CASE NotDeleted(t) BY <1>1, <2>2 DEF NotDeleted, CallRecord
  <2> QED BY <2>1, <2>2
<1>5. /\ signed' \in [Realm -> {"live", "ended", "unsure"}]
      /\ \A s \in Realm : signed'[s] = signed[s] \/ signed'[s] = "unsure"
      BY <1>4 DEF SignInv, SignTypeOK
<1>6. PICK token \in {"none", "stale"} :
        /\ call' = [call EXCEPT ![t] = [call[t] EXCEPT !.pc = "ok", !.gets = token]]
        /\ token = "stale" => call[t].level > 0 \/ call[t].op = "login"
  <2>1. CASE NotStored(t)
        BY <1>1, <2>1 DEF NotStored, Requested, Fits
  <2>2. CASE NotDeleted(t)
    <3>1. [call[t] EXCEPT !.pc = "ok", !.gets = "none"] = [call[t] EXCEPT !.pc = "ok"]
          BY <1>1, <1>2 DEF CallRecord
    <3> QED BY <1>1, <2>2, <3>1 DEF NotDeleted, Reply
  <2> QED BY <2>1, <2>2
<1>7. /\ call'[t] = [call[t] EXCEPT !.pc = "ok", !.gets = token]
      /\ call' = [call EXCEPT ![t] = call'[t]]
      BY <1>1, <1>6
<1>8. /\ call'[t] \in CallRecord /\ call'[t].pc = "ok" /\ call'[t].gets = token
      /\ call'[t].level = call[t].level /\ call'[t].op = call[t].op
      /\ call'[t].carries = call[t].carries
  <2>1. token \in TokenState BY DEF TokenState
  <2> QED BY <1>1, <1>7, <2>1 DEF CallRecord
<1>9. Fits(call'[t]) BY <1>1, <1>6, <1>8 DEF Fits
<1> QED BY <1>1, <1>2, <1>3, <1>5, <1>7, <1>8, <1>9, DoubtStep

\* A call is lost, and the token it brings.
LEMMA LostStep == ASSUME SignInv, NEW t \in Tab, Lost(t) PROVE SignInv'
<1>1. call[t] # Quiet BY DEF Lost, Quiet
<1>2. /\ tabPage' \in [Tab -> {"login", "app", "closed"}] /\ UNCHANGED <<access, refresh>>
      /\ call' = [call EXCEPT ![t] = Quiet] /\ call'[t] = Quiet
      BY DEF Lost, SignInv, SignTypeOK
<1>3. RealmOf(t) \in Realm BY RealmOfTab
<1>4. /\ signed' \in [Realm -> {"live", "ended", "unsure"}]
      /\ \A s \in Realm : signed'[s] = signed[s] \/ signed'[s] = "unsure"
      /\ call[t].gets = "current" => signed'[RealmOf(t)] # "live"
      BY <1>3 DEF Lost, Unsure, SignInv, SignTypeOK
<1> QED BY <1>1, <1>2, <1>4, DoubtStep

\* What an answer does to the cookies when it brings no token.
LEMMA NothingReceived ==
  ASSUME SignInv, NEW t \in Tab, Received(t), ~(call[t].pc = "ok" /\ call[t].gets # "none")
  PROVE  access' \in [Realm -> BOOLEAN] /\ UNCHANGED <<refresh, signed>>
BY DEF Received, SignInv, SignTypeOK

LEMMA ReturnSteps == ASSUME SignInv, NEW t \in Tab, Returns(t) PROVE SignInv'
<1>1. /\ call[t].pc # "none" /\ Received(t)
      /\ tabPage' \in [Tab -> {"login", "app", "closed"}]
      BY DEF Returns, Completed, Retried, Refreshes, SentToLogin, SignInv, SignTypeOK
<1>2. call[t] \in CallRecord /\ t \in Open /\ call[t] # Quiet /\ Fits(call[t])
      BY <1>1, OpenCall DEF SignInv, CallsFit
<1>3. refresh' \in [Realm -> TokenState]
      BY <1>1, <1>2, RealmOfTab DEF Received, TokenReceived, SignInv, SignTypeOK, CallRecord
<1>4. /\ call' = [call EXCEPT ![t] = call'[t]]
      /\ \/ call'[t] = Quiet
         \/ /\ call'[t] \in CallRecord /\ Fits(call'[t]) /\ call'[t].gets = "none"
            /\ call'[t].carries = "current" => refresh'[RealmOf(t)] = "current"
  <2>1. CASE Completed(t) \/ SentToLogin(t)
        BY <2>1 DEF Completed, SentToLogin, SignInv, SignTypeOK
  <2>2. CASE Retried(t)
    <3>1. call[t].level - 1 \in 0..Burst + 1 /\ Resend(t, call[t].level - 1, TRUE)
      <4>1. call[t].level \in 0..Burst + 1 /\ call[t].level > 0
            BY <1>2, <2>2 DEF Retried, CallRecord
      <4>2. call[t].level - 1 \in 0..Burst + 1 BY <4>1, SignInAssumption
      <4> QED BY <2>2, <4>2 DEF Retried
    <3> QED BY <1>2, <1>3, <3>1, ResendFits DEF SignInv
  <2>3. CASE Refreshes(t)
    <3>1. call[t].level + 1 \in 0..Burst + 1 /\ Resend(t, call[t].level + 1, FALSE)
      <4>1. call[t].level \in 0..Burst + 1 /\ call[t].level <= Burst
            BY <1>2, <2>3 DEF Refreshes, CallRecord, Fits
      <4>2. call[t].level + 1 \in 0..Burst + 1 BY <4>1, SignInAssumption
      <4> QED BY <2>3, <4>2 DEF Refreshes
    <3> QED BY <1>2, <1>3, <3>1, ResendFits DEF SignInv
  <2> QED BY <2>1, <2>2, <2>3 DEF Returns
<1>5. CASE call[t].gets # "none"
  <2>1. TokenReceived(t, RealmOf(t)) BY <1>1, <1>2, <1>5 DEF Received, Fits
  <2> QED BY <1>1, <1>2, <1>4, <1>5, <2>1, TokenStep
<1>6. CASE call[t].gets = "none"
  <2>1. access' \in [Realm -> BOOLEAN] /\ UNCHANGED <<refresh, signed>>
        BY <1>1, <1>6, NothingReceived
  <2> QED BY <1>1, <1>4, <1>6, <2>1, QuietStep
<1> QED BY <1>5, <1>6

LEMMA ExpiryStep == ASSUME SignInv, AccessExpires PROVE SignInv'
<1>1. /\ access' \in [Realm -> BOOLEAN] /\ UNCHANGED <<refresh, tabPage, call, signed>>
      BY DEF AccessExpires, SignInv, SignTypeOK
<1> QED BY <1>1 DEF SignInv, SignTypeOK, CallsFit, LiveIsHeld, EndedIsNot, Open

LEMMA ElsewhereStep == ASSUME SignInv, LoginElsewhere PROVE SignInv'
<1>1. PICK r \in Realm :
        /\ refresh' = [refresh EXCEPT ![r] = Outdated(@)]
        /\ call' = [t \in Tab |-> IF t \in Open /\ RealmOf(t) = r
                      THEN [call[t] EXCEPT !.carries = Outdated(@), !.gets = Outdated(@)]
                      ELSE call[t]]
        /\ Unsure(r, {"live"}, TRUE)
      BY DEF LoginElsewhere
<1>2. UNCHANGED <<access, tabPage>> BY DEF LoginElsewhere
<1>3. /\ signed' \in [Realm -> {"live", "ended", "unsure"}] /\ signed'[r] # "live"
      /\ signed'[r] = "ended" => signed[r] = "ended"
      /\ \A s \in Realm \ {r} : signed'[s] = signed[s]
      BY <1>1 DEF Unsure, SignInv, SignTypeOK
<1>4. /\ refresh' \in [Realm -> TokenState] /\ refresh'[r] # "current"
      /\ \A s \in Realm \ {r} : refresh'[s] = refresh[s]
      BY <1>1 DEF Outdated, TokenState, SignInv, SignTypeOK
<1>5. ASSUME NEW u \in Tab, call[u] # Quiet, RealmOf(u) = r
      PROVE  /\ call'[u] \in CallRecord /\ call'[u] # Quiet
             /\ call'[u].carries # "current" /\ call'[u].gets # "current"
             /\ call'[u].gets = "none" <=> call[u].gets = "none"
             /\ call'[u].carries = "none" <=> call[u].carries = "none"
             /\ call'[u].pc = call[u].pc /\ call'[u].level = call[u].level
             /\ call'[u].op = call[u].op
  <2>1. call[u] \in CallRecord BY <1>5 DEF SignInv, SignTypeOK
  <2>2. call'[u] = [call[u] EXCEPT !.carries = Outdated(@), !.gets = Outdated(@)]
        BY <1>1, <1>5 DEF Open
  <2>3. /\ Outdated(call[u].carries) \in TokenState \ {"current"}
        /\ Outdated(call[u].gets) \in TokenState \ {"current"}
        BY <2>1 DEF CallRecord, TokenState, Outdated
  <2>4. call'[u] \in CallRecord BY <2>1, <2>2, <2>3 DEF CallRecord
  <2> QED BY <2>1, <2>2, <2>3, <2>4, RecordIsNotQuiet DEF CallRecord, Outdated
<1>6. ASSUME NEW u \in Tab, call[u] = Quiet \/ RealmOf(u) # r
      PROVE  call'[u] = call[u]
      BY <1>1, <1>6 DEF Open
<1>7. SignTypeOK'
  <2>1. \A u \in Tab : call'[u] \in CallRecord \cup {Quiet}
        BY <1>5, <1>6 DEF SignInv, SignTypeOK
  <2>2. call' \in [Tab -> CallRecord \cup {Quiet}] BY <1>1, <2>1
  <2> QED BY <1>2, <1>3, <1>4, <2>2 DEF SignInv, SignTypeOK
<1>8. CallsFit'
  <2>1. ASSUME NEW u \in Tab, call'[u] # Quiet PROVE Fits(call'[u])
    <3>1. CASE call[u] = Quiet \/ RealmOf(u) # r BY <1>6, <2>1, <3>1 DEF SignInv, CallsFit
    <3>2. CASE call[u] # Quiet /\ RealmOf(u) = r
          BY <1>5, <2>1, <3>2 DEF SignInv, CallsFit, Fits
    <3> QED BY <3>1, <3>2
  <2> QED BY <2>1 DEF CallsFit
<1>9. LiveIsHeld'
  <2>1. ASSUME NEW s \in Realm \ {r}, signed'[s] = "live", refresh'[s] # "current"
        PROVE  \E u \in Open' : RealmOf(u) = s /\ call'[u].gets = "current"
    <3>1. PICK u \in Open : RealmOf(u) = s /\ call[u].gets = "current"
          BY <1>3, <1>4, <2>1 DEF SignInv, LiveIsHeld
    <3>2. u \in Tab /\ call'[u] = call[u] BY <1>6, <3>1 DEF Open
    <3> QED BY <3>1, <3>2 DEF Open
  <2> QED BY <1>3, <2>1 DEF LiveIsHeld
<1>10. EndedIsNot'
  <2>1. \A s \in Realm : signed'[s] = "ended" => signed[s] = "ended" /\ refresh'[s] # "current"
        BY <1>3, <1>4 DEF SignInv, EndedIsNot
  <2>2. ASSUME NEW s \in Realm, signed'[s] = "ended", NEW u \in Open', RealmOf(u) = s
        PROVE  call'[u].carries # "current" /\ call'[u].gets # "current"
    <3>1. u \in Tab /\ call'[u] # Quiet BY DEF Open
    <3>2. CASE call[u] # Quiet /\ s = r BY <1>5, <2>2, <3>1, <3>2
    <3>3. CASE call[u] = Quiet \/ s # r
      <4>1. u \in Open /\ call'[u] = call[u] BY <1>6, <2>2, <3>1, <3>3 DEF Open
      <4> QED BY <2>1, <2>2, <4>1 DEF SignInv, EndedIsNot
    <3> QED BY <3>2, <3>3
  <2> QED BY <2>1, <2>2 DEF EndedIsNot
<1> QED BY <1>7, <1>8, <1>9, <1>10 DEF SignInv

LEMMA InvStep == ASSUME SignInv, [SignNext]_signVars PROVE SignInv'
<1>1. ASSUME NEW t \in Tab, Asks(t) \/ OpensApp(t) PROVE SignInv' BY <1>1, AskSteps
<1>2. ASSUME NEW t \in Tab, Endpoints(t) PROVE SignInv'
      BY <1>2, LoginStep, LogoutStep, ReplySteps, IssueStep, FailingSteps DEF Endpoints
<1>3. ASSUME NEW t \in Tab, Lost(t) \/ Returns(t) PROVE SignInv' BY <1>3, LostStep, ReturnSteps
<1>4. CASE AccessExpires BY <1>4, ExpiryStep
<1>5. CASE LoginElsewhere BY <1>5, ElsewhereStep
<1>6. CASE UNCHANGED signVars
      BY <1>6 DEF signVars, SignInv, SignTypeOK, CallsFit, LiveIsHeld, EndedIsNot, Open
<1> QED BY <1>1, <1>2, <1>3, <1>4, <1>5, <1>6 DEF SignNext

LEMMA InvInit == SignInit => SignInv
<1> SUFFICES ASSUME SignInit PROVE SignInv OBVIOUS
<1>1. \A t \in Tab : call[t] = Quiet BY DEF SignInit
<1>2. \A r \in Realm : signed[r] = "ended" /\ refresh[r] = "none" BY DEF SignInit
<1>3. SignTypeOK BY DEF SignInit, SignTypeOK, TokenState
<1> QED BY <1>1, <1>2, <1>3 DEF SignInv, CallsFit, LiveIsHeld, EndedIsNot, Open

-----------------------------------------------------------------------------
(* The theorem.                                                            *)

\* Whatever the tabs of a browser ask, however long the chains of refreshes and
\* however their steps mix: the browser holds the stored token of a session that
\* is live and whose calls are over, and of no session that was signed out, where
\* Valkey has stored and deleted what it was asked to and the token has arrived.
\* After a failure the session is known again from the next login or logout on.
THEOREM SessionFollowsUserAlways == SignSpec => []SessionFollowsUser
<1>1. SignInit => SignInv BY InvInit
<1>2. SignInv /\ [SignNext]_signVars => SignInv' BY InvStep
<1>3. SignInv => SessionFollowsUser BY FollowsFromInv
<1> QED BY <1>1, <1>2, <1>3, PTL DEF SignSpec

=============================================================================
