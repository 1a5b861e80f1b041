-------------------------- MODULE SoloClientProofs --------------------------
(***************************************************************************)
(* Proofs about SoloClient: for every number of rounds, every time limit   *)
(* and every fault, the page stays in step with the server's round and     *)
(* reloads of the page do not add up to more time.                         *)
(***************************************************************************)
EXTENDS SoloClient, TLAPS

Playing == tab.at = "play" /\ ~tab.loading

\* A guess that was counted, whose answer is on its way.
Counted == guess # NoAnswer /\ guess.answer # NoAnswer /\ guess.answer # 0

\* Which page may be in which state, and who still waits for an answer.
Pages ==
  /\ tab.round # 0 => tab.at = "play" /\ tab.round <= session
  /\ fetch # NoAnswer => tab.loading /\ tab.at # "lobby" /\ tab.round = 0 /\ fetch <= session
  /\ tab.at = "lobby" => tab.loading
  /\ tab.ticking => Playing /\ tab.phase = "guessing"
  /\ Playing => tab.round \in Round
  /\ tab.phase = "result" => Playing /\ tab.next <= session
  /\ guess # NoAnswer /\ guess.to = "tab" =>
       Playing /\ tab.phase = "guessing" /\ ~tab.ticking

\* A round is stamped when its turn has come and before it is shown, and a clock
\* that waits for the floors was set from the stamp.
Clocks ==
  /\ \A r \in Round : stamps[r] # NoAnswer => r <= session
  /\ \A r \in Round : shown[r] # NoAnswer => stamps[r] # NoAnswer /\ shown[r] <= stamps[r]
  /\ Counted /\ guess.to = "tab" /\ guess.answer \in Round => stamps[guess.answer] = NoAnswer
  /\ tab.phase = "result" /\ tab.next \in Round => stamps[tab.next] = NoAnswer
  /\ tab.ticking => shown[tab.round] # NoAnswer
  /\ tab.loading /\ tab.round # 0 =>
       /\ tab.phase = "guessing" /\ stamps[tab.round] # NoAnswer
       /\ tab.left + stamps[tab.round] <= Limit + tab.lag

\* The round the page leads to, and what the server makes of a guess under way.
Leads == IF tab.phase = "guessing" THEN tab.round ELSE tab.next

Rounds ==
  /\ tab.round # 0 /\ ~tab.behind /\ ~(Counted /\ guess.to = "tab") => session = Leads
  /\ fetch # NoAnswer /\ ~tab.behind => fetch = session
  /\ Counted => guess.answer = session
  /\ guess # NoAnswer /\ guess.answer = NoAnswer =>
       guess.shown = session \/ (guess.behind /\ guess.shown < session)
  /\ GuessForShownRound

\* The inductive invariant.
SoloInv == SoloTypeOK /\ Pages /\ Clocks /\ ClockNotExtended /\ Rounds

\* What a run checks of the two together follows from the invariant.
LEMMA InStepFromInv == SoloInv => SoloInStep
BY DEF SoloInv, Rounds, Pages, Round, Counted, Playing, Leads, SoloInStep, ShowsServerRound

-----------------------------------------------------------------------------
(* One lemma for each action: it keeps the invariant.                      *)

LEMMA StartSoloKeeps == ASSUME SoloInv, StartSolo PROVE SoloInv'
<1>1. SoloTypeOK' BY SoloClientAssumption
      DEF SoloInv, Pages, Clocks, Playing, SoloTypeOK, TabState, GuessState,
          Maybe, Seconds, Round, StartSolo, OpenTab, NoStamps
<1>2. Pages' BY SoloClientAssumption
      DEF SoloInv, Pages, Playing, SoloTypeOK, TabState, GuessState, Maybe,
          Seconds, Round, StartSolo, OpenTab, NoStamps
<1>3. Clocks' BY SoloClientAssumption
      DEF SoloInv, Pages, Clocks, Playing, Counted, SoloTypeOK, TabState,
          GuessState, Maybe, Seconds, Round, StartSolo, OpenTab, NoStamps
<1>4. ClockNotExtended' BY SoloClientAssumption
      DEF SoloInv, Pages, Clocks, ClockNotExtended, Playing, SoloTypeOK,
          TabState, GuessState, Maybe, Seconds, Round, StartSolo, OpenTab,
          NoStamps
<1>5. Rounds' BY SoloClientAssumption
      DEF SoloInv, Pages, Rounds, Leads, Counted, GuessForShownRound, Playing,
          SoloTypeOK, TabState, GuessState, Maybe, Seconds, Round, StartSolo,
          OpenTab, NoStamps
<1> QED BY <1>1, <1>2, <1>3, <1>4, <1>5 DEF SoloInv

LEMMA BackToLobbyKeeps == ASSUME SoloInv, BackToLobby PROVE SoloInv'
<1>1. SoloTypeOK'
  <2>1. tab' \in TabState BY SoloClientAssumption DEF BackToLobby, OpenTab, TabState, Seconds
  <2>2. guess' \in Maybe(GuessState) BY DEF SoloInv, SoloTypeOK, BackToLobby, Forget, Maybe, GuessState
  <2> QED BY <2>1, <2>2 DEF SoloInv, SoloTypeOK, BackToLobby, Maybe
<1>2. Pages' BY SoloClientAssumption
      DEF SoloInv, Pages, Playing, SoloTypeOK, TabState, GuessState, Maybe,
          Seconds, Round, BackToLobby, OpenTab, Forget
<1>3. Clocks' BY SoloClientAssumption
      DEF SoloInv, Pages, Clocks, Playing, Counted, SoloTypeOK, TabState,
          GuessState, Maybe, Seconds, Round, BackToLobby, OpenTab, Forget
<1>4. ClockNotExtended' BY SoloClientAssumption
      DEF SoloInv, Pages, Clocks, ClockNotExtended, Playing, SoloTypeOK,
          TabState, GuessState, Maybe, Seconds, Round, BackToLobby, OpenTab,
          Forget
<1>5. Rounds' BY SoloClientAssumption
      DEF SoloInv, Pages, Rounds, Leads, Counted, GuessForShownRound, Playing,
          SoloTypeOK, TabState, GuessState, Maybe, Seconds, Round,
          BackToLobby, OpenTab, Forget
<1> QED BY <1>1, <1>2, <1>3, <1>4, <1>5 DEF SoloInv

LEMMA ReloadPageKeeps == ASSUME SoloInv, ReloadPage PROVE SoloInv'
<1>1. SoloTypeOK'
  <2>1. tab.at \in {"lobby", "play", "result"} BY DEF SoloInv, SoloTypeOK, TabState
  <2>2. tab' \in TabState
        BY <2>1, SoloClientAssumption DEF ReloadPage, OpenTab, TabState, Seconds
  <2>3. guess' \in Maybe(GuessState)
        BY DEF SoloInv, SoloTypeOK, ReloadPage, Forget, Maybe, GuessState
  <2> QED BY <2>2, <2>3 DEF SoloInv, SoloTypeOK, ReloadPage, Maybe
<1>2. Pages' BY SoloClientAssumption
      DEF SoloInv, Pages, Playing, SoloTypeOK, TabState, GuessState, Maybe,
          Seconds, Round, ReloadPage, OpenTab, Forget
<1>3. Clocks' BY SoloClientAssumption
      DEF SoloInv, Pages, Clocks, Playing, Counted, SoloTypeOK, TabState,
          GuessState, Maybe, Seconds, Round, ReloadPage, OpenTab, Forget
<1>4. ClockNotExtended' BY SoloClientAssumption
      DEF SoloInv, Pages, Clocks, ClockNotExtended, Playing, SoloTypeOK,
          TabState, GuessState, Maybe, Seconds, Round, ReloadPage, OpenTab,
          Forget
<1>5. Rounds' BY SoloClientAssumption
      DEF SoloInv, Pages, Rounds, Leads, Counted, GuessForShownRound, Playing,
          SoloTypeOK, TabState, GuessState, Maybe, Seconds, Round, ReloadPage,
          OpenTab, Forget
<1> QED BY <1>1, <1>2, <1>3, <1>4, <1>5 DEF SoloInv

LEMMA AnswerFetchKeeps == ASSUME SoloInv, AnswerFetch PROVE SoloInv'
<1>1. SoloTypeOK' BY SoloClientAssumption
      DEF SoloInv, Pages, Clocks, Playing, SoloTypeOK, TabState, GuessState,
          Maybe, Seconds, Round, AnswerFetch
<1>2. Pages' BY SoloClientAssumption
      DEF SoloInv, Pages, Playing, SoloTypeOK, TabState, GuessState, Maybe,
          Seconds, Round, AnswerFetch
<1>3. Clocks' BY SoloClientAssumption
      DEF SoloInv, Pages, Clocks, Playing, Counted, SoloTypeOK, TabState,
          GuessState, Maybe, Seconds, Round, AnswerFetch
<1>4. ClockNotExtended' BY SoloClientAssumption
      DEF SoloInv, Pages, Clocks, ClockNotExtended, Playing, SoloTypeOK,
          TabState, GuessState, Maybe, Seconds, Round, AnswerFetch
<1>5. Rounds' BY SoloClientAssumption
      DEF SoloInv, Pages, Rounds, Leads, Counted, GuessForShownRound, Playing,
          SoloTypeOK, TabState, GuessState, Maybe, Seconds, Round, AnswerFetch
<1> QED BY <1>1, <1>2, <1>3, <1>4, <1>5 DEF SoloInv

LEMMA SessionReadKeeps == ASSUME SoloInv, SessionRead PROVE SoloInv'
<1>1. /\ tab \in TabState /\ fetch \in 1..SoloRounds /\ fetch \in Round /\ session \in 0..SoloRounds + 1
      /\ stamps \in [Round -> Maybe(Seconds)] /\ shown \in [Round -> Maybe(Seconds)]
      /\ tab.loading /\ tab.at = "play" /\ tab.round = 0 /\ fetch <= session
      /\ fetch # NoAnswer /\ fetch # 0
      BY SoloClientAssumption DEF SoloInv, SoloTypeOK, Pages, SessionRead, Round
<1>2. /\ ~tab.ticking /\ tab.phase = "guessing"
      /\ ~(guess # NoAnswer /\ guess.to = "tab")
      BY <1>1 DEF SoloInv, Pages, Playing, TabState
<1>3. TimeLeft(fetch) \in Seconds
      BY <1>1, SoloClientAssumption DEF TimeLeft, Maybe, Seconds
<1>4. /\ tab' = [tab EXCEPT !.round = fetch, !.left = TimeLeft(fetch)]
      /\ UNCHANGED <<session, guess, shown, counted>> /\ fetch' = NoAnswer
      BY DEF SessionRead
<1>5. /\ tab' \in TabState /\ tab'.round = fetch /\ tab'.left = TimeLeft(fetch)
      /\ tab'.at = tab.at /\ tab'.loading = tab.loading /\ tab'.phase = tab.phase
      /\ tab'.ticking = tab.ticking /\ tab'.behind = tab.behind /\ tab'.next = tab.next
      /\ tab'.lag = tab.lag /\ tab.lag \in Seconds
  <2>1. fetch \in 0..SoloRounds BY <1>1
  <2> QED BY <1>1, <1>3, <1>4, <2>1 DEF TabState
<1>6. /\ stamps' = Stamp(stamps, fetch)
      /\ stamps' \in [Round -> Maybe(Seconds)]
      /\ stamps'[fetch] = IF stamps[fetch] = NoAnswer THEN 0 ELSE stamps[fetch]
      /\ \A r \in Round \ {fetch} : stamps'[r] = stamps[r]
      BY <1>1, SoloClientAssumption DEF SessionRead, Stamp, Maybe, Seconds
<1>7. SoloTypeOK' BY <1>4, <1>5, <1>6 DEF SoloInv, SoloTypeOK, Maybe
<1>8. Pages' BY <1>1, <1>2, <1>4, <1>5 DEF SoloInv, Pages, Playing
<1>9. Clocks'
  <2>1. \A r \in Round : stamps[r] # NoAnswer => stamps'[r] = stamps[r] BY <1>6
  <2>2. \A r \in Round : stamps'[r] # NoAnswer => r <= session'
        BY <1>1, <1>4, <1>6 DEF SoloInv, Clocks
  <2>3. /\ stamps'[fetch] # NoAnswer
        /\ TimeLeft(fetch) + stamps'[fetch] <= Limit + tab.lag
    <3>1. CASE stamps[fetch] = NoAnswer
          BY <1>5, <1>6, <3>1, SoloClientAssumption DEF TimeLeft, Seconds
    <3>2. CASE stamps[fetch] # NoAnswer
      <4>1. stamps[fetch] \in Seconds BY <1>1, <3>2 DEF Maybe
      <4> QED BY <1>5, <1>6, <3>2, <4>1, SoloClientAssumption DEF TimeLeft, Seconds
    <3> QED BY <3>1, <3>2
  <2>4. \A r \in Round : shown'[r] # NoAnswer => stamps'[r] # NoAnswer /\ shown'[r] <= stamps'[r]
        BY <1>4, <2>1 DEF SoloInv, Clocks
  <2> QED BY <1>2, <1>4, <1>5, <2>2, <2>3, <2>4 DEF Clocks, Counted
<1>10. ClockNotExtended' BY <1>2, <1>5 DEF ClockNotExtended
<1>11. Rounds' BY <1>1, <1>2, <1>4, <1>5
       DEF SoloInv, Rounds, GuessForShownRound, Counted, Playing, Leads
<1> QED BY <1>7, <1>8, <1>9, <1>10, <1>11 DEF SoloInv

LEMMA FloorsLoadedKeeps == ASSUME SoloInv, FloorsLoaded PROVE SoloInv'
<1>1. /\ tab \in TabState /\ tab.loading /\ tab.at = "play" /\ tab.round \in Round
      /\ tab.round # 0 /\ fetch = NoAnswer
      /\ stamps \in [Round -> Maybe(Seconds)] /\ shown \in [Round -> Maybe(Seconds)]
      BY SoloClientAssumption DEF SoloInv, SoloTypeOK, Pages, FloorsLoaded, TabState, Round
<1>2. /\ tab.phase = "guessing" /\ ~tab.ticking /\ stamps[tab.round] # NoAnswer
      /\ tab.left + stamps[tab.round] <= Limit + tab.lag
      /\ ~(guess # NoAnswer /\ guess.to = "tab")
      BY <1>1 DEF SoloInv, Pages, Clocks, Playing, TabState
<1>3. /\ tab' = [tab EXCEPT !.loading = FALSE, !.ticking = TRUE]
      /\ UNCHANGED <<session, fetch, guess, stamps, counted>>
      BY DEF FloorsLoaded
<1>4. /\ tab' \in TabState /\ ~tab'.loading /\ tab'.round = tab.round /\ tab'.left = tab.left
      /\ tab'.at = tab.at /\ tab'.phase = tab.phase /\ tab'.behind = tab.behind
      /\ tab'.next = tab.next /\ tab'.lag = tab.lag
      /\ tab.lag \in Seconds /\ tab.left \in Seconds
      BY <1>1, <1>3 DEF TabState
<1>5. /\ shown' \in [Round -> Maybe(Seconds)] /\ shown'[tab.round] # NoAnswer
      /\ shown'[tab.round] = IF shown[tab.round] = NoAnswer THEN 0 ELSE shown[tab.round]
      /\ \A r \in Round \ {tab.round} : shown'[r] = shown[r]
      BY <1>1, SoloClientAssumption DEF FloorsLoaded, Maybe, Seconds
<1>6. stamps[tab.round] \in Seconds BY <1>1, <1>2 DEF Maybe
<1>7. shown'[tab.round] \in Seconds /\ shown'[tab.round] <= stamps[tab.round]
  <2>1. CASE shown[tab.round] = NoAnswer
        BY <1>5, <1>6, <2>1, SoloClientAssumption DEF Seconds
  <2>2. CASE shown[tab.round] # NoAnswer
        BY <1>1, <1>5, <2>2 DEF SoloInv, Clocks, Maybe
  <2> QED BY <2>1, <2>2
<1>8. SoloTypeOK' BY <1>3, <1>4, <1>5 DEF SoloInv, SoloTypeOK
<1>9. Pages' BY <1>1, <1>2, <1>3, <1>4 DEF SoloInv, Pages, Playing
<1>10. Clocks'
  <2>1. \A r \in Round : shown'[r] # NoAnswer => stamps'[r] # NoAnswer /\ shown'[r] <= stamps'[r]
    <3> SUFFICES ASSUME NEW r \in Round, shown'[r] # NoAnswer
                 PROVE  stamps'[r] # NoAnswer /\ shown'[r] <= stamps'[r]
        OBVIOUS
    <3>1. CASE r = tab.round BY <1>2, <1>3, <1>7, <3>1
    <3>2. CASE r # tab.round BY <1>3, <1>5, <3>2 DEF SoloInv, Clocks
    <3> QED BY <3>1, <3>2
  <2>2. \A r \in Round : stamps'[r] # NoAnswer => r <= session'
        BY <1>3 DEF SoloInv, Clocks
  <2> QED BY <1>2, <1>3, <1>4, <1>5, <2>1, <2>2 DEF Clocks, Counted
<1>11. ClockNotExtended'
       BY <1>2, <1>4, <1>6, <1>7, SoloClientAssumption DEF ClockNotExtended, Seconds
<1>12. Rounds' BY <1>1, <1>2, <1>3, <1>4
       DEF SoloInv, Rounds, GuessForShownRound, Counted, Playing, Leads
<1> QED BY <1>8, <1>9, <1>10, <1>11, <1>12 DEF SoloInv

LEMMA SessionNotFoundKeeps == ASSUME SoloInv, SessionNotFound PROVE SoloInv'
<1>1. SoloTypeOK' BY SoloClientAssumption
      DEF SoloInv, Pages, Clocks, Playing, SoloTypeOK, TabState, GuessState,
          Maybe, Seconds, Round, SessionNotFound, OpenTab
<1>2. Pages' BY SoloClientAssumption
      DEF SoloInv, Pages, Playing, SoloTypeOK, TabState, GuessState, Maybe,
          Seconds, Round, SessionNotFound, OpenTab
<1>3. Clocks' BY SoloClientAssumption
      DEF SoloInv, Pages, Clocks, Playing, Counted, SoloTypeOK, TabState,
          GuessState, Maybe, Seconds, Round, SessionNotFound, OpenTab
<1>4. ClockNotExtended' BY SoloClientAssumption
      DEF SoloInv, Pages, Clocks, ClockNotExtended, Playing, SoloTypeOK,
          TabState, GuessState, Maybe, Seconds, Round, SessionNotFound,
          OpenTab
<1>5. Rounds' BY SoloClientAssumption
      DEF SoloInv, Pages, Rounds, Leads, Counted, GuessForShownRound, Playing,
          SoloTypeOK, TabState, GuessState, Maybe, Seconds, Round,
          SessionNotFound, OpenTab
<1> QED BY <1>1, <1>2, <1>3, <1>4, <1>5 DEF SoloInv

LEMMA ResultLoadedKeeps == ASSUME SoloInv, ResultLoaded PROVE SoloInv'
<1>1. SoloTypeOK' BY SoloClientAssumption
      DEF SoloInv, Pages, Clocks, Playing, SoloTypeOK, TabState, GuessState,
          Maybe, Seconds, Round, ResultLoaded
<1>2. Pages' BY SoloClientAssumption
      DEF SoloInv, Pages, Playing, SoloTypeOK, TabState, GuessState, Maybe,
          Seconds, Round, ResultLoaded
<1>3. Clocks' BY SoloClientAssumption
      DEF SoloInv, Pages, Clocks, Playing, Counted, SoloTypeOK, TabState,
          GuessState, Maybe, Seconds, Round, ResultLoaded
<1>4. ClockNotExtended' BY SoloClientAssumption
      DEF SoloInv, Pages, Clocks, ClockNotExtended, Playing, SoloTypeOK,
          TabState, GuessState, Maybe, Seconds, Round, ResultLoaded
<1>5. Rounds' BY SoloClientAssumption
      DEF SoloInv, Pages, Rounds, Leads, Counted, GuessForShownRound, Playing,
          SoloTypeOK, TabState, GuessState, Maybe, Seconds, Round,
          ResultLoaded
<1> QED BY <1>1, <1>2, <1>3, <1>4, <1>5 DEF SoloInv

LEMMA PlacePinKeeps == ASSUME SoloInv, PlacePin PROVE SoloInv'
<1>1. SoloTypeOK' BY SoloClientAssumption
      DEF SoloInv, Pages, Clocks, Playing, SoloTypeOK, TabState, GuessState,
          Maybe, Seconds, Round, PlacePin, Guessing
<1>2. Pages' BY SoloClientAssumption
      DEF SoloInv, Pages, Playing, SoloTypeOK, TabState, GuessState, Maybe,
          Seconds, Round, PlacePin, Guessing
<1>3. Clocks' BY SoloClientAssumption
      DEF SoloInv, Pages, Clocks, Playing, Counted, SoloTypeOK, TabState,
          GuessState, Maybe, Seconds, Round, PlacePin, Guessing
<1>4. ClockNotExtended' BY SoloClientAssumption
      DEF SoloInv, Pages, Clocks, ClockNotExtended, Playing, SoloTypeOK,
          TabState, GuessState, Maybe, Seconds, Round, PlacePin, Guessing
<1>5. Rounds' BY SoloClientAssumption
      DEF SoloInv, Pages, Rounds, Leads, Counted, GuessForShownRound, Playing,
          SoloTypeOK, TabState, GuessState, Maybe, Seconds, Round, PlacePin,
          Guessing
<1> QED BY <1>1, <1>2, <1>3, <1>4, <1>5 DEF SoloInv

LEMMA SubmitKeeps == ASSUME SoloInv, Submit PROVE SoloInv'
<1>1. SoloTypeOK' BY SoloClientAssumption
      DEF SoloInv, Pages, Clocks, Playing, SoloTypeOK, TabState, GuessState,
          Maybe, Seconds, Round, Submit, Guessing, Submitting, Sent
<1>2. Pages' BY SoloClientAssumption
      DEF SoloInv, Pages, Playing, SoloTypeOK, TabState, GuessState, Maybe,
          Seconds, Round, Submit, Guessing, Submitting, Sent
<1>3. Clocks' BY SoloClientAssumption
      DEF SoloInv, Pages, Clocks, Playing, Counted, SoloTypeOK, TabState,
          GuessState, Maybe, Seconds, Round, Submit, Guessing, Submitting,
          Sent
<1>4. ClockNotExtended' BY SoloClientAssumption
      DEF SoloInv, Pages, Clocks, ClockNotExtended, Playing, SoloTypeOK,
          TabState, GuessState, Maybe, Seconds, Round, Submit, Guessing,
          Submitting, Sent
<1>5. Rounds' BY SoloClientAssumption
      DEF SoloInv, Pages, Rounds, Leads, Counted, GuessForShownRound, Playing,
          SoloTypeOK, TabState, GuessState, Maybe, Seconds, Round, Submit,
          Guessing, Submitting, Sent
<1> QED BY <1>1, <1>2, <1>3, <1>4, <1>5 DEF SoloInv

\* What a second does to the stamps: none appears or goes, none gets younger, and
\* of two the older one stays so.
LEMMA OlderIs ==
  ASSUME NEW f \in [Round -> Maybe(Seconds)]
  PROVE  /\ Older(f) \in [Round -> Maybe(Seconds)]
         /\ \A r \in Round :
              /\ Older(f)[r] = NoAnswer <=> f[r] = NoAnswer
              /\ f[r] # NoAnswer => /\ f[r] \in Seconds /\ Older(f)[r] \in Seconds
                                    /\ Older(f)[r] = OneMore(f[r]) /\ Older(f)[r] <= f[r] + 1
BY SoloClientAssumption DEF Older, OneMore, Maybe, Seconds

LEMMA OneMoreIs ==
  ASSUME NEW a \in Seconds, NEW b \in Seconds, a <= b PROVE OneMore(a) <= OneMore(b)
BY SoloClientAssumption DEF OneMore, Seconds

\* A second passes for the stamps, while nothing is answered.
LEMMA SecondPasses ==
  ASSUME SoloInv, stamps' = Older(stamps), shown' = Older(shown), UNCHANGED session
  PROVE  /\ stamps' \in [Round -> Maybe(Seconds)] /\ shown' \in [Round -> Maybe(Seconds)]
         /\ \A r \in Round :
              /\ stamps'[r] # NoAnswer => r <= session'
              /\ stamps'[r] = NoAnswer <=> stamps[r] = NoAnswer
              /\ shown'[r] = NoAnswer <=> shown[r] = NoAnswer
              /\ shown'[r] # NoAnswer => stamps'[r] # NoAnswer /\ shown'[r] <= stamps'[r]
              /\ shown[r] # NoAnswer => /\ shown[r] \in Seconds /\ shown'[r] \in Seconds
                                        /\ shown'[r] <= shown[r] + 1
              /\ stamps[r] # NoAnswer => /\ stamps[r] \in Seconds /\ stamps'[r] \in Seconds
                                         /\ stamps'[r] <= stamps[r] + 1
<1>1. stamps \in [Round -> Maybe(Seconds)] /\ shown \in [Round -> Maybe(Seconds)]
      BY DEF SoloInv, SoloTypeOK
<1>2. ASSUME NEW r \in Round, shown[r] # NoAnswer
      PROVE  stamps[r] # NoAnswer /\ OneMore(shown[r]) <= OneMore(stamps[r])
  <2>1. stamps[r] # NoAnswer /\ shown[r] <= stamps[r] BY <1>2 DEF SoloInv, Clocks
  <2>2. shown[r] \in Seconds /\ stamps[r] \in Seconds BY <1>1, <1>2, <2>1 DEF Maybe
  <2> QED BY <2>1, <2>2, OneMoreIs
<1> QED BY <1>1, <1>2, OlderIs DEF SoloInv, Clocks

\* A clock that is set and does not run, or is not set: only its lag is counted.
LEMMA StandsKeeps ==
  ASSUME SoloInv, stamps' = Older(stamps), shown' = Older(shown), tab' = Stands,
         UNCHANGED <<session, fetch, guess, counted>>
  PROVE  SoloInv'
<1>1. tab \in TabState /\ tab.lag \in Seconds /\ tab.left \in Seconds
      BY DEF SoloInv, SoloTypeOK, TabState
<1>2. /\ tab' = [tab EXCEPT !.lag = tab'.lag] /\ tab'.lag \in Seconds
      /\ tab.ticking \/ (tab.loading /\ tab.round # 0) =>
           tab'.lag = Limit \/ tab'.lag = tab.lag + 1
      BY <1>1, SoloClientAssumption DEF Stands, TabState, Seconds
<1>3. /\ tab' \in TabState /\ tab'.round = tab.round /\ tab'.left = tab.left
      /\ tab'.at = tab.at /\ tab'.phase = tab.phase /\ tab'.behind = tab.behind
      /\ tab'.next = tab.next /\ tab'.loading = tab.loading /\ tab'.ticking = tab.ticking
      BY <1>1, <1>2 DEF TabState
<1>4. SoloTypeOK' BY <1>3, SecondPasses DEF SoloInv, SoloTypeOK
<1>5. Pages' BY <1>3 DEF SoloInv, Pages, Playing
<1>6. Clocks'
  <2>1. tab.loading /\ tab.round # 0 =>
          stamps'[tab.round] # NoAnswer /\ tab.left + stamps'[tab.round] <= Limit + tab'.lag
    <3> SUFFICES ASSUME tab.loading, tab.round # 0
                 PROVE  stamps'[tab.round] # NoAnswer /\ tab.left + stamps'[tab.round] <= Limit + tab'.lag
        OBVIOUS
    <3>1. tab.round \in Round BY <1>1 DEF TabState, Round
    <3>2. stamps[tab.round] # NoAnswer /\ tab.left + stamps[tab.round] <= Limit + tab.lag
          BY DEF SoloInv, Clocks
    <3>3. /\ stamps'[tab.round] # NoAnswer /\ stamps'[tab.round] <= stamps[tab.round] + 1
          /\ stamps'[tab.round] \in Seconds /\ stamps[tab.round] \in Seconds
          BY <3>1, <3>2, SecondPasses
    <3> QED BY <1>1, <1>2, <3>2, <3>3, SoloClientAssumption DEF Seconds
  <2>2. tab.round \in Round \/ tab.round = 0 BY <1>1 DEF TabState, Round
  <2> QED BY <1>3, <2>1, <2>2, SecondPasses DEF SoloInv, Clocks, Counted, Pages, Playing
<1>7. ClockNotExtended'
  <2> SUFFICES ASSUME tab.ticking, tab.left > 0
               PROVE  tab.left + shown'[tab.round] <= Limit + tab'.lag
      BY <1>3 DEF ClockNotExtended
  <2>1. tab.round \in Round /\ shown[tab.round] # NoAnswer BY DEF SoloInv, Pages, Clocks
  <2>2. tab.left + shown[tab.round] <= Limit + tab.lag BY DEF SoloInv, ClockNotExtended
  <2>3. /\ shown'[tab.round] <= shown[tab.round] + 1
        /\ shown'[tab.round] \in Seconds /\ shown[tab.round] \in Seconds
        BY <2>1, SecondPasses
  <2> QED BY <1>1, <1>2, <2>2, <2>3, SoloClientAssumption DEF Seconds
<1>8. Rounds' BY <1>3 DEF SoloInv, Rounds, GuessForShownRound, Counted, Leads
<1> QED BY <1>4, <1>5, <1>6, <1>7, <1>8 DEF SoloInv

LEMMA ThrottledKeeps == ASSUME SoloInv, Throttled PROVE SoloInv'
BY StandsKeeps DEF Throttled

LEMMA TickKeeps == ASSUME SoloInv, Tick PROVE SoloInv'
<1>1. tab \in TabState /\ session \in 0..SoloRounds + 1 BY DEF SoloInv, SoloTypeOK
<1>3. stamps' = Older(stamps) /\ shown' = Older(shown) BY DEF Tick
<1>4. UNCHANGED <<session, fetch, counted>> BY DEF Tick
<1>5. CASE tab' = Stands /\ guess' = guess BY <1>3, <1>4, <1>5, StandsKeeps
<1>6. CASE tab.ticking /\ tab.left > 1 /\ tab' = [tab EXCEPT !.left = @ - 1] /\ guess' = guess
  <2>1. /\ tab.left \in Seconds /\ tab.round \in Round /\ tab.lag \in Seconds
        /\ shown[tab.round] # NoAnswer
        /\ tab.left + shown[tab.round] <= Limit + tab.lag
        BY <1>1, <1>6, SoloClientAssumption
        DEF SoloInv, Pages, Clocks, ClockNotExtended, TabState, Seconds
  <2>2. /\ tab' \in TabState /\ tab'.left = tab.left - 1
        /\ tab' = [tab EXCEPT !.left = tab'.left]
        BY <1>1, <1>6, <2>1, SoloClientAssumption DEF TabState, Seconds
  <2>3. /\ tab'.round = tab.round /\ tab'.at = tab.at /\ tab'.phase = tab.phase
        /\ tab'.behind = tab.behind /\ tab'.next = tab.next /\ tab'.loading = tab.loading
        /\ tab'.ticking = tab.ticking /\ tab'.lag = tab.lag
        BY <1>1, <2>2 DEF TabState
  <2>4. SoloTypeOK' BY <1>3, <1>4, <1>6, <2>2, SecondPasses DEF SoloInv, SoloTypeOK
  <2>5. Pages' BY <1>4, <1>6, <2>3 DEF SoloInv, Pages, Playing
  <2>6. ~tab.loading BY <1>1, <1>6 DEF SoloInv, Pages, Playing
  <2>7. Clocks' BY <1>1, <1>3, <1>4, <1>6, <2>1, <2>3, <2>6, SecondPasses
        DEF SoloInv, Clocks, Counted
  <2>8. ClockNotExtended'
    <3>1. /\ shown'[tab.round] <= shown[tab.round] + 1
          /\ shown'[tab.round] \in Seconds /\ shown[tab.round] \in Seconds
          BY <1>3, <1>4, <2>1, SecondPasses
    <3> QED BY <2>1, <2>2, <2>3, <3>1, SoloClientAssumption DEF ClockNotExtended, Seconds
  <2>9. Rounds' BY <1>4, <1>6, <2>3
        DEF SoloInv, Rounds, GuessForShownRound, Counted, Leads
  <2> QED BY <2>4, <2>5, <2>7, <2>8, <2>9 DEF SoloInv
<1>7. CASE /\ tab.ticking /\ guess = NoAnswer
           /\ tab' = [Submitting(tab) EXCEPT !.left = 0] /\ guess' = Sent
  <2>1. /\ Playing /\ tab.phase = "guessing" /\ fetch = NoAnswer
        /\ tab.round \in Round /\ tab.round # 0 /\ tab.round <= session
    <3>1. Playing /\ tab.phase = "guessing" BY <1>7 DEF SoloInv, Pages
    <3>2. tab.round \in Round BY <3>1 DEF SoloInv, Pages
    <3>3. tab.round # 0 BY <3>2, SoloClientAssumption DEF Round
    <3> QED BY <3>1, <3>2, <3>3 DEF SoloInv, Pages, Playing
  <2>a. Submitting(tab) \in TabState BY <1>1 DEF Submitting, TabState
  <2>b. tab' \in TabState /\ tab'.left = 0
        BY <1>7, <2>a, SoloClientAssumption DEF TabState, Seconds
  <2>2. /\ tab'.at = tab.at /\ tab'.loading = tab.loading /\ tab'.round = tab.round
        /\ tab'.phase = tab.phase /\ tab'.next = tab.next /\ tab'.behind = tab.behind
        /\ ~tab'.ticking
        BY <1>1, <1>7, <2>a DEF Submitting, TabState
  <2>3. /\ guess' = [shown |-> tab.round, behind |-> tab.behind, to |-> "tab",
                     answer |-> NoAnswer]
        /\ guess' \in GuessState
        BY <1>1, <1>7, <2>1 DEF Sent, GuessState, TabState, Maybe
  <2>4. SoloTypeOK' BY <1>3, <1>4, <2>b, <2>3, SecondPasses DEF SoloInv, SoloTypeOK, Maybe
  <2>5. Pages' BY <1>1, <1>4, <2>1, <2>2 DEF SoloInv, Pages, Playing, TabState
  <2>6. Clocks' BY <1>3, <1>4, <2>1, <2>2, <2>3, SecondPasses DEF Clocks, Counted, Playing
  <2>7. ClockNotExtended' BY <2>2 DEF ClockNotExtended
  <2>8. tab.behind \/ session = tab.round
        BY <1>7, <2>1 DEF SoloInv, Rounds, Leads, Counted
  <2>9. guess'.shown = tab.round /\ guess'.behind = tab.behind /\ guess'.answer = NoAnswer
        BY <2>3
  <2>10. tab.round = session \/ (tab.behind /\ tab.round < session)
        BY <1>1, <2>1, <2>8 DEF TabState
  <2>11. Rounds' BY <1>4, <2>1, <2>2, <2>8, <2>9, <2>10
        DEF SoloInv, Rounds, GuessForShownRound, Counted, Playing, Leads
  <2> QED BY <2>4, <2>5, <2>6, <2>7, <2>11 DEF SoloInv
<1> QED BY <1>5, <1>6, <1>7 DEF Tick

LEMMA CountGuessKeeps == ASSUME SoloInv, CountGuess PROVE SoloInv'
<1>1. SoloTypeOK'
  <2>1. tab' \in TabState BY DEF SoloInv, SoloTypeOK, CountGuess, TabState
  <2>2. guess \in GuessState BY DEF SoloInv, SoloTypeOK, CountGuess, Maybe
  <2>3. CASE session \in Round
    <3>1. session + 1 \in 0..SoloRounds + 1 BY <2>3, SoloClientAssumption DEF Round
    <3>2. guess' \in GuessState BY <2>2, <2>3, <3>1 DEF CountGuess, GuessState, Maybe
    <3>3. counted' \subseteq [round: Round, shown: Round, behind: BOOLEAN]
          BY <2>2, <2>3 DEF SoloInv, SoloTypeOK, CountGuess, GuessState
    <3> QED BY <2>1, <2>3, <3>1, <3>2, <3>3 DEF SoloInv, SoloTypeOK, CountGuess, Maybe
  <2>4. CASE session \notin Round
    <3>1. guess' \in GuessState
          BY <2>2, <2>4, SoloClientAssumption DEF CountGuess, GuessState, Maybe
    <3> QED BY <2>1, <2>4, <3>1 DEF SoloInv, SoloTypeOK, CountGuess, Maybe
  <2> QED BY <2>3, <2>4
<1>2. Pages' BY SoloClientAssumption
      DEF SoloInv, Pages, Playing, SoloTypeOK, TabState, GuessState, Maybe,
          Seconds, Round, CountGuess
<1>3. Clocks' BY SoloClientAssumption
      DEF SoloInv, Pages, Clocks, Playing, Counted, SoloTypeOK, TabState,
          GuessState, Maybe, Seconds, Round, CountGuess
<1>4. ClockNotExtended' BY SoloClientAssumption
      DEF SoloInv, Pages, Clocks, ClockNotExtended, Playing, SoloTypeOK,
          TabState, GuessState, Maybe, Seconds, Round, CountGuess
<1>5. Rounds'
  <2>1. guess \in GuessState /\ guess # NoAnswer /\ guess.answer = NoAnswer
        BY DEF SoloInv, SoloTypeOK, CountGuess, Maybe
  <2>2. tab \in TabState /\ session \in 0..SoloRounds + 1
        BY DEF SoloInv, SoloTypeOK
  <2>3. tab'.behind \/ guess.to = "tab" \/ (fetch = NoAnswer /\ tab.round = 0)
        BY <2>1, <2>2 DEF CountGuess, GuessState, TabState
  <2>4. /\ tab' = [tab EXCEPT !.behind = tab'.behind] /\ fetch' = fetch
        /\ tab.behind => tab'.behind
        BY <2>2 DEF CountGuess, TabState
  <2>5. CASE session \in Round
    <3>1. session' = session + 1 /\ guess' = [guess EXCEPT !.answer = session + 1]
          BY <2>5 DEF CountGuess
    <3>2. session + 1 # NoAnswer /\ session + 1 # 0 /\ session + 1 \in 0..SoloRounds + 1
          BY <2>5, SoloClientAssumption DEF Round
    <3>3. guess' \in GuessState /\ guess'.answer = session + 1 /\ guess'.to = guess.to
          BY <2>1, <3>1, <3>2 DEF GuessState, Maybe
    <3>4. Counted' BY <3>2, <3>3, SoloClientAssumption DEF Counted
    <3>5. GuessForShownRound'
          BY <2>1, <2>2, <2>5 DEF SoloInv, Rounds, GuessForShownRound, CountGuess, GuessState
    <3>6. (tab.round # 0 /\ ~tab.behind /\ ~(Counted /\ guess.to = "tab"))' => (session = Leads)'
          BY <2>2, <2>3, <2>4, <3>3, <3>4 DEF TabState
    <3>7. (fetch # NoAnswer /\ ~tab.behind)' => (fetch = session)'
          BY <2>1, <2>2, <2>3, <2>4 DEF SoloInv, Pages, Playing, TabState
    <3> QED BY <3>1, <3>3, <3>4, <3>5, <3>6, <3>7 DEF Rounds, Counted
  <2>6. CASE session \notin Round
    <3>1. session' = session /\ counted' = counted /\ guess' = [guess EXCEPT !.answer = 0]
          BY <2>6 DEF CountGuess
    <3>2. guess'.answer = 0 /\ ~Counted /\ ~Counted' BY <2>1, <3>1 DEF GuessState, Counted
    <3>3. 0 # NoAnswer BY SoloClientAssumption
    <3> QED BY <2>2, <2>4, <3>1, <3>2, <3>3
            DEF SoloInv, Rounds, GuessForShownRound, Counted, Playing, Leads, TabState
  <2> QED BY <2>5, <2>6
<1> QED BY <1>1, <1>2, <1>3, <1>4, <1>5 DEF SoloInv

LEMMA LoseGuessKeeps == ASSUME SoloInv, LoseGuess PROVE SoloInv'
<1>1. SoloTypeOK'
  <2>1. tab' \in TabState BY DEF SoloInv, SoloTypeOK, LoseGuess, TabState
  <2>2. guess' \in GuessState
        BY SoloClientAssumption DEF SoloInv, SoloTypeOK, LoseGuess, GuessState, Maybe
  <2> QED BY <2>1, <2>2 DEF SoloInv, SoloTypeOK, LoseGuess, Maybe
<1>2. Pages' BY SoloClientAssumption
      DEF SoloInv, Pages, Playing, SoloTypeOK, TabState, GuessState, Maybe,
          Seconds, Round, LoseGuess
<1>3. Clocks' BY SoloClientAssumption
      DEF SoloInv, Pages, Clocks, Playing, Counted, SoloTypeOK, TabState,
          GuessState, Maybe, Seconds, Round, LoseGuess
<1>4. ClockNotExtended' BY SoloClientAssumption
      DEF SoloInv, Pages, Clocks, ClockNotExtended, Playing, SoloTypeOK,
          TabState, GuessState, Maybe, Seconds, Round, LoseGuess
<1>5. Rounds'
  <2>1. /\ guess \in GuessState /\ guess # NoAnswer /\ guess.answer # 0
        /\ guess' = [guess EXCEPT !.answer = 0]
        BY DEF SoloInv, SoloTypeOK, LoseGuess, Maybe
  <2>2. tab \in TabState BY DEF SoloInv, SoloTypeOK
  <2>3. /\ tab' = [tab EXCEPT !.behind = tab'.behind]
        /\ tab'.behind <=> tab.behind \/ guess.answer # NoAnswer
        /\ UNCHANGED <<session, fetch, counted>>
        BY <2>2 DEF LoseGuess, TabState
  <2>4. guess'.answer = 0 /\ ~Counted' BY <2>1 DEF GuessState, Counted
  <2>5. 0 # NoAnswer BY SoloClientAssumption
  <2>6. Counted => tab'.behind BY <2>3 DEF Counted
  <2> QED BY <2>2, <2>3, <2>4, <2>5, <2>6
          DEF SoloInv, Rounds, GuessForShownRound, Counted, Playing, Leads, TabState
<1> QED BY <1>1, <1>2, <1>3, <1>4, <1>5 DEF SoloInv

LEMMA GuessBackKeeps == ASSUME SoloInv, GuessBack PROVE SoloInv'
<1>1. SoloTypeOK' BY SoloClientAssumption
      DEF SoloInv, Pages, Clocks, Playing, SoloTypeOK, TabState, GuessState,
          Maybe, Seconds, Round, GuessBack
<1>2. Pages'
  <2>1. guess \in GuessState /\ tab \in TabState /\ guess' = NoAnswer
        BY DEF SoloInv, SoloTypeOK, GuessBack, Maybe
  <2>2. CASE guess.to = "nobody" \/ guess.answer = 0
        BY <2>1, <2>2 DEF SoloInv, Pages, Playing, GuessBack, TabState
  <2>3. CASE guess.to = "tab" /\ guess.answer # 0
    <3>1. /\ guess.answer = session /\ Playing
          /\ tab.phase = "guessing" /\ ~tab.ticking /\ fetch = NoAnswer
          BY <2>3 DEF SoloInv, Pages, Playing, Rounds, Counted, GuessBack
    <3>2. tab' = [tab EXCEPT !.submitting = FALSE, !.phase = "result", !.next = session]
          BY <2>3, <3>1 DEF GuessBack
    <3>3. /\ tab'.at = tab.at /\ tab'.loading = tab.loading /\ tab'.round = tab.round
          /\ tab'.ticking = tab.ticking /\ tab'.next = session
          BY <2>1, <3>2 DEF TabState
    <3>4. UNCHANGED <<session, fetch>> /\ session <= session
          BY DEF SoloInv, SoloTypeOK, GuessBack
    <3> QED BY <2>1, <3>1, <3>3, <3>4 DEF SoloInv, Pages, Playing
  <2> QED BY <2>1, <2>2, <2>3 DEF GuessState
<1>3. Clocks' BY SoloClientAssumption
      DEF SoloInv, Pages, Clocks, Playing, Counted, SoloTypeOK, TabState,
          GuessState, Maybe, Seconds, Round, GuessBack
<1>4. ClockNotExtended' BY SoloClientAssumption
      DEF SoloInv, Pages, Clocks, ClockNotExtended, Playing, SoloTypeOK,
          TabState, GuessState, Maybe, Seconds, Round, GuessBack
<1>5. Rounds' BY SoloClientAssumption
      DEF SoloInv, Pages, Rounds, Leads, Counted, GuessForShownRound, Playing,
          SoloTypeOK, TabState, GuessState, Maybe, Seconds, Round, GuessBack
<1> QED BY <1>1, <1>2, <1>3, <1>4, <1>5 DEF SoloInv

LEMMA ContinueKeeps == ASSUME SoloInv, Continue PROVE SoloInv'
<1>1. /\ tab \in TabState /\ session \in 0..SoloRounds + 1 /\ tab.next <= session
      /\ shown \in [Round -> Maybe(Seconds)] /\ stamps \in [Round -> Maybe(Seconds)]
      /\ Playing /\ tab.phase = "result" /\ fetch = NoAnswer
      /\ guess # NoAnswer => guess.to # "tab"
      BY DEF SoloInv, SoloTypeOK, Clocks, Pages, Continue, Playing
<1>2. UNCHANGED <<session, fetch, guess, counted>> BY DEF Continue
<1>3. CASE tab.next \in Round
  <2>1. stamps[tab.next] = NoAnswer /\ shown[tab.next] = NoAnswer
        BY <1>1, <1>3 DEF SoloInv, Clocks
  <2>2. /\ stamps' = [stamps EXCEPT ![tab.next] = 0]
        /\ shown' = [shown EXCEPT ![tab.next] = 0]
        BY <1>1, <1>3, <2>1 DEF Continue
  <2>c. /\ 0 \in Maybe(Seconds) /\ 0 # NoAnswer
        /\ stamps'[tab.next] = 0 /\ shown'[tab.next] = 0
        /\ stamps' \in [Round -> Maybe(Seconds)] /\ shown' \in [Round -> Maybe(Seconds)]
        /\ \A r \in Round \ {tab.next} : stamps'[r] = stamps[r] /\ shown'[r] = shown[r]
        BY <1>1, <1>3, <2>2, SoloClientAssumption DEF Maybe, Seconds
  <2>3. /\ tab' = [tab EXCEPT !.round = tab.next, !.left = Limit, !.pin = FALSE,
                            !.phase = "guessing", !.ticking = TRUE, !.next = 0, !.lag = 0]
        BY <1>3 DEF Continue, NextRound
  <2>a. tab.next \in 0..SoloRounds /\ Limit \in Seconds
        BY <1>3, SoloClientAssumption DEF Round, Seconds
  <2>b. tab' \in TabState
    <3> DEFINE t == [tab EXCEPT !.round = tab.next, !.left = Limit, !.pin = FALSE]
    <3>1. t \in TabState BY <1>1, <2>a DEF TabState
    <3>2. tab' = [t EXCEPT !.phase = "guessing", !.ticking = TRUE, !.next = 0, !.lag = 0]
          BY <1>1, <2>3 DEF TabState
    <3>3. 0 \in 0..SoloRounds + 1 /\ 0 \in Seconds BY SoloClientAssumption DEF Seconds
    <3> HIDE DEF t
    <3> QED BY <3>1, <3>2, <3>3 DEF TabState
  <2>4. /\ tab'.round = tab.next /\ tab'.left = Limit /\ tab'.phase = "guessing"
        /\ tab'.at = tab.at /\ tab'.loading = tab.loading /\ tab'.behind = tab.behind
        /\ tab'.lag = 0
        BY <1>1, <2>3 DEF TabState
  <2>5. SoloTypeOK' BY <1>2, <2>2, <2>b, <2>c DEF SoloInv, SoloTypeOK
  <2>6. Pages' BY <1>1, <1>2, <1>3, <2>4 DEF Pages, Playing
  <2>7. Clocks'
    <3>1. \A r \in Round : stamps'[r] # NoAnswer => r <= session'
          BY <1>1, <1>2, <2>c DEF SoloInv, Clocks
    <3>2. \A r \in Round : shown'[r] # NoAnswer => stamps'[r] # NoAnswer /\ shown'[r] <= stamps'[r]
      <4> SUFFICES ASSUME NEW r \in Round, shown'[r] # NoAnswer
                   PROVE  stamps'[r] # NoAnswer /\ shown'[r] <= stamps'[r]
          OBVIOUS
      <4>1. CASE r = tab.next BY <2>c, <4>1
      <4>2. CASE r # tab.next BY <2>c, <4>2 DEF SoloInv, Clocks
      <4> QED BY <4>1, <4>2
    <3> QED BY <1>1, <1>2, <1>3, <2>4, <2>c, <3>1, <3>2 DEF Clocks, Counted, Playing
  <2>8. ClockNotExtended' BY <2>4, <2>c, SoloClientAssumption DEF ClockNotExtended
  <2>9. Rounds'
    <3>1. tab.round # 0 BY <1>1, SoloClientAssumption DEF SoloInv, Pages, Round
    <3> QED BY <1>1, <1>2, <2>4, <3>1
        DEF SoloInv, Rounds, GuessForShownRound, Counted, Playing, Leads
  <2> QED BY <2>5, <2>6, <2>7, <2>8, <2>9 DEF SoloInv
<1>4. CASE tab.next \notin Round
  <2>1. tab' = OpenTab("result") /\ UNCHANGED <<stamps, shown>> BY <1>4 DEF Continue
  <2>2. tab' \in TabState BY <2>1, SoloClientAssumption DEF OpenTab, TabState, Seconds
  <2>3. SoloTypeOK' BY <1>2, <2>1, <2>2 DEF SoloInv, SoloTypeOK
  <2>4. Pages' BY <1>1, <1>2, <2>1 DEF Pages, Playing, OpenTab
  <2>5. Clocks' BY <1>1, <1>2, <2>1 DEF SoloInv, Clocks, Counted, OpenTab
  <2>6. ClockNotExtended' BY <2>1 DEF ClockNotExtended, OpenTab
  <2>7. Rounds' BY <1>1, <1>2, <2>1
        DEF SoloInv, Rounds, GuessForShownRound, Counted, Playing, OpenTab
  <2> QED BY <2>3, <2>4, <2>5, <2>6, <2>7 DEF SoloInv
<1> QED BY <1>3, <1>4

-----------------------------------------------------------------------------
(* The theorems.                                                           *)

LEMMA InitInv == SoloInit => SoloInv
<1> SUFFICES ASSUME SoloInit PROVE SoloInv OBVIOUS
<1>1. SoloTypeOK
      BY SoloClientAssumption
      DEF SoloInit, OpenTab, NoStamps, SoloTypeOK, TabState, Maybe, Seconds, Round
<1>2. Pages /\ ClockNotExtended
      BY DEF SoloInit, OpenTab, Pages, ClockNotExtended, Playing
<1>3. Clocks
      BY DEF SoloInit, OpenTab, NoStamps, Clocks, Counted
<1>4. Rounds
      BY DEF SoloInit, OpenTab, Rounds, GuessForShownRound, Counted, Playing
<1> QED BY <1>1, <1>2, <1>3, <1>4 DEF SoloInv

LEMMA NextInv == SoloInv /\ [SoloNext]_soloVars => SoloInv'
<1> SUFFICES ASSUME SoloInv, [SoloNext]_soloVars PROVE SoloInv' OBVIOUS
<1>1. CASE SoloAnswers
      BY <1>1, AnswerFetchKeeps, SessionReadKeeps, FloorsLoadedKeeps, SessionNotFoundKeeps,
         ResultLoadedKeeps, CountGuessKeeps, GuessBackKeeps
      DEF SoloAnswers
<1>2. CASE Tick \/ Throttled \/ StartSolo \/ BackToLobby \/ ReloadPage
      BY <1>2, TickKeeps, ThrottledKeeps, StartSoloKeeps, BackToLobbyKeeps, ReloadPageKeeps
<1>3. CASE PlacePin \/ Submit \/ LoseGuess \/ Continue
      BY <1>3, PlacePinKeeps, SubmitKeeps, LoseGuessKeeps, ContinueKeeps
<1>4. CASE UNCHANGED soloVars
      BY <1>4 DEF soloVars, SoloInv, SoloTypeOK, Pages, Clocks, ClockNotExtended, Rounds,
                  GuessForShownRound, Counted, Playing, Leads
<1> QED BY <1>1, <1>2, <1>3, <1>4 DEF SoloNext

LEMMA SoloInvariant == SoloClientSpec => []SoloInv
<1> QED BY InitInv, NextInv, PTL DEF SoloClientSpec

\* Every variable of the tab of PlayGame keeps its type, whatever is lost and
\* however often the page is reloaded.
THEOREM SoloTypeCorrect == SoloClientSpec => []SoloTypeOK
<1>1. SoloInv => SoloTypeOK BY DEF SoloInv
<1> QED BY <1>1, SoloInvariant, PTL

\* The page shows the round the server expects, and a guess is counted for the
\* panorama on show, unless an answer was lost (submitGuess of PlayGame and
\* Handler.Guess, which take no round number).
THEOREM SoloStaysInStep == SoloClientSpec => []SoloInStep
<1> QED BY SoloInvariant, InStepFromInv, PTL

\* The clock that is restored from localStorage gives nothing back of the time
\* that went before this load: however often the page is left or reloaded, all it
\* can show too much is what its own load waited for the floors, or its own timer
\* was withheld (the load effect, the timer and continueGame of PlayGame).
THEOREM SoloClockOnlyRuns == SoloClientSpec => []ClockNotExtended
<1>1. SoloInv => ClockNotExtended BY DEF SoloInv
<1> QED BY <1>1, SoloInvariant, PTL

=============================================================================
