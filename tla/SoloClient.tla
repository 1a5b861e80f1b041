----------------------------- MODULE SoloClient -----------------------------
(***************************************************************************)
(* One tab of a player in a solo session: Lobby starts it, PlayGame plays  *)
(* it, PlayResult ends it.  The round the page shows and the clock are its *)
(* own: only the answers of its requests move them, and localStorage keeps *)
(* when a round was first fetched, so that reloads do not give the time    *)
(* back.  The server is SoloSession served one request at a time.          *)
(***************************************************************************)
EXTENDS Integers

CONSTANTS
  SoloRounds,  \* rounds of a session
  Limit,       \* seconds (ticks of the clock) of a round
  NoAnswer,    \* no answer, no request, nothing stored
  SoloFaults   \* what may go wrong, a subset of SoloFaultKind

\* The page is reloaded, an answer (or the request) is lost, the browser slows the
\* timers of a page in the background.
SoloFaultKind == {"reload", "lose", "throttle"}

Round == 1..SoloRounds
Seconds == 0..Limit
Maybe(S) == S \cup {NoAnswer}

\* A guess under way: the round and state of the page that sent it, who waits for
\* the answer, and the answer: the next round, or 0 for a failure.
GuessState ==
  [shown: Round, behind: BOOLEAN, to: {"tab", "nobody"}, answer: Maybe(0..SoloRounds + 1)]

ASSUME SoloClientAssumption ==
  /\ SoloRounds \in Nat \ {0} /\ Limit \in Nat \ {0}
  /\ NoAnswer \notin 0..SoloRounds + 1 /\ NoAnswer \notin 0..Limit
  /\ NoAnswer \notin GuessState
  /\ SoloFaults \subseteq SoloFaultKind

VARIABLES
  session,  \* the round the server expects, SoloRounds + 1 once finished, 0 before
  tab,      \* the page and its state
  fetch,    \* GET of the session: NoAnswer, or the round it answers with
  guess,    \* POST of a guess: NoAnswer, or what becomes of it
  stamps,   \* localStorage: seconds since each round was stamped, or NoAnswer
  shown,    \* seconds since each round was first shown, or NoAnswer (history)
  counted   \* the guesses counted: for which round, with which on show (history)

soloVars == <<session, tab, fetch, guess, stamps, shown, counted>>

NoStamps == [r \in Round |-> NoAnswer]

\* A tab as the page is mounted; behind: the server went on without telling it;
\* lag: seconds since the clock was set in which it did not run (both history).
OpenTab(at) == [at |-> at, loading |-> TRUE, round |-> 0, phase |-> "guessing",
                pin |-> FALSE, left |-> 0, ticking |-> FALSE, submitting |-> FALSE,
                next |-> 0, behind |-> FALSE, lag |-> 0]

SoloInit ==
  /\ session = 0 /\ tab = OpenTab("lobby")
  /\ fetch = NoAnswer /\ guess = NoAnswer
  /\ stamps = NoStamps /\ shown = NoStamps /\ counted = {}

-----------------------------------------------------------------------------
(* Pages.                                                                  *)

\* Lobby: the session is stored, the answer navigates to it.  Its id is new and
\* so are the keys in localStorage.
StartSolo ==
  /\ tab.at = "lobby" /\ guess = NoAnswer
  /\ session' = 1 /\ tab' = OpenTab("play")
  /\ stamps' = NoStamps /\ shown' = NoStamps /\ counted' = {}
  /\ UNCHANGED <<fetch, guess>>

\* A request that is open when the page goes is answered to nobody.
Forget == IF guess = NoAnswer THEN NoAnswer ELSE [guess EXCEPT !.to = "nobody"]

\* By a click, by the browser's Back, or because a GET of the page failed.
BackToLobby ==
  /\ tab.at # "lobby"
  /\ tab' = OpenTab("lobby") /\ fetch' = NoAnswer /\ guess' = Forget
  /\ UNCHANGED <<session, stamps, shown, counted>>

ReloadPage ==
  /\ "reload" \in SoloFaults /\ tab.at # "lobby"
  /\ tab' = OpenTab(tab.at) /\ fetch' = NoAnswer /\ guess' = Forget
  /\ UNCHANGED <<session, stamps, shown, counted>>

\* GET /api/solo/{id} of PlayGame, GET .../result of PlayResult.
AnswerFetch ==
  /\ tab.at \in {"play", "result"} /\ tab.loading /\ tab.round = 0 /\ fetch = NoAnswer
  /\ fetch' = session
  /\ tab' = [tab EXCEPT !.behind = FALSE]
  /\ UNCHANGED <<session, guess, stamps, shown, counted>>

\* What is left of the round: all of it when it has not been stamped before.
TimeLeft(r) == IF stamps[r] = NoAnswer THEN Limit ELSE Limit - stamps[r]

\* Mutant: a reload stamps the round anew.
StampAnew(f, r) == [f EXCEPT ![r] = 0]

Stamp(f, r) == [f EXCEPT ![r] = IF @ = NoAnswer THEN 0 ELSE @]

\* The session comes: the clock is set and the round stamped, while the page is
\* still loading: the GET of the floors is sent ...
SessionRead ==
  /\ tab.at = "play" /\ fetch \in Round
  /\ tab' = [tab EXCEPT !.round = fetch, !.left = TimeLeft(fetch)]
  /\ stamps' = Stamp(stamps, fetch)
  /\ fetch' = NoAnswer
  /\ UNCHANGED <<session, guess, shown, counted>>

\* ... and its answer shows the round and starts the clock, as it was set.
FloorsLoaded ==
  /\ tab.loading /\ tab.round # 0
  /\ tab' = [tab EXCEPT !.loading = FALSE, !.ticking = TRUE]
  /\ shown' = [shown EXCEPT ![tab.round] = IF @ = NoAnswer THEN 0 ELSE @]
  /\ UNCHANGED <<session, fetch, guess, stamps, counted>>

\* A finished session is gone for PlayGame.
SessionNotFound ==
  /\ tab.at = "play" /\ fetch = SoloRounds + 1
  /\ tab' = OpenTab("lobby") /\ fetch' = NoAnswer
  /\ UNCHANGED <<session, guess, stamps, shown, counted>>

ResultLoaded ==
  /\ tab.at = "result" /\ fetch # NoAnswer
  /\ tab' = [tab EXCEPT !.loading = FALSE] /\ fetch' = NoAnswer
  /\ UNCHANGED <<session, guess, stamps, shown, counted>>

-----------------------------------------------------------------------------
(* A round.                                                                *)

Guessing == tab.at = "play" /\ ~tab.loading /\ tab.phase = "guessing"

PlacePin ==
  /\ Guessing /\ ~tab.pin
  /\ tab' = [tab EXCEPT !.pin = TRUE]
  /\ UNCHANGED <<session, fetch, guess, stamps, shown, counted>>

\* submitGuess: the clock stops for good, with or without a pin.
Submitting(t) == [t EXCEPT !.submitting = TRUE, !.ticking = FALSE]
Sent == [shown |-> tab.round, behind |-> tab.behind, to |-> "tab", answer |-> NoAnswer]

Submit ==
  /\ Guessing /\ tab.pin /\ ~tab.submitting /\ guess = NoAnswer
  /\ tab' = Submitting(tab) /\ guess' = Sent
  /\ UNCHANGED <<session, fetch, stamps, shown, counted>>

OneMore(s) == IF s = Limit THEN Limit ELSE s + 1
Older(f) == [r \in Round |-> IF f[r] = NoAnswer THEN NoAnswer ELSE OneMore(f[r])]

\* A clock that is set and does not run loses a second.
Stands == [tab EXCEPT !.lag = IF @ = Limit \/ ~(tab.ticking \/ (tab.loading /\ tab.round # 0))
                                THEN @ ELSE @ + 1]

\* Mutant: the last second submits only what has a pin.
TickWithPin ==
  /\ stamps' = Older(stamps) /\ shown' = Older(shown)
  /\ IF ~tab.ticking THEN tab' = Stands /\ guess' = guess
     ELSE IF tab.left > 1 THEN tab' = [tab EXCEPT !.left = @ - 1] /\ guess' = guess
     ELSE IF ~tab.pin THEN tab' = [tab EXCEPT !.left = 0] /\ guess' = guess
     ELSE /\ guess = NoAnswer
          /\ tab' = [Submitting(tab) EXCEPT !.left = 0] /\ guess' = Sent
  /\ UNCHANGED <<session, fetch, counted>>

\* A second passes; the last one submits what there is.
Tick ==
  /\ stamps' = Older(stamps) /\ shown' = Older(shown)
  /\ IF ~tab.ticking THEN tab' = Stands /\ guess' = guess
     ELSE IF tab.left > 1 THEN tab' = [tab EXCEPT !.left = @ - 1] /\ guess' = guess
     ELSE /\ guess = NoAnswer
          /\ tab' = [Submitting(tab) EXCEPT !.left = 0] /\ guess' = Sent
  /\ UNCHANGED <<session, fetch, counted>>

\* A second without a tick of the running clock; localStorage goes by the date.
Throttled ==
  /\ "throttle" \in SoloFaults /\ tab.ticking
  /\ stamps' = Older(stamps) /\ shown' = Older(shown)
  /\ tab' = Stands
  /\ UNCHANGED <<session, fetch, guess, counted>>

\* The server counts a guess for the round it is in, whichever was on show.
CountGuess ==
  /\ guess # NoAnswer /\ guess.answer = NoAnswer
  /\ IF session \in Round
       THEN /\ session' = session + 1
            /\ counted' = counted \cup {[round |-> session, shown |-> guess.shown,
                                         behind |-> guess.behind]}
            /\ guess' = [guess EXCEPT !.answer = session + 1]
       ELSE /\ guess' = [guess EXCEPT !.answer = 0]
            /\ UNCHANGED <<session, counted>>
  /\ tab' = [tab EXCEPT !.behind = @ \/ (guess.to = "nobody" /\ (fetch # NoAnswer \/ tab.round # 0))]
  /\ UNCHANGED <<fetch, stamps, shown>>

\* The request or its answer is lost; to the page it is a failed request.
LoseGuess ==
  /\ "lose" \in SoloFaults /\ guess # NoAnswer /\ guess.to = "tab" /\ guess.answer # 0
  /\ guess' = [guess EXCEPT !.answer = 0]
  /\ tab' = [tab EXCEPT !.behind = @ \/ guess.answer # NoAnswer]
  /\ UNCHANGED <<session, fetch, stamps, shown, counted>>

\* The answer shows the result; a failure is ignored and the clock stays still.
GuessBack ==
  /\ guess # NoAnswer /\ guess.answer # NoAnswer
  /\ tab' = IF guess.to = "nobody" THEN tab
            ELSE IF guess.answer = 0 THEN [tab EXCEPT !.submitting = FALSE]
            ELSE [tab EXCEPT !.submitting = FALSE, !.phase = "result", !.next = guess.answer]
  /\ guess' = NoAnswer
  /\ UNCHANGED <<session, fetch, stamps, shown, counted>>

\* Mutant: the round on show stays.
NextClock(n) == [tab EXCEPT !.left = Limit, !.pin = FALSE, !.phase = "guessing",
                            !.ticking = TRUE, !.next = 0, !.lag = 0]

NextRound(n) == [tab EXCEPT !.round = n, !.left = Limit, !.pin = FALSE,
                            !.phase = "guessing", !.ticking = TRUE, !.next = 0, !.lag = 0]

Continue ==
  /\ tab.at = "play" /\ tab.phase = "result"
  /\ IF tab.next \in Round
       THEN /\ tab' = NextRound(tab.next)
            /\ stamps' = [stamps EXCEPT ![tab.next] = 0]
            /\ shown' = [shown EXCEPT ![tab.next] = IF @ = NoAnswer THEN 0 ELSE @]
       ELSE /\ tab' = OpenTab("result")
            /\ UNCHANGED <<stamps, shown>>
  /\ UNCHANGED <<session, fetch, guess, counted>>

-----------------------------------------------------------------------------
(* The specification.  Time passes and what was asked is answered.         *)

SoloAnswers ==
  \/ AnswerFetch \/ SessionRead \/ FloorsLoaded \/ SessionNotFound \/ ResultLoaded
  \/ CountGuess \/ GuessBack

SoloNext ==
  \/ SoloAnswers \/ Tick \/ Throttled \/ StartSolo \/ BackToLobby \/ ReloadPage
  \/ PlacePin \/ Submit \/ LoseGuess \/ Continue

SoloClientSpec == SoloInit /\ [][SoloNext]_soloVars

SoloFairness == WF_soloVars(SoloAnswers) /\ WF_soloVars(Tick)

\* A page that is reloaded for ever gets no answer.
SoloSettles == <>[][~ReloadPage]_soloVars

SoloFairSpec == SoloClientSpec /\ SoloFairness /\ SoloSettles

-----------------------------------------------------------------------------
(* Properties.                                                             *)

TabState ==
  [at: {"lobby", "play", "result"}, loading: BOOLEAN, round: 0..SoloRounds,
   phase: {"guessing", "result"}, pin: BOOLEAN, left: Seconds, ticking: BOOLEAN,
   submitting: BOOLEAN, next: 0..SoloRounds + 1, behind: BOOLEAN, lag: Seconds]

\* Every variable has its type.
SoloTypeOK ==
  /\ session \in 0..SoloRounds + 1 /\ tab \in TabState
  /\ fetch \in Maybe(0..SoloRounds + 1) /\ guess \in Maybe(GuessState)
  /\ stamps \in [Round -> Maybe(Seconds)] /\ shown \in [Round -> Maybe(Seconds)]
  /\ counted \subseteq [round: Round, shown: Round, behind: BOOLEAN]

\* Between its requests the page shows the round the server expects, and a result
\* leads to it, unless an answer was lost or a request outlived a reload.
ShowsServerRound ==
  tab.at = "play" /\ ~tab.loading /\ guess = NoAnswer /\ ~tab.behind
  => session = IF tab.phase = "guessing" THEN tab.round ELSE tab.next

\* A guess is counted for the panorama that was on show when it was sent, unless
\* the page was behind: the request does not say which round it is for, so a
\* retry after a lost answer is counted for a panorama the player has not seen.
GuessForShownRound ==
  \A c \in counted : c.shown # c.round => c.behind /\ c.shown < c.round

\* The page and the server are in the same round.
SoloInStep == ShowsServerRound /\ GuessForShownRound

\* No number of reloads gives time back: a running clock shows at most what is left
\* of the round since it was first shown and the seconds in which it stood still
\* since it was set, by this very load or by Continue: the wait for the floors, and
\* what a browser in the background withholds.
ClockNotExtended ==
  tab.ticking /\ tab.left > 0 => tab.left + shown[tab.round] <= Limit + tab.lag

\* A round left alone is submitted by its clock: a page that shows a round comes
\* to its result, or is left, or loses the request.
LeftAloneIsSubmitted ==
  Guessing /\ tab.ticking ~> ~Guessing \/ (~tab.ticking /\ guess = NoAnswer)

=============================================================================
