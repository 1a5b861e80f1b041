--------------------------- MODULE RoomGameProofs ---------------------------
(***************************************************************************)
(* Proofs about RoomGame, for every number of players, requests in flight, *)
(* panoramas, rounds and matches, and with every failure allowed.          *)
(***************************************************************************)
EXTENDS RoomGame, TLAPS, FiniteSetTheorems, SequenceTheorems

(* A version of the room is good for the matches ms, the announced rounds  *)
(* en and the submitted guesses st.                                        *)

Playable(s, ms) ==
  IF s.status = "waiting"
  THEN s.match = 0 /\ s.round = 0 /\ s.token = Nil /\ s.guesses = {} /\ s.guessed = {}
  ELSE /\ s.match \in 1..Len(ms)
       /\ s.rounds = ms[s.match].rounds /\ s.rounds = Len(s.panos)
       /\ s.round \in 1..s.rounds
       /\ s.pano = s.panos[s.round]
       /\ s.token # Nil
       /\ s.guesses \cap ToSet(s.players) \subseteq s.guessed

Announced(s, en) ==
  s.status # "waiting" =>
    \A r \in 1..s.rounds : r < s.round \/ s.status = "finished" => <<s.match, r>> \in en

Submitted(s, st) == \A u \in s.guesses : <<s.match, s.round, u>> \in st

Good(s, ms, en, st) ==
  s \in RoomState /\ Seated(s) /\ Playable(s, ms) /\ Announced(s, en) /\ Submitted(s, st)

\* What a process knows of the version it holds from the checks it has made.
Checked(j) ==
  /\ j.pc = "join" => /\ j.snap.status = "waiting" /\ Len(j.snap.players) < MaxPlayers
                      /\ j.user \notin ToSet(j.snap.players)
  /\ j.pc = "start" => j.snap.status = "waiting"
  /\ j.pc = "guess" => j.snap.status = "active" /\ j.user \in ToSet(j.snap.players)
  /\ j.pc \in {"launch", "timeout", "score"} => j.snap.status = "active"

Scored(j, en) ==
  j.pc \in {"next", "finish"} =>
    /\ j.snap.status = "active" /\ j.snap.guesses = {}
    /\ <<j.snap.match, j.snap.round>> \in en
    /\ IF j.pc = "next" THEN j.snap.round < j.snap.rounds ELSE j.snap.round = j.snap.rounds

Over(j, ms, en) ==
  j.pc \in Closed =>
    /\ j.match \in 1..Len(ms)
    /\ \A r \in 1..ms[j.match].rounds : <<j.match, r>> \in en

Justified(j, ms, en) == Checked(j) /\ Scored(j, en) /\ Over(j, ms, en)

MatchesAnnounced(ms, en, el) ==
  /\ el \subseteq 1..Len(ms)
  /\ \A m \in DOMAIN ms : m \in el \/ ms[m].status = "finished" =>
       \A r \in 1..ms[m].rounds : <<m, r>> \in en

\* The inductive invariant.
IndInv ==
  /\ TypeOK
  /\ \A s \in Versions : Good(s, matches, ended, stored)
  /\ TokenNamesRound
  /\ \A p \in Proc : Justified(job[p], matches, ended)
  /\ MatchesAnnounced(matches, ended, elo)

LEMMA IndInvImplies ==
  IndInv => TypeOK /\ RoomCoherent /\ TokenNamesRound /\ GuessesOfThisRound /\ NoRoundSkipped
<1> SUFFICES ASSUME IndInv
             PROVE  RoomCoherent /\ GuessesOfThisRound /\ NoRoundSkipped
    BY DEF IndInv
<1>1. RoomCoherent BY DEF IndInv, RoomCoherent, Good, Playable, OnRound
<1>2. GuessesOfThisRound BY DEF IndInv, GuessesOfThisRound, Good, Submitted
<1>3. NoRoundSkipped BY DEF IndInv, NoRoundSkipped, Good, Announced, MatchesAnnounced
<1> QED BY <1>1, <1>2, <1>3

-----------------------------------------------------------------------------
(* Players.                                                                *)

\* Removing the i-th element keeps the elements before it and moves those
\* after it one place down.
LEMMA RemoveAtElements ==
  ASSUME NEW S, NEW s \in Seq(S), NEW i \in 1..Len(s)
  PROVE  /\ RemoveAt(s, i) \in Seq(S)
         /\ Len(RemoveAt(s, i)) = Len(s) - 1
         /\ \A k \in 1..(Len(s) - 1) : RemoveAt(s, i)[k] = IF k < i THEN s[k] ELSE s[k + 1]
<1> DEFINE a == SubSeq(s, 1, i - 1)
           b == SubSeq(s, i + 1, Len(s))
<1>1. /\ a \in Seq(S) /\ Len(a) = i - 1
      /\ \A k \in 1..(i - 1) : a[k] = s[k]
  <2>1. \A k \in 1..(i - 1) : s[k] \in S BY ElementOfSeq
  <2> QED BY <2>1, SubSeqProperties
<1>2. /\ b \in Seq(S) /\ Len(b) = Len(s) - i
      /\ \A k \in 1..(Len(s) - i) : b[k] = s[i + k]
  <2>1. \A k \in (i + 1)..Len(s) : s[k] \in S BY ElementOfSeq
  <2>2. /\ b \in Seq(S)
        /\ Len(b) = IF i + 1 <= Len(s) THEN Len(s) - (i + 1) + 1 ELSE 0
        /\ \A k \in 1..(Len(s) - (i + 1) + 1) : b[k] = s[(i + 1) + k - 1]
        BY <2>1, SubSeqProperties
  <2> QED BY <2>2
<1> HIDE DEF a, b
<1>3. /\ a \o b \in Seq(S) /\ Len(a \o b) = Len(a) + Len(b)
      /\ \A k \in 1..(Len(a) + Len(b)) :
           (a \o b)[k] = IF k <= Len(a) THEN a[k] ELSE b[k - Len(a)]
      BY <1>1, <1>2, ConcatProperties
<1>4. \A k \in 1..(Len(s) - 1) : (a \o b)[k] = IF k < i THEN s[k] ELSE s[k + 1]
      BY <1>1, <1>2, <1>3
<1>5. RemoveAt(s, i) = a \o b BY DEF RemoveAt, a, b
<1>6. Len(a \o b) = Len(s) - 1 BY <1>1, <1>2, <1>3
<1> QED BY <1>3, <1>4, <1>5, <1>6, Zenon

\* Filtering u out of a list of different users leaves a list of different
\* users, namely the others.
LEMMA WithoutPlayers ==
  ASSUME NEW ps \in Seq(User), IsInjective(ps), NEW u
  PROVE  /\ Without(ps, u) \in Seq(User)
         /\ IsInjective(Without(ps, u))
         /\ ToSet(Without(ps, u)) = ToSet(ps) \ {u}
         /\ Len(Without(ps, u)) <= Len(ps)
<1>1. CASE u \notin ToSet(ps)
      BY <1>1 DEF Without
<1>2. CASE u \in ToSet(ps)
  <2>1. PICK i \in 1..Len(ps) : ps[i] = u /\ Without(ps, u) = RemoveAt(ps, i)
    <3> DEFINE c == CHOOSE k \in DOMAIN ps : ps[k] = u
    <3>1. \E k \in DOMAIN ps : ps[k] = u BY <1>2, Zenon DEF ToSet
    <3>2. c \in DOMAIN ps /\ ps[c] = u BY <3>1, Zenon
    <3>3. DOMAIN ps = 1..Len(ps) BY LenProperties
    <3>4. Without(ps, u) = RemoveAt(ps, c) BY <1>2, Zenon DEF Without
    <3> QED BY <3>2, <3>3, <3>4, Zenon
  <2>2. PICK ws : ws = RemoveAt(ps, i) OBVIOUS
  <2>3. /\ ws \in Seq(User) /\ Len(ws) = Len(ps) - 1
        /\ \A k \in 1..Len(ws) : ws[k] = IF k < i THEN ps[k] ELSE ps[k + 1]
        BY <2>2, RemoveAtElements
  <2>4. \A j, k \in 1..Len(ps) : ps[j] = ps[k] => j = k
        BY DEF IsInjective
  <2>5. IsInjective(ws)
    <3>1. SUFFICES ASSUME NEW j \in 1..Len(ws), NEW k \in 1..Len(ws), ws[j] = ws[k]
                   PROVE  j = k
          BY <2>3 DEF IsInjective
    <3> QED BY <2>3, <2>4, <3>1
  <2>6. ToSet(ws) \subseteq ToSet(ps) \ {u}
    <3>1. SUFFICES ASSUME NEW k \in 1..Len(ws) PROVE ws[k] \in ToSet(ps) \ {u}
          BY <2>3 DEF ToSet
    <3>2. k \in 1..Len(ps) /\ k + 1 \in 1..Len(ps) BY <2>3
    <3>3. ws[k] # ps[i] BY <2>3, <2>4, <3>2
    <3> QED BY <2>1, <2>3, <3>2, <3>3 DEF ToSet
  <2>7. ASSUME NEW x \in ToSet(ps) \ {u} PROVE x \in ToSet(ws)
    <3>1. PICK k \in 1..Len(ps) : ps[k] = x BY DEF ToSet
    <3>2. k # i BY <2>1, <3>1
    <3>3. CASE k < i
      <4>1. k \in 1..Len(ws) /\ ws[k] = x BY <2>3, <3>1, <3>3
      <4> QED BY <4>1, <2>3 DEF ToSet
    <3>4. CASE k > i
      <4>1. k - 1 \in 1..Len(ws) /\ ws[k - 1] = x BY <2>3, <3>1, <3>4
      <4> QED BY <4>1, <2>3 DEF ToSet
    <3> QED BY <3>1, <3>2, <3>3, <3>4
  <2> QED BY <2>1, <2>2, <2>3, <2>5, <2>6, <2>7
<1> QED BY <1>1, <1>2

\* Appending a new user keeps the users different.
LEMMA AppendPlayers ==
  ASSUME NEW ps \in Seq(User), IsInjective(ps), NEW u \in User, u \notin ToSet(ps)
  PROVE  /\ Append(ps, u) \in Seq(User)
         /\ IsInjective(Append(ps, u))
         /\ ToSet(Append(ps, u)) = ToSet(ps) \cup {u}
         /\ Len(Append(ps, u)) = Len(ps) + 1 /\ Len(ps) \in Nat
<1>1. PICK qs : qs = Append(ps, u) OBVIOUS
<1>2. /\ qs \in Seq(User) /\ Len(qs) = Len(ps) + 1 /\ Len(ps) \in Nat
      /\ \A k \in 1..Len(ps) : qs[k] = ps[k]
      /\ qs[Len(ps) + 1] = u
      BY <1>1
<1>3. DOMAIN ps = 1..Len(ps) /\ DOMAIN qs = 1..Len(qs) BY <1>2, LenProperties
<1>4. \A k \in 1..Len(ps) : ps[k] # u BY <1>3 DEF ToSet
<1>5. IsInjective(qs) BY <1>2, <1>3, <1>4 DEF IsInjective
<1>6. ToSet(qs) \subseteq ToSet(ps) \cup {u} BY <1>2, <1>3 DEF ToSet
<1>7. u \in ToSet(qs)
  <2>1. Len(ps) + 1 \in DOMAIN qs BY <1>2, <1>3
  <2> QED BY <1>2, <2>1 DEF ToSet
<1>8. ToSet(ps) \subseteq ToSet(qs)
  <2>1. ASSUME NEW k \in 1..Len(ps) PROVE k \in DOMAIN qs /\ qs[k] = ps[k]
        BY <1>2, <1>3
  <2> QED BY <1>3, <2>1 DEF ToSet
<1> QED BY <1>1, <1>2, <1>5, <1>6, <1>7, <1>8

-----------------------------------------------------------------------------
(* Each step turns a good version of the room into a good one.             *)

\* Later matches only extend the table of matches, and keep their rounds.
Grows(ms, ns) ==
  /\ Len(ms) \in Nat /\ Len(ns) \in Nat /\ Len(ms) <= Len(ns)
  /\ \A m \in 1..Len(ms) : ns[m].rounds = ms[m].rounds

LEMMA GoodStaysGood ==
  ASSUME NEW s, NEW ms, NEW ns, NEW en, NEW fn, NEW st, NEW tt,
         Grows(ms, ns), en \subseteq fn, st \subseteq tt, Good(s, ms, en, st)
  PROVE  Good(s, ns, fn, tt)
<1>1. Playable(s, ns) BY DEF Good, Playable, Grows, RoomState
<1>2. Announced(s, fn) BY DEF Good, Announced
<1>3. Submitted(s, tt) BY DEF Good, Submitted
<1> QED BY <1>1, <1>2, <1>3 DEF Good

LEMMA JustifiedStaysJustified ==
  ASSUME NEW j, NEW ms, NEW ns, NEW en, NEW fn,
         Grows(ms, ns), en \subseteq fn, Justified(j, ms, en)
  PROVE  Justified(j, ns, fn)
<1>1. Over(j, ns, fn) BY DEF Justified, Over, Grows
<1>2. Scored(j, fn) BY DEF Justified, Scored
<1> QED BY <1>1, <1>2 DEF Justified

LEMMA GoodJoined ==
  ASSUME NEW s, NEW ms, NEW en, NEW st, NEW u \in User, Good(s, ms, en, st),
         s.status = "waiting", Len(s.players) < MaxPlayers, u \notin ToSet(s.players)
  PROVE  Good([s EXCEPT !.players = Append(@, u)], ms, en, st)
<1> DEFINE v == [s EXCEPT !.players = Append(@, u)]
<1>1. s \in RoomState /\ s.players \in Seq(User) /\ IsInjective(s.players)
      BY DEF Good, Seated, RoomState
<1>2. PICK ps : ps = Append(s.players, u) OBVIOUS
<1>3. /\ ps \in Seq(User) /\ IsInjective(ps) /\ ToSet(ps) = ToSet(s.players) \cup {u}
      /\ Len(ps) = Len(s.players) + 1 /\ Len(s.players) \in Nat
      BY <1>1, <1>2, AppendPlayers
<1>4. v.players = ps BY <1>1, <1>2 DEF RoomState
<1>5. v \in RoomState BY <1>1, <1>2, <1>3 DEF RoomState
<1>7. Seated(v)
  <2>1. /\ v.host = s.host /\ v.guessed = s.guessed
        /\ s.host \in ToSet(s.players) /\ s.guessed \subseteq ToSet(s.players)
        BY <1>1 DEF Good, Seated, RoomState
  <2>2. Len(v.players) \in 1..MaxPlayers BY <1>3, <1>4, RoomAssumption
  <2> QED BY <1>3, <1>4, <2>1, <2>2 DEF Seated
<1>8. Playable(v, ms) /\ Announced(v, en) /\ Submitted(v, st)
      BY <1>1 DEF Good, Playable, Announced, Submitted, RoomState
<1> QED BY <1>5, <1>7, <1>8 DEF Good

LEMMA GoodLeft ==
  ASSUME NEW s, NEW ms, NEW en, NEW st, NEW u, Good(s, ms, en, st), Left(s, u) # Nil
  PROVE  /\ Good(Left(s, u), ms, en, st)
         /\ Left(s, u).token = s.token /\ Left(s, u).match = s.match
         /\ Left(s, u).round = s.round /\ Left(s, u).rounds = s.rounds
         /\ Left(s, u).status = s.status
<1>1. PICK ps : ps = Without(s.players, u) OBVIOUS
<1>2. PICK v : v = Left(s, u) OBVIOUS
<1>3. s \in RoomState /\ s.players \in Seq(User) /\ IsInjective(s.players)
      BY DEF Good, Seated, RoomState
<1>4. /\ ps \in Seq(User) /\ IsInjective(ps) /\ ToSet(ps) = ToSet(s.players) \ {u}
      /\ Len(ps) <= Len(s.players)
      BY <1>1, <1>3, WithoutPlayers
<1>5. /\ ps # <<>>
      /\ v = [s EXCEPT !.players = ps, !.guessed = @ \ {u},
                       !.host = IF @ = u THEN Head(ps) ELSE @]
      BY <1>1, <1>2 DEF Left
<1>6. Head(ps) \in User /\ Head(ps) \in ToSet(ps) /\ Len(ps) \in Nat \ {0}
      /\ Len(s.players) \in Nat
  <2>1. Head(ps) \in User BY <1>4, <1>5, HeadTailProperties
  <2>2. Len(ps) \in Nat \ {0} /\ DOMAIN ps = 1..Len(ps)
        BY <1>4, <1>5, EmptySeq, LenProperties
  <2>3. Head(ps) = ps[1] BY <1>4, <1>5, <2>2
  <2>4. Head(ps) \in ToSet(ps) BY <2>2, <2>3 DEF ToSet
  <2>5. Len(s.players) \in Nat BY <1>3, LenProperties
  <2> QED BY <2>1, <2>2, <2>4, <2>5
<1>7. /\ v.players = ps /\ v.guessed = s.guessed \ {u}
      /\ v.host = IF s.host = u THEN Head(ps) ELSE s.host
      /\ v.guesses = s.guesses /\ v.status = s.status /\ v.rounds = s.rounds
      /\ v.round = s.round /\ v.pano = s.pano /\ v.panos = s.panos
      /\ v.token = s.token /\ v.match = s.match
      BY <1>3, <1>5 DEF RoomState
<1>8. v \in RoomState BY <1>3, <1>4, <1>5, <1>6 DEF RoomState
<1>9. Seated(v)
  <2>1. s.host \in ToSet(s.players) /\ s.guessed \subseteq ToSet(s.players)
        /\ Len(s.players) \in 1..MaxPlayers
        BY DEF Good, Seated
  <2>2. v.host \in ToSet(ps) BY <1>4, <1>6, <1>7, <2>1
  <2>3. Len(ps) \in 1..MaxPlayers BY <1>4, <1>6, <2>1, RoomAssumption
  <2> QED BY <1>4, <1>7, <2>1, <2>2, <2>3 DEF Seated
<1>10. Playable(v, ms) BY <1>4, <1>7 DEF Good, Playable
<1>11. Announced(v, en) /\ Submitted(v, st) BY <1>7 DEF Good, Announced, Submitted
<1> QED BY <1>2, <1>7, <1>8, <1>9, <1>10, <1>11 DEF Good

LEMMA GoodStarted ==
  ASSUME NEW s, NEW ms, NEW en, NEW st, Good(s, ms, en, st), s.status = "waiting",
         NEW qs \in Seq(Pano), qs # <<>>, NEW t \in Token,
         NEW ns, Len(ns) \in Nat \ {0}, ns[Len(ns)].rounds = Len(qs)
  PROVE  Good(Started(s, qs, Len(ns), t), ns, en, st)
<1>1. PICK v : v = Started(s, qs, Len(ns), t) OBVIOUS
<1>2. s \in RoomState BY DEF Good
<1>3. Len(qs) \in Nat \ {0} /\ qs[1] \in Pano BY EmptySeq, ElementOfSeq
<1>4. /\ v.host = s.host /\ v.players = s.players /\ v.guessed = {} /\ v.guesses = {}
      /\ v.status = "active" /\ v.rounds = Len(qs) /\ v.round = 1 /\ v.pano = qs[1]
      /\ v.panos = qs /\ v.token = t /\ v.match = Len(ns)
      BY <1>1, <1>2 DEF Started, RoomState
<1>5. v \in RoomState BY <1>1, <1>2, <1>3 DEF Started, RoomState, Status
<1>6. Seated(v) BY <1>4 DEF Good, Seated
<1>7. Playable(v, ns) BY <1>3, <1>4, RoomAssumption DEF Playable
<1>8. Announced(v, en) /\ Submitted(v, st) BY <1>3, <1>4 DEF Announced, Submitted
<1> QED BY <1>1, <1>5, <1>6, <1>7, <1>8 DEF Good

LEMMA GoodGuessed ==
  ASSUME NEW s, NEW ms, NEW en, NEW st, Good(s, ms, en, st), s.status = "active",
         NEW u \in User, u \in ToSet(s.players)
  PROVE  Good([s EXCEPT !.guesses = @ \cup {u}, !.guessed = @ \cup {u}],
              ms, en, st \cup {<<s.match, s.round, u>>})
<1>1. PICK v : v = [s EXCEPT !.guesses = @ \cup {u}, !.guessed = @ \cup {u}] OBVIOUS
<1>2. s \in RoomState BY DEF Good
<1>3. /\ v.guesses = s.guesses \cup {u} /\ v.guessed = s.guessed \cup {u}
      /\ v.host = s.host /\ v.players = s.players /\ v.status = s.status
      /\ v.rounds = s.rounds /\ v.round = s.round /\ v.pano = s.pano
      /\ v.panos = s.panos /\ v.token = s.token /\ v.match = s.match
      BY <1>1, <1>2 DEF RoomState
<1>4. v \in RoomState BY <1>1, <1>2 DEF RoomState
<1>5. Seated(v) BY <1>3 DEF Good, Seated
<1>6. Playable(v, ms) BY <1>3 DEF Good, Playable
<1>7. Announced(v, en) BY <1>3 DEF Good, Announced
<1>8. Submitted(v, st \cup {<<s.match, s.round, u>>}) BY <1>3 DEF Good, Submitted
<1> QED BY <1>1, <1>4, <1>5, <1>6, <1>7, <1>8 DEF Good

\* The timer marks every player as having guessed.
LEMMA GoodTimedOut ==
  ASSUME NEW s, NEW ms, NEW en, NEW st, Good(s, ms, en, st), s.status = "active"
  PROVE  Good([s EXCEPT !.guessed = ToSet(s.players)], ms, en, st)
<1>1. PICK v : v = [s EXCEPT !.guessed = ToSet(s.players)] OBVIOUS
<1>2. s \in RoomState /\ ToSet(s.players) \subseteq User
  <2>1. s \in RoomState /\ s.players \in Seq(User) BY DEF Good, RoomState
  <2> QED BY <2>1, LenProperties, ElementOfSeq DEF ToSet
<1>3. /\ v.guesses = s.guesses /\ v.guessed = ToSet(s.players)
      /\ v.host = s.host /\ v.players = s.players /\ v.status = s.status
      /\ v.rounds = s.rounds /\ v.round = s.round /\ v.pano = s.pano
      /\ v.panos = s.panos /\ v.token = s.token /\ v.match = s.match
      BY <1>1, <1>2 DEF RoomState
<1>4. v \in RoomState BY <1>1, <1>2 DEF RoomState
<1>5. Seated(v) BY <1>3 DEF Good, Seated
<1>6. Playable(v, ms) BY <1>3 DEF Good, Playable
<1>7. Announced(v, en) /\ Submitted(v, st) BY <1>3 DEF Good, Announced, Submitted
<1> QED BY <1>1, <1>4, <1>5, <1>6, <1>7 DEF Good

\* After the scoring, nobody has guessed.
LEMMA GoodReset ==
  ASSUME NEW s, NEW ms, NEW en, NEW st, Good(s, ms, en, st), s.status = "active"
  PROVE  Good(NobodyGuessed(s), ms, en, st)
<1>1. PICK v : v = NobodyGuessed(s) OBVIOUS
<1>2. s \in RoomState BY DEF Good
<1>3. /\ v.guesses = {} /\ v.guessed = {}
      /\ v.host = s.host /\ v.players = s.players /\ v.status = s.status
      /\ v.rounds = s.rounds /\ v.round = s.round /\ v.pano = s.pano
      /\ v.panos = s.panos /\ v.token = s.token /\ v.match = s.match
      BY <1>1, <1>2 DEF RoomState, NobodyGuessed
<1>4. v \in RoomState BY <1>1, <1>2 DEF RoomState, NobodyGuessed
<1>5. Seated(v) BY <1>3 DEF Good, Seated
<1>6. Playable(v, ms) BY <1>3 DEF Good, Playable
<1>7. Announced(v, en) /\ Submitted(v, st) BY <1>3 DEF Good, Announced, Submitted
<1> QED BY <1>1, <1>4, <1>5, <1>6, <1>7 DEF Good

LEMMA GoodNext ==
  ASSUME NEW s, NEW ms, NEW en, NEW st, Good(s, ms, en, st), s.status = "active",
         s.guesses = {}, s.round < s.rounds, <<s.match, s.round>> \in en,
         NEW t \in Token
  PROVE  Good([s EXCEPT !.round = @ + 1, !.pano = s.panos[s.round + 1], !.token = t],
              ms, en, st)
<1>1. PICK v : v = [s EXCEPT !.round = @ + 1, !.pano = s.panos[s.round + 1], !.token = t]
      OBVIOUS
<1>2. s \in RoomState /\ s.round \in Nat /\ s.rounds \in Nat /\ s.panos \in Seq(Pano)
      BY DEF Good, RoomState
<1>3. s.round \in 1..s.rounds /\ s.rounds = Len(s.panos) BY DEF Good, Playable
<1>4. s.panos[s.round + 1] \in Pano BY <1>2, <1>3, ElementOfSeq
<1>5. /\ v.round = s.round + 1 /\ v.pano = s.panos[s.round + 1] /\ v.token = t
      /\ v.host = s.host /\ v.players = s.players /\ v.guessed = s.guessed
      /\ v.guesses = s.guesses /\ v.status = s.status /\ v.rounds = s.rounds
      /\ v.panos = s.panos /\ v.match = s.match
      BY <1>1, <1>2 DEF RoomState
<1>6. v \in RoomState
  <2>1. PICK n \in Nat, q \in Pano : n = s.round + 1 /\ q = s.panos[s.round + 1]
        BY <1>2, <1>4
  <2>2. v = [s EXCEPT !.round = n, !.pano = q, !.token = t] BY <1>1, <1>2, <2>1 DEF RoomState
  <2> QED BY <1>2, <2>1, <2>2 DEF RoomState
<1>7. Seated(v) BY <1>5 DEF Good, Seated
<1>8. Playable(v, ms)
  <2>1. v.round \in 1..v.rounds BY <1>2, <1>3, <1>5
  <2>2. v.token # Nil BY <1>5, RoomAssumption
  <2> QED BY <1>5, <2>1, <2>2 DEF Good, Playable
<1>9. Announced(v, en)
  <2>1. SUFFICES ASSUME NEW r \in 1..s.rounds, r < s.round + 1
                 PROVE  <<s.match, r>> \in en
        BY <1>5 DEF Announced
  <2>2. r < s.round \/ r = s.round BY <1>2, <2>1
  <2> QED BY <2>1, <2>2 DEF Good, Announced
<1>10. Submitted(v, st) BY <1>5 DEF Submitted
<1> QED BY <1>1, <1>6, <1>7, <1>8, <1>9, <1>10 DEF Good

LEMMA GoodOver ==
  ASSUME NEW s, NEW ms, NEW en, NEW st, Good(s, ms, en, st), s.status = "active",
         s.round = s.rounds, <<s.match, s.round>> \in en
  PROVE  Good([s EXCEPT !.status = "finished"], ms, en, st)
<1>1. PICK v : v = [s EXCEPT !.status = "finished"] OBVIOUS
<1>2. s \in RoomState /\ s.round \in Nat BY DEF Good, RoomState
<1>3. /\ v.status = "finished" /\ v.guesses = s.guesses /\ v.guessed = s.guessed
      /\ v.host = s.host /\ v.players = s.players
      /\ v.rounds = s.rounds /\ v.round = s.round /\ v.pano = s.pano
      /\ v.panos = s.panos /\ v.token = s.token /\ v.match = s.match
      BY <1>1, <1>2 DEF RoomState
<1>4. v \in RoomState BY <1>1, <1>2 DEF RoomState, Status
<1>5. Seated(v) BY <1>3 DEF Good, Seated
<1>6. Playable(v, ms) BY <1>3 DEF Good, Playable
<1>7. Announced(v, en)
  <2>1. SUFFICES ASSUME NEW r \in 1..s.rounds PROVE <<s.match, r>> \in en
        BY <1>3 DEF Announced
  <2>2. r < s.round \/ r = s.round BY <1>2
  <2> QED BY <2>2 DEF Good, Announced
<1>8. Submitted(v, st) BY <1>3 DEF Good, Submitted
<1> QED BY <1>1, <1>4, <1>5, <1>6, <1>7, <1>8 DEF Good

-----------------------------------------------------------------------------
(* What a step has to keep for the invariant to be kept.  W holds the new  *)
(* version of the room the step makes, if it makes one.                    *)

TablesTyped ==
  /\ matches \in Seq([status: {"active", "finished"}, rounds: Nat])
  /\ rows \subseteq Row
  /\ panos \subseteq Pano
  /\ ended \subseteq Nat \X Nat
  /\ stored \subseteq Nat \X Nat \X User
  /\ elo \subseteq Nat

TablesGrow == Grows(matches, matches') /\ ended \subseteq ended' /\ stored \subseteq stored'

\* The new version is of the round of one that exists, or has a token of its own.
SameRoundOrFresh(v) ==
  \/ \E s \in Versions : v.token = s.token /\ v.match = s.match /\ v.round = s.round
  \/ \A s \in Versions : v.token # s.token

LEMMA VersionsKept ==
  ASSUME IndInv, NEW W, \A v, w \in W : v = w,
         Versions' \subseteq Versions \cup W, TablesGrow,
         \A v \in W : Good(v, matches', ended', stored') /\ SameRoundOrFresh(v)
  PROVE  (\A s \in Versions' : Good(s, matches', ended', stored')) /\ TokenNamesRound'
<1>1. ASSUME NEW s \in Versions' PROVE Good(s, matches', ended', stored')
  <2>1. CASE s \in Versions BY <2>1, GoodStaysGood DEF IndInv, TablesGrow
  <2>2. CASE s \in W BY <2>2
  <2> QED BY <2>1, <2>2
<1>2. ASSUME NEW s \in Versions \cup W, NEW r \in Versions \cup W,
             s.token # Nil, s.token = r.token
      PROVE  s.match = r.match /\ s.round = r.round
  <2>1. CASE s \in Versions /\ r \in Versions BY <1>2, <2>1 DEF IndInv, TokenNamesRound
  <2>2. CASE s \in W /\ r \in W BY <2>2
  <2>3. ASSUME NEW v \in W, NEW x \in Versions, v.token = x.token, v.token # Nil
        PROVE  v.match = x.match /\ v.round = x.round
    <3>1. PICK y \in Versions : v.token = y.token /\ v.match = y.match /\ v.round = y.round
          BY <2>3 DEF SameRoundOrFresh
    <3> QED BY <2>3, <3>1 DEF IndInv, TokenNamesRound
  <2> QED BY <1>2, <2>1, <2>2, <2>3
<1>3. TokenNamesRound' BY <1>2 DEF TokenNamesRound
<1> QED BY <1>1, <1>3

\* Process q has moved on to a job that fits the new state.
MovedOn(q, W) ==
  /\ job'[q].pc \in Served \cup Resolved => job'[q].snap \in Versions \cup W
  /\ Justified(job'[q], matches', ended')

LEMMA InvariantKept ==
  ASSUME IndInv, NEW W, \A v, w \in W : v = w,
         room' \in Versions \cup W \cup {Nil},
         job' \in [Proc -> Job],
         \A q \in Proc : job'[q] = job[q] \/ job'[q] \in {Idle, Armed} \/ MovedOn(q, W),
         \A v \in W : Good(v, matches', ended', stored') /\ SameRoundOrFresh(v),
         TablesTyped', TablesGrow, MatchesAnnounced(matches', ended', elo')
  PROVE  IndInv'
<1>1. \A q \in Proc : job'[q] \in {Idle, Armed} => job'[q].pc \notin Served \cup Resolved \cup Closed
      BY DEF Idle, Armed, Served, Resolved, Closed
<1>2. \A q \in Holders' : job'[q].snap \in Versions \cup W
  <2>1. SUFFICES ASSUME NEW q \in Proc, job'[q].pc \in Served \cup Resolved
                 PROVE  job'[q].snap \in Versions \cup W
        BY DEF Holders
  <2>2. CASE MovedOn(q, W) BY <2>1, <2>2 DEF MovedOn
  <2>3. CASE job'[q] = job[q] BY <2>1, <2>3 DEF Versions, Holders
  <2> QED BY <1>1, <2>1, <2>2, <2>3
<1>3. Versions' \subseteq Versions \cup W
      BY <1>2 DEF Versions
<1>4. (\A s \in Versions' : Good(s, matches', ended', stored')) /\ TokenNamesRound'
      BY <1>3, VersionsKept
<1>5. \A q \in Proc : Justified(job'[q], matches', ended')
  <2>1. TAKE q \in Proc
  <2>2. CASE MovedOn(q, W) BY <2>2 DEF MovedOn
  <2>3. CASE job'[q] = job[q] BY <2>3, JustifiedStaysJustified DEF IndInv, TablesGrow
  <2>4. CASE job'[q] \in {Idle, Armed}
        BY <2>4 DEF Justified, Checked, Scored, Over, Idle, Armed, Closed
  <2> QED BY <2>2, <2>3, <2>4
<1>6. room' \in RoomState \cup {Nil}
  <2>1. CASE room' = Nil BY <2>1
  <2>2. CASE room' # Nil
    <3>1. room' \in Versions' BY <2>2 DEF Versions
    <3> QED BY <1>4, <3>1 DEF Good
  <2> QED BY <2>1, <2>2
<1>7. TypeOK' BY <1>6 DEF TypeOK, TablesTyped
<1> QED BY <1>4, <1>5, <1>7 DEF IndInv

\* The same for a step that only turns p to j and perhaps writes the room.
LEMMA TurnKeepsInvariant ==
  ASSUME IndInv, NEW p \in Proc, NEW j \in Job, Turn(p, j),
         NEW W, \A v, w \in W : v = w,
         room' \in Versions \cup W \cup {Nil},
         j.pc \in Served \cup Resolved => j.snap \in Versions \cup W,
         Justified(j, matches', ended'),
         \A v \in W : Good(v, matches', ended', stored') /\ SameRoundOrFresh(v),
         TablesTyped', TablesGrow, MatchesAnnounced(matches', ended', elo')
  PROVE  IndInv'
<1>1. job' \in [Proc -> Job] /\ job'[p] = j /\ \A q \in Proc : q # p => job'[q] = job[q]
      BY DEF IndInv, TypeOK, Turn
<1>2. \A q \in Proc : job'[q] = job[q] \/ job'[q] \in {Idle, Armed} \/ MovedOn(q, W)
      BY <1>1 DEF MovedOn
<1> QED BY <1>1, <1>2, InvariantKept

\* A step that makes no new version, and a step that makes the version v.
LEMMA OldVersionsKeepInvariant ==
  ASSUME IndInv, NEW p \in Proc, NEW j \in Job, Turn(p, j),
         room' \in Versions \cup {Nil},
         j.pc \in Served \cup Resolved => j.snap \in Versions,
         Justified(j, matches', ended'),
         TablesTyped', TablesGrow, MatchesAnnounced(matches', ended', elo')
  PROVE  IndInv'
<1> DEFINE W == {}
<1>1. \A v, w \in W : v = w OBVIOUS
<1>2. room' \in Versions \cup W \cup {Nil} OBVIOUS
<1>3. j.pc \in Served \cup Resolved => j.snap \in Versions \cup W OBVIOUS
<1>4. \A v \in W : Good(v, matches', ended', stored') /\ SameRoundOrFresh(v) OBVIOUS
<1> HIDE DEF W
<1> QED BY <1>1, <1>2, <1>3, <1>4, TurnKeepsInvariant

LEMMA NewVersionKeepsInvariant ==
  ASSUME IndInv, NEW p \in Proc, NEW j \in Job, Turn(p, j), NEW v,
         Good(v, matches', ended', stored'), SameRoundOrFresh(v),
         room' = v \/ room' \in Versions \cup {Nil},
         j.pc \in Served \cup Resolved => j.snap = v \/ j.snap \in Versions,
         Justified(j, matches', ended'),
         TablesTyped', TablesGrow, MatchesAnnounced(matches', ended', elo')
  PROVE  IndInv'
<1> DEFINE W == {v}
<1>1. \A x, y \in W : x = y OBVIOUS
<1>2. room' \in Versions \cup W \cup {Nil} OBVIOUS
<1>3. j.pc \in Served \cup Resolved => j.snap \in Versions \cup W OBVIOUS
<1>4. \A x \in W : Good(x, matches', ended', stored') /\ SameRoundOrFresh(x) OBVIOUS
<1> HIDE DEF W
<1> QED BY <1>1, <1>2, <1>3, <1>4, TurnKeepsInvariant

\* Tables a step leaves alone are as they were.
LEMMA TablesUnchanged ==
  ASSUME IndInv, UNCHANGED <<database, history>>
  PROVE  TablesTyped' /\ TablesGrow /\ MatchesAnnounced(matches', ended', elo')
<1>1. Len(matches) \in Nat BY LenProperties DEF IndInv, TypeOK
<1> QED BY <1>1 DEF IndInv, TypeOK, TablesTyped, TablesGrow, Grows, database, history

LEMMA JobTypes ==
  /\ Idle \in Job /\ Armed \in Job
  /\ \A pc \in Served, u \in User, s \in RoomState : Serve(pc, u, s) \in Job
  /\ \A pc \in Resolved, s \in RoomState : Resolve(pc, s) \in Job
  /\ \A t \in Token : Advance(t) \in Job
  /\ \A pc \in Closed, m \in Nat : Close(pc, m) \in Job
BY DEF Job, Idle, Armed, Serve, Resolve, Advance, Close

\* An idle process holds nothing and claims nothing.
LEMMA IdleFits ==
  /\ Idle \in Job /\ Idle.pc \notin Served \cup Resolved
  /\ \A ms, en : Justified(Idle, ms, en)
BY JobTypes DEF Justified, Checked, Scored, Over, Idle, Closed, Served, Resolved

\* Nor does one that is about to resolve a round.
LEMMA AdvanceFits ==
  \A t \in Token : /\ Advance(t) \in Job /\ Advance(t).pc \notin Served \cup Resolved
                   /\ \A ms, en : Justified(Advance(t), ms, en)
<1>1. \A t \in Token : Advance(t).pc = "advance" BY DEF Advance
<1>2. "advance" \notin Served \cup Resolved \cup Closed BY DEF Served, Resolved, Closed
<1> QED BY <1>1, <1>2, JobTypes DEF Justified, Checked, Scored, Over

\* What a process holds.
LEMMA JobFields ==
  ASSUME IndInv, NEW p \in Proc
  PROVE  /\ job[p].pc \in Served => job[p].user \in User
         /\ job[p].pc \in Served \cup Resolved =>
              job[p].snap \in Versions /\ Good(job[p].snap, matches, ended, stored)
         /\ job[p].pc = "advance" => job[p].token \in Token
         /\ job[p].pc \in Closed => job[p].match \in Nat
<1>1. job[p] \in Job BY DEF IndInv, TypeOK
<1>2. job[p].pc \in Served \cup Resolved => job[p].snap \in Versions
      BY DEF Versions, Holders
<1> QED BY <1>1, <1>2 DEF IndInv, Job, Served, Resolved, Closed

\* A process that has read the room and done nothing else.
LEMMA ReadKeepsInvariant ==
  ASSUME IndInv, NEW p \in Proc, NEW j \in Job, Turn(p, j), room # Nil,
         j.pc \in Served \cup Resolved => j.snap = room,
         Justified(j, matches, ended), UNCHANGED <<room, database, history>>
  PROVE  IndInv'
<1>1. room \in Versions BY DEF Versions
<1>2. Justified(j, matches', ended') BY DEF database, history
<1>3. room' \in Versions \cup {Nil} /\ (j.pc \in Served \cup Resolved => j.snap \in Versions)
      BY <1>1
<1> QED BY <1>2, <1>3, OldVersionsKeepInvariant, TablesUnchanged

\* A process that stops.
LEMMA DoneKeepsInvariant ==
  ASSUME IndInv, NEW p \in Proc, Done(p), room' \in Versions \cup {Nil},
         UNCHANGED <<database, history>>
  PROVE  IndInv'
BY IdleFits, OldVersionsKeepInvariant, TablesUnchanged DEF Done

-----------------------------------------------------------------------------
(* Requests and timers that read.                                          *)

\* The stored room, when there is one, is one of the versions.
LEMMA StoredRoom ==
  ASSUME IndInv
  PROVE  /\ room \in Versions \cup {Nil}
         /\ room # Nil => room \in RoomState /\ Good(room, matches, ended, stored)
BY DEF IndInv, TypeOK, Versions

LEMMA AskKeepsInvariant ==
  ASSUME IndInv, NEW p \in Slot, NEW u \in User, Ask(p, u)
  PROVE  IndInv'
<1> p \in Proc BY DEF Proc
<1>1. CASE JoinRead(p, u)
  <2> DEFINE j == Serve("join", u, room)
  <2>1. j \in Job BY <1>1, StoredRoom, JobTypes DEF JoinRead, Served
  <2>2. Justified(j, matches, ended)
        BY <1>1 DEF JoinRead, Justified, Checked, Scored, Over, Serve, Closed
  <2> QED BY <1>1, <2>1, <2>2, ReadKeepsInvariant DEF JoinRead, Serve
<1>2. CASE LeaveRead(p, u)
  <2> DEFINE j == Serve("leave", u, room)
  <2>1. j \in Job BY <1>2, StoredRoom, JobTypes DEF LeaveRead, Served
  <2>2. Justified(j, matches, ended)
        BY <1>2 DEF LeaveRead, Justified, Checked, Scored, Over, Serve, Closed
  <2> QED BY <1>2, <2>1, <2>2, ReadKeepsInvariant DEF LeaveRead, Serve
<1>3. CASE StartRead(p, u)
  <2> DEFINE j == Resolve("start", room)
  <2>1. j \in Job BY <1>3, StoredRoom, JobTypes DEF StartRead, Resolved
  <2>2. Justified(j, matches, ended)
        BY <1>3 DEF StartRead, Justified, Checked, Scored, Over, Resolve, Closed
  <2> QED BY <1>3, <2>1, <2>2, ReadKeepsInvariant DEF StartRead, Resolve
<1>4. CASE GuessRead(p, u)
  <2> DEFINE j == Serve("guess", u, room)
  <2>1. j \in Job BY <1>4, StoredRoom, JobTypes DEF GuessRead, Served
  <2>2. Justified(j, matches, ended)
        BY <1>4 DEF GuessRead, Justified, Checked, Scored, Over, Serve, Closed
  <2> QED BY <1>4, <2>1, <2>2, ReadKeepsInvariant DEF GuessRead, Serve
<1> QED BY <1>1, <1>2, <1>3, <1>4 DEF Ask

LEMMA FireKeepsInvariant ==
  ASSUME IndInv, NEW t \in Token, Fire(t)
  PROVE  IndInv'
<1> t \in Proc BY DEF Proc
<1>1. CASE TimerFire(t)
  <2> DEFINE j == Resolve("timeout", room)
  <2>1. j \in Job BY <1>1, StoredRoom, JobTypes DEF TimerFire, RoundOpen, Resolved
  <2>2. Justified(j, matches, ended)
        BY <1>1 DEF TimerFire, RoundOpen, Justified, Checked, Scored, Over, Resolve, Closed
  <2> QED BY <1>1, <2>1, <2>2, ReadKeepsInvariant DEF TimerFire, RoundOpen, Resolve
<1>2. CASE TimerStale(t)
      BY <1>2, StoredRoom, DoneKeepsInvariant DEF TimerStale
<1> QED BY <1>1, <1>2 DEF Fire

-----------------------------------------------------------------------------
(* Requests and timers that write.                                         *)

LEMMA JoinWriteKeepsInvariant ==
  ASSUME IndInv, NEW p \in Proc, JoinWrite(p)
  PROVE  IndInv'
<1>1. PICK s, u : s = job[p].snap /\ u = job[p].user OBVIOUS
<1>2. PICK v : v = [s EXCEPT !.players = Append(@, u)] OBVIOUS
<1>3. /\ s \in Versions /\ Good(s, matches, ended, stored) /\ u \in User
      /\ s.status = "waiting" /\ Len(s.players) < MaxPlayers /\ u \notin ToSet(s.players)
  <2>1. job[p].pc = "join" BY DEF JoinWrite
  <2> QED BY <1>1, <2>1, JobFields DEF IndInv, Justified, Checked, Served
<1>4. Good(v, matches, ended, stored) BY <1>2, <1>3, GoodJoined
<1>5. v.token = s.token /\ v.match = s.match /\ v.round = s.round
      BY <1>2, <1>3 DEF Good, RoomState
<1>6. Good(v, matches', ended', stored') /\ SameRoundOrFresh(v)
      BY <1>3, <1>4, <1>5 DEF SameRoundOrFresh, JoinWrite, database, history
<1>7. room' = v \/ room' \in Versions \cup {Nil}
      BY <1>1, <1>2, StoredRoom DEF JoinWrite, SetOk, SetError
<1> QED BY <1>6, <1>7, IdleFits, NewVersionKeepsInvariant, TablesUnchanged DEF JoinWrite, Done

LEMMA LeaveWriteKeepsInvariant ==
  ASSUME IndInv, NEW p \in Proc, LeaveWrite(p)
  PROVE  IndInv'
<1>1. PICK s, u : s = job[p].snap /\ u = job[p].user OBVIOUS
<1>2. PICK v : v = Left(s, u) OBVIOUS
<1>3. s \in Versions /\ Good(s, matches, ended, stored)
  <2>1. job[p].pc = "leave" BY DEF LeaveWrite
  <2> QED BY <1>1, <2>1, JobFields DEF Served
<1>4. CASE v = Nil
  <2>1. room' \in Versions \cup {Nil}
        BY <1>1, <1>2, <1>4, StoredRoom DEF LeaveWrite, SetOk, SetError
  <2> QED BY <2>1, DoneKeepsInvariant DEF LeaveWrite
<1>5. CASE v # Nil
  <2>1. /\ Good(v, matches, ended, stored)
        /\ v.token = s.token /\ v.match = s.match /\ v.round = s.round
        BY <1>2, <1>3, <1>5, GoodLeft
  <2>2. Good(v, matches', ended', stored') /\ SameRoundOrFresh(v)
        BY <1>3, <2>1 DEF SameRoundOrFresh, LeaveWrite, database, history
  <2>3. room' = v \/ room' \in Versions \cup {Nil}
        BY <1>1, <1>2, StoredRoom DEF LeaveWrite, SetOk, SetError
    <2> QED BY <2>2, <2>3, IdleFits, NewVersionKeepsInvariant, TablesUnchanged DEF LeaveWrite, Done
<1> QED BY <1>4, <1>5

LEMMA GuessWriteKeepsInvariant ==
  ASSUME IndInv, NEW p \in Proc, GuessWrite(p)
  PROVE  IndInv'
<1>1. PICK s, u : s = job[p].snap /\ u = job[p].user OBVIOUS
<1>2. PICK v : v = [s EXCEPT !.guesses = @ \cup {u}, !.guessed = @ \cup {u}] OBVIOUS
<1>3. /\ s \in Versions /\ Good(s, matches, ended, stored) /\ u \in User
      /\ s.status = "active" /\ u \in ToSet(s.players)
  <2>1. job[p].pc = "guess" BY DEF GuessWrite
  <2> QED BY <1>1, <2>1, JobFields DEF IndInv, Justified, Checked, Served
<1>4. s \in RoomState /\ s.token \in Token /\ s.match \in Nat /\ s.round \in Nat
      BY <1>3 DEF Good, RoomState, Playable
<1>5. /\ UNCHANGED <<matches, rows, panos, ended, elo>>
      /\ stored' = stored \cup {<<s.match, s.round, u>>}
      BY <1>1 DEF GuessWrite, database
<1>6. Good(v, matches', ended', stored') BY <1>2, <1>3, <1>5, GoodGuessed
<1>7. v.token = s.token /\ v.match = s.match /\ v.round = s.round
      BY <1>2, <1>4 DEF RoomState
<1>8. SameRoundOrFresh(v) BY <1>3, <1>7 DEF SameRoundOrFresh
<1>9. room' = v \/ room' \in Versions \cup {Nil}
      BY <1>1, <1>2, StoredRoom DEF GuessWrite, SetOk, SetError
<1>10. TablesTyped' /\ TablesGrow /\ MatchesAnnounced(matches', ended', elo')
  <2>1. Len(matches) \in Nat BY LenProperties DEF IndInv, TypeOK
  <2>2. TablesTyped'
    <3>1. <<s.match, s.round, u>> \in Nat \X Nat \X User BY <1>3, <1>4
    <3>2. stored \subseteq Nat \X Nat \X User BY DEF IndInv, TypeOK
    <3>3. stored' \subseteq Nat \X Nat \X User BY <1>5, <3>1, <3>2
    <3> QED BY <1>5, <3>3 DEF IndInv, TypeOK, TablesTyped
  <2>3. TablesGrow BY <1>5, <2>1 DEF TablesGrow, Grows
  <2>4. MatchesAnnounced(matches', ended', elo') BY <1>5 DEF IndInv
  <2> QED BY <2>2, <2>3, <2>4
<1>11. PICK j \in {Idle, Advance(s.token)} : Turn(p, j)
      BY <1>1 DEF GuessWrite, Done
<1>12. j \in Job /\ j.pc \notin Served \cup Resolved /\ Justified(j, matches', ended')
      BY <1>4, <1>11, IdleFits, AdvanceFits
<1> QED BY <1>6, <1>8, <1>9, <1>10, <1>11, <1>12, NewVersionKeepsInvariant

LEMMA TimerWriteKeepsInvariant ==
  ASSUME IndInv, NEW t \in Token, TimerWrite(t)
  PROVE  IndInv'
<1> t \in Proc BY DEF Proc
<1>1. PICK s : s = job[t].snap OBVIOUS
<1>2. PICK v : v = [s EXCEPT !.guessed = ToSet(s.players)] OBVIOUS
<1>3. s \in Versions /\ Good(s, matches, ended, stored) /\ s.status = "active"
  <2>1. job[t].pc = "timeout" BY DEF TimerWrite
  <2> QED BY <1>1, <2>1, JobFields DEF IndInv, Justified, Checked, Resolved
<1>4. v.token = s.token /\ v.match = s.match /\ v.round = s.round /\ s.token \in Token
      BY <1>2, <1>3 DEF Good, RoomState, Playable
<1>5. Good(v, matches', ended', stored')
  <2>1. Good(v, matches, ended, stored) BY <1>2, <1>3, GoodTimedOut
  <2> QED BY <2>1 DEF TimerWrite, database, history
<1>6. SameRoundOrFresh(v) BY <1>3, <1>4 DEF SameRoundOrFresh
<1>7. room' = v \/ room' \in Versions \cup {Nil}
      BY <1>1, <1>2, StoredRoom DEF TimerWrite, SetOk, SetError
<1>8. PICK j \in {Idle, Advance(s.token)} : Turn(t, j)
      BY <1>1, <1>2, <1>4 DEF TimerWrite, Done
<1>9. j \in Job /\ j.pc \notin Served \cup Resolved /\ Justified(j, matches', ended')
      BY <1>4, <1>8, IdleFits, AdvanceFits
<1> QED BY <1>5, <1>6, <1>7, <1>8, <1>9, NewVersionKeepsInvariant, TablesUnchanged DEF TimerWrite

-----------------------------------------------------------------------------
(* Start.                                                                  *)

\* Drawn panoramas are a list of panoramas that are ready.
LEMMA DrawnPanos ==
  ASSUME panos \subseteq Pano, NEW n \in Nat, NEW qs \in Draws(n)
  PROVE  qs \in Seq(Pano)
<1>1. Cardinality(panos) \in Nat BY FS_Subset, FS_CardinalityType, RoomAssumption
<1>2. PICK k \in Nat : qs \in [1..k -> panos] BY <1>1 DEF Draws, Injection
<1>3. qs \in [1..k -> Pano] BY <1>2
<1> QED BY <1>3

LEMMA FreshToken ==
  ASSUME NEW t \in FreshTokens
  PROVE  t \in Token /\ \A s \in Versions : t # s.token
BY DEF FreshTokens

LEMMA StartInsertKeepsInvariant ==
  ASSUME IndInv, NEW p \in Proc, StartInsert(p)
  PROVE  IndInv'
<1>1. PICK s : s = job[p].snap OBVIOUS
<1>2. /\ s \in Versions /\ Good(s, matches, ended, stored) /\ s.status = "waiting"
      /\ s \in RoomState
  <2>1. job[p].pc = "start" BY DEF StartInsert
  <2> QED BY <1>1, <2>1, JobFields DEF IndInv, Justified, Checked, Resolved, Good
<1>3. PICK qs \in Draws(s.rounds), t \in FreshTokens :
        /\ qs # <<>>
        /\ matches' = Append(matches, [status |-> "active", rounds |-> Len(qs)])
        /\ Turn(p, Resolve("launch", Started(s, qs, Len(matches) + 1, t)))
      BY <1>1 DEF StartInsert
<1>4. qs \in Seq(Pano) /\ Len(qs) \in Nat \ {0}
  <2>1. s.rounds \in Nat BY <1>2 DEF RoomState
  <2>2. qs \in Seq(Pano) BY <1>3, <2>1, DrawnPanos DEF IndInv, TypeOK
  <2> QED BY <1>3, <2>2, EmptySeq
<1>5. t \in Token /\ \A x \in Versions : t # x.token BY FreshToken
<1>6. PICK ns : ns = matches' OBVIOUS
<1>7. /\ ns \in Seq([status: {"active", "finished"}, rounds: Nat])
      /\ Len(matches) \in Nat /\ Len(ns) = Len(matches) + 1
      /\ \A m \in 1..Len(matches) : ns[m] = matches[m]
      /\ ns[Len(ns)] = [status |-> "active", rounds |-> Len(qs)]
  <2>1. matches \in Seq([status: {"active", "finished"}, rounds: Nat])
        BY DEF IndInv, TypeOK
  <2>2. [status |-> "active", rounds |-> Len(qs)] \in [status: {"active", "finished"}, rounds: Nat]
        BY <1>4
  <2> QED BY <1>3, <1>6, <2>1, <2>2
<1>8. PICK v : v = Started(s, qs, Len(ns), t) OBVIOUS
<1>9. Good(v, ns, ended, stored) BY <1>2, <1>3, <1>4, <1>5, <1>7, <1>8, GoodStarted
<1>10. v.token = t /\ v.status = "active" BY <1>2, <1>8 DEF Started, RoomState
<1>11. SameRoundOrFresh(v) BY <1>5, <1>10 DEF SameRoundOrFresh
<1>12. UNCHANGED <<room, rows, panos, ended, stored, elo>> BY DEF StartInsert, history
<1>13. /\ Resolve("launch", v) \in Job /\ Resolve("launch", v).snap = v
       /\ Justified(Resolve("launch", v), ns, ended)
  <2>1. Resolve("launch", v) \in Job BY <1>9, JobTypes DEF Good, Resolved
  <2> QED BY <1>10, <2>1 DEF Resolve, Justified, Checked, Scored, Over, Closed
<1>14. TablesTyped' /\ TablesGrow /\ MatchesAnnounced(matches', ended', elo')
  <2>1. TablesTyped' BY <1>6, <1>7, <1>12 DEF IndInv, TypeOK, TablesTyped
  <2>2. TablesGrow BY <1>6, <1>7, <1>12 DEF TablesGrow, Grows
  <2>3. MatchesAnnounced(ns, ended, elo)
    <3>1. /\ elo \subseteq 1..Len(matches)
          /\ \A m \in 1..Len(matches) : m \in elo \/ matches[m].status = "finished" =>
               \A r \in 1..matches[m].rounds : <<m, r>> \in ended
          BY LenProperties DEF IndInv, TypeOK, MatchesAnnounced
    <3>2. DOMAIN ns = 1..(Len(matches) + 1) BY <1>7, LenProperties
    <3>3. elo \subseteq 1..Len(ns) BY <1>7, <3>1
    <3>4. ASSUME NEW m \in DOMAIN ns, m \in elo \/ ns[m].status = "finished",
                 NEW r \in 1..ns[m].rounds
          PROVE  <<m, r>> \in ended
      <4>1. m # Len(matches) + 1 BY <1>7, <3>1, <3>4
      <4>2. m \in 1..Len(matches) BY <1>7, <3>2, <4>1
      <4> QED BY <1>7, <3>1, <3>4, <4>2
    <3> QED BY <3>3, <3>4 DEF MatchesAnnounced
  <2> QED BY <1>6, <1>12, <2>1, <2>2, <2>3
<1> QED BY <1>3, <1>6, <1>7, <1>8, <1>9, <1>11, <1>12, <1>13, <1>14, StoredRoom,
           NewVersionKeepsInvariant

\* A process that has written the version v, or failed to, and arms its timer.
LEMMA ArmKeepsInvariant ==
  ASSUME IndInv, NEW p \in Proc, NEW v, v.token \in Token, DoneAndArm(p, v),
         Good(v, matches, ended, stored), SameRoundOrFresh(v),
         room' = v \/ room' \in Versions \cup {Nil}, UNCHANGED <<database, history>>
  PROVE  IndInv'
<1> DEFINE W == {v}
<1>1. \A x, y \in W : x = y OBVIOUS
<1>2. room' \in Versions \cup W \cup {Nil} OBVIOUS
<1>3. /\ job' \in [Proc -> Job]
      /\ \A q \in Proc : job'[q] = job[q] \/ job'[q] \in {Idle, Armed}
      BY JobTypes DEF DoneAndArm, IndInv, TypeOK, Proc
<1>4. \A x \in W : Good(x, matches', ended', stored') /\ SameRoundOrFresh(x)
      BY DEF database, history
<1> HIDE DEF W
<1> QED BY <1>1, <1>2, <1>3, <1>4, InvariantKept, TablesUnchanged

LEMMA StartWriteKeepsInvariant ==
  ASSUME IndInv, NEW p \in Proc, StartWrite(p)
  PROVE  IndInv'
<1>1. PICK s : s = job[p].snap OBVIOUS
<1>2. s \in Versions /\ Good(s, matches, ended, stored) /\ s.status = "active"
  <2>1. job[p].pc = "launch" BY DEF StartWrite
  <2> QED BY <1>1, <2>1, JobFields DEF IndInv, Justified, Checked, Resolved
<1>3. s.token \in Token BY <1>2 DEF Good, RoomState, Playable
<1>4. SameRoundOrFresh(s) BY <1>2 DEF SameRoundOrFresh
<1>5. UNCHANGED <<database, history>> BY DEF StartWrite
<1>6. CASE SetOk(s) /\ DoneAndArm(p, s)
      BY <1>2, <1>3, <1>4, <1>5, <1>6, ArmKeepsInvariant DEF SetOk
<1>7. CASE SetError(s) /\ Done(p)
  <2>1. room' \in Versions \cup {Nil} BY <1>2, <1>7, StoredRoom DEF SetError
  <2> QED BY <1>5, <1>7, <2>1, DoneKeepsInvariant
<1> QED BY <1>1, <1>6, <1>7 DEF StartWrite

-----------------------------------------------------------------------------
(* advanceRound.                                                           *)

LEMMA AdvanceReadKeepsInvariant ==
  ASSUME IndInv, NEW p \in Proc, AdvanceRead(p)
  PROVE  IndInv'
<1> DEFINE j == Resolve("score", room)
<1>1. room # Nil /\ room.status = "active" BY DEF AdvanceRead, RoundOpen
<1>2. j \in Job BY <1>1, StoredRoom, JobTypes DEF Resolved
<1>3. Justified(j, matches, ended)
      BY <1>1 DEF Justified, Checked, Scored, Over, Resolve, Closed
<1>4. j.snap = room BY DEF Resolve
<1> HIDE DEF j
<1> QED BY <1>1, <1>2, <1>3, <1>4, ReadKeepsInvariant DEF AdvanceRead, j

LEMMA AdvanceScoreKeepsInvariant ==
  ASSUME IndInv, NEW p \in Proc, AdvanceScore(p)
  PROVE  IndInv'
<1>1. PICK s : s = job[p].snap OBVIOUS
<1>2. /\ s \in Versions /\ Good(s, matches, ended, stored) /\ s.status = "active"
      /\ s \in RoomState
  <2>1. job[p].pc = "score" BY DEF AdvanceScore
  <2> QED BY <1>1, <2>1, JobFields DEF IndInv, Justified, Checked, Resolved, Good
<1>3. PICK v : v = NobodyGuessed(s) OBVIOUS
<1>4. PICK j : j = Resolve(AfterRound(s), v) OBVIOUS
<1>5. /\ ended' = ended \cup {<<s.match, s.round>>}
      /\ Turn(p, j) /\ UNCHANGED <<room, matches, panos, stored, elo>>
      BY <1>1, <1>3, <1>4 DEF AdvanceScore
<1>6. Good(v, matches, ended, stored) BY <1>2, <1>3, GoodReset
<1>7. /\ v.token = s.token /\ v.match = s.match /\ v.round = s.round
      /\ v.rounds = s.rounds /\ v.status = "active" /\ v.guesses = {}
      BY <1>2, <1>3 DEF RoomState, NobodyGuessed
<1>8. SameRoundOrFresh(v) BY <1>2, <1>7 DEF SameRoundOrFresh
<1>9. TablesTyped' /\ TablesGrow /\ MatchesAnnounced(matches', ended', elo')
  <2>1. ended' \subseteq Nat \X Nat
    <3>1. s.match \in Nat /\ s.round \in Nat BY <1>2 DEF RoomState
    <3> QED BY <1>5, <3>1 DEF IndInv, TypeOK
  <2>2. rows' \subseteq Row
    <3>1. RoundRows(s) \subseteq Row
      <4>1. ToSet(s.players) \subseteq User
        <5>1. s.players \in Seq(User) BY <1>2 DEF RoomState
        <5> QED BY <5>1, LenProperties, ElementOfSeq DEF ToSet
      <4>2. s.pano \in Pano
        <5>1. s.pano \in panos BY <1>1 DEF AdvanceScore
        <5> QED BY <5>1 DEF IndInv, TypeOK
      <4> QED BY <1>2, <4>1, <4>2 DEF RoundRows, Row, RoomState
    <3>2. rows' \subseteq rows \cup RoundRows(s) BY <1>1 DEF AdvanceScore
    <3> QED BY <3>1, <3>2 DEF IndInv, TypeOK
  <2>3. Len(matches) \in Nat BY LenProperties DEF IndInv, TypeOK
  <2>4. TablesTyped' BY <1>5, <2>1, <2>2 DEF IndInv, TypeOK, TablesTyped
  <2>5. TablesGrow BY <1>5, <2>3 DEF TablesGrow, Grows
  <2>6. MatchesAnnounced(matches', ended', elo') BY <1>5 DEF IndInv, MatchesAnnounced
  <2> QED BY <2>4, <2>5, <2>6
<1>10. Good(v, matches', ended', stored') BY <1>6, <1>9, GoodStaysGood DEF TablesGrow
<1>11. j \in Job /\ j.snap = v
       BY <1>4, <1>6, JobTypes DEF Good, Resolved, Resolve, AfterRound
<1>12. Justified(j, matches', ended')
  <2>1. s.round \in 1..s.rounds /\ s.rounds \in Nat BY <1>2 DEF Good, Playable, RoomState
  <2>2. /\ j.snap = v /\ j.pc \in {"next", "finish"}
        /\ j.pc = "next" => s.round < s.rounds
        /\ j.pc = "finish" => s.round = s.rounds
        BY <1>4, <2>1 DEF Resolve, AfterRound
  <2>3. Scored(j, ended') BY <1>5, <1>7, <2>2 DEF Scored
  <2>4. Checked(j) /\ Over(j, matches', ended') BY <2>2 DEF Checked, Over, Closed
  <2> QED BY <2>3, <2>4 DEF Justified
<1>13. room' \in Versions \cup {Nil} BY <1>5, StoredRoom
<1> QED BY <1>5, <1>8, <1>9, <1>10, <1>11, <1>12, <1>13, NewVersionKeepsInvariant

LEMMA AdvanceNextKeepsInvariant ==
  ASSUME IndInv, NEW p \in Proc, AdvanceNext(p)
  PROVE  IndInv'
<1>1. PICK s : s = job[p].snap OBVIOUS
<1>2. /\ s \in Versions /\ Good(s, matches, ended, stored) /\ s.status = "active"
      /\ s.guesses = {} /\ s.round < s.rounds /\ <<s.match, s.round>> \in ended
  <2>1. job[p].pc = "next" BY DEF AdvanceNext
  <2> QED BY <1>1, <2>1, JobFields DEF IndInv, Justified, Scored, Resolved
<1>3. PICK t \in FreshTokens :
        \E v :
              /\ v = [s EXCEPT !.round = @ + 1, !.pano = s.panos[s.round + 1], !.token = t]
              /\ SetOk(v) \/ SetError(v)
              /\ DoneAndArm(p, v)
      BY <1>1, Zenon DEF AdvanceNext
<1>4. PICK v :
        /\ v = [s EXCEPT !.round = @ + 1, !.pano = s.panos[s.round + 1], !.token = t]
        /\ SetOk(v) \/ SetError(v)
        /\ DoneAndArm(p, v)
      BY <1>3
<1>5. t \in Token /\ \A x \in Versions : t # x.token BY FreshToken
<1>6. Good(v, matches, ended, stored) BY <1>2, <1>4, <1>5, GoodNext
<1>7. v.token = t BY <1>2, <1>4 DEF Good, RoomState
<1>8. SameRoundOrFresh(v) BY <1>5, <1>7 DEF SameRoundOrFresh
<1>9. room' = v \/ room' \in Versions \cup {Nil} BY <1>4, StoredRoom DEF SetOk, SetError
<1>10. UNCHANGED <<database, history>> BY DEF AdvanceNext
<1> QED BY <1>4, <1>5, <1>6, <1>7, <1>8, <1>9, <1>10, ArmKeepsInvariant

LEMMA AdvanceFinishKeepsInvariant ==
  ASSUME IndInv, NEW p \in Proc, AdvanceFinish(p)
  PROVE  IndInv'
<1>1. PICK s : s = job[p].snap OBVIOUS
<1>2. /\ s \in Versions /\ Good(s, matches, ended, stored) /\ s.status = "active"
      /\ s.round = s.rounds /\ <<s.match, s.round>> \in ended
  <2>1. job[p].pc = "finish" BY DEF AdvanceFinish
  <2> QED BY <1>1, <2>1, JobFields DEF IndInv, Justified, Scored, Resolved
<1>3. PICK v : v = [s EXCEPT !.status = "finished"] OBVIOUS
<1>4. Good(v, matches, ended, stored) BY <1>2, <1>3, GoodOver
<1>5. /\ v.token = s.token /\ v.match = s.match /\ v.round = s.round
      /\ v.rounds = s.rounds /\ v.status = "finished"
      BY <1>2, <1>3 DEF Good, RoomState
<1>6. SameRoundOrFresh(v) BY <1>2, <1>5 DEF SameRoundOrFresh
<1>7. /\ room' = v \/ room' \in Versions \cup {Nil}
      /\ Turn(p, Close("close", v.match)) /\ UNCHANGED <<database, history>>
      BY <1>1, <1>3, StoredRoom DEF AdvanceFinish, SetOk, SetError
<1>8. /\ v.match \in 1..Len(matches)
      /\ \A r \in 1..matches[v.match].rounds : <<v.match, r>> \in ended
      BY <1>4, <1>5 DEF Good, Playable, Announced
<1>9. PICK j : j = Close("close", v.match) OBVIOUS
<1>10. j \in Job /\ j.pc \notin Served \cup Resolved
  <2>1. v.match \in Nat BY <1>4 DEF Good, RoomState
  <2> QED BY <1>9, <2>1, JobTypes DEF Closed, Close, Served, Resolved
<1>11. Justified(j, matches, ended)
       BY <1>8, <1>9 DEF Justified, Checked, Scored, Over, Close, Closed
<1>12. Good(v, matches', ended', stored') /\ Justified(j, matches', ended')
       BY <1>4, <1>7, <1>11 DEF database, history
<1> QED BY <1>6, <1>7, <1>9, <1>10, <1>12, NewVersionKeepsInvariant, TablesUnchanged

\* UPDATE matches changes the status of the match, not its rounds.
LEMMA CloseMatchKeepsInvariant ==
  ASSUME IndInv, NEW p \in Proc, CloseMatch(p)
  PROVE  IndInv'
<1>1. PICK m : m = job[p].match OBVIOUS
<1>2. m \in 1..Len(matches) /\ \A r \in 1..matches[m].rounds : <<m, r>> \in ended
  <2>1. job[p].pc = "close" BY DEF CloseMatch
  <2> QED BY <1>1, <2>1 DEF IndInv, Justified, Over, Closed
<1>3. PICK j : j = Close("elo", m) OBVIOUS
<1>4. /\ matches' = [matches EXCEPT ![m].status = "finished"] \/ matches' = matches
      /\ Turn(p, j) /\ UNCHANGED <<room, rows, panos, ended, stored, elo>>
      BY <1>1, <1>3 DEF CloseMatch, history
<1>5. PICK ns : ns = matches' OBVIOUS
<1>6. /\ ns \in Seq([status: {"active", "finished"}, rounds: Nat])
      /\ Len(ns) = Len(matches) /\ Len(matches) \in Nat
      /\ \A k \in 1..Len(matches) : /\ ns[k].rounds = matches[k].rounds
                                    /\ k # m => ns[k] = matches[k]
  <2>1. /\ matches \in Seq([status: {"active", "finished"}, rounds: Nat])
        /\ Len(matches) \in Nat /\ DOMAIN matches = 1..Len(matches)
        BY LenProperties DEF IndInv, TypeOK
  <2>2. CASE ns = matches BY <2>1, <2>2
  <2>3. CASE ns = [matches EXCEPT ![m].status = "finished"]
    <3>1. matches[m] \in [status: {"active", "finished"}, rounds: Nat]
          BY <1>2, <2>1, ElementOfSeq
    <3>2. PICK x : x = [matches[m] EXCEPT !.status = "finished"] OBVIOUS
    <3>3. /\ x \in [status: {"active", "finished"}, rounds: Nat]
          /\ x.rounds = matches[m].rounds
          BY <3>1, <3>2
    <3>4. ns = [matches EXCEPT ![m] = x] BY <2>3, <3>2
    <3>5. /\ ns \in Seq([status: {"active", "finished"}, rounds: Nat])
          /\ Len(ns) = Len(matches)
          /\ \A k \in 1..Len(matches) : ns[k] = IF k = m THEN x ELSE matches[k]
          BY <1>2, <2>1, <3>3, <3>4, ExceptSeq
    <3> QED BY <2>1, <3>3, <3>5
  <2> QED BY <1>4, <1>5, <2>2, <2>3
<1>7. TablesTyped' BY <1>4, <1>5, <1>6 DEF IndInv, TypeOK, TablesTyped
<1>8. TablesGrow BY <1>4, <1>5, <1>6 DEF TablesGrow, Grows
<1>9. MatchesAnnounced(ns, ended, elo)
  <2>1. DOMAIN ns = 1..Len(matches) /\ DOMAIN matches = 1..Len(matches)
        BY <1>6, LenProperties DEF IndInv, TypeOK
  <2>2. /\ elo \subseteq 1..Len(matches)
        /\ \A k \in 1..Len(matches) : k \in elo \/ matches[k].status = "finished" =>
             \A r \in 1..matches[k].rounds : <<k, r>> \in ended
        BY <2>1 DEF IndInv, MatchesAnnounced
  <2>3. ASSUME NEW k \in 1..Len(matches), k \in elo \/ ns[k].status = "finished",
               NEW r \in 1..ns[k].rounds
        PROVE  <<k, r>> \in ended
    <3>1. CASE k = m BY <1>2, <1>6, <2>3, <3>1
    <3>2. CASE k # m BY <1>6, <2>2, <2>3, <3>2
    <3> QED BY <3>1, <3>2
  <2> QED BY <1>6, <2>1, <2>2, <2>3 DEF MatchesAnnounced
<1>10. j \in Job /\ j.pc \notin Served \cup Resolved
  <2>1. m \in Nat BY <1>2, <1>6
  <2> QED BY <1>3, <2>1, JobTypes DEF Closed, Close, Served, Resolved
<1>11. Justified(j, ns, ended)
       BY <1>2, <1>3, <1>6 DEF Justified, Checked, Scored, Over, Close, Closed
<1>12. room' \in Versions \cup {Nil} BY <1>4, StoredRoom
<1> QED BY <1>4, <1>5, <1>7, <1>8, <1>9, <1>10, <1>11, <1>12, OldVersionsKeepInvariant

LEMMA TriggerEloKeepsInvariant ==
  ASSUME IndInv, NEW p \in Proc, TriggerElo(p)
  PROVE  IndInv'
<1>1. PICK m : m = job[p].match OBVIOUS
<1>2. m \in 1..Len(matches) /\ \A r \in 1..matches[m].rounds : <<m, r>> \in ended
  <2>1. job[p].pc = "elo" BY DEF TriggerElo
  <2> QED BY <1>1, <2>1 DEF IndInv, Justified, Over, Closed
<1>3. /\ elo' = elo \cup {m} /\ Turn(p, Idle)
      /\ UNCHANGED <<room, matches, rows, panos, ended, stored>>
      BY <1>1 DEF TriggerElo, Done, database
<1>4. Len(matches) \in Nat BY LenProperties DEF IndInv, TypeOK
<1>5. TablesTyped' BY <1>2, <1>3, <1>4 DEF IndInv, TypeOK, TablesTyped
<1>6. TablesGrow BY <1>3, <1>4 DEF TablesGrow, Grows
<1>7. MatchesAnnounced(matches', ended', elo')
      BY <1>2, <1>3 DEF IndInv, MatchesAnnounced
<1>8. room' \in Versions \cup {Nil} BY <1>3, StoredRoom
<1> QED BY <1>3, <1>5, <1>6, <1>7, <1>8, IdleFits, OldVersionsKeepInvariant

LEMMA WorkKeepsInvariant ==
  ASSUME IndInv, NEW p \in Proc, Work(p)
  PROVE  IndInv'
<1>1. CASE StartRefused(p) BY <1>1, StoredRoom, DoneKeepsInvariant DEF StartRefused
<1>2. CASE AdvanceStale(p) BY <1>2, StoredRoom, DoneKeepsInvariant DEF AdvanceStale
<1>3. CASE AdvanceLost(p) BY <1>3, StoredRoom, DoneKeepsInvariant DEF AdvanceLost
<1> QED BY <1>1, <1>2, <1>3, JoinWriteKeepsInvariant, LeaveWriteKeepsInvariant,
           StartInsertKeepsInvariant, StartWriteKeepsInvariant, GuessWriteKeepsInvariant,
           AdvanceReadKeepsInvariant, AdvanceScoreKeepsInvariant, AdvanceNextKeepsInvariant,
           AdvanceFinishKeepsInvariant, CloseMatchKeepsInvariant, TriggerEloKeepsInvariant
        DEF Work

-----------------------------------------------------------------------------
(* Failures, stuttering and the initial state.                             *)

LEMMA CrashKeepsInvariant ==
  ASSUME IndInv, NEW p \in Proc, Crash(p)
  PROVE  IndInv'
BY StoredRoom, DoneKeepsInvariant DEF Crash

\* A step of no process.
LEMMA OutsideKeepsInvariant ==
  ASSUME IndInv, room' \in {room, Nil}, UNCHANGED job,
         TablesTyped', TablesGrow, MatchesAnnounced(matches', ended', elo')
  PROVE  IndInv'
<1> DEFINE W == {}
<1>1. \A v, w \in W : v = w OBVIOUS
<1>2. room' \in Versions \cup W \cup {Nil} BY StoredRoom
<1>3. job' \in [Proc -> Job] /\ \A q \in Proc : job'[q] = job[q] BY DEF IndInv, TypeOK
<1>4. \A v \in W : Good(v, matches', ended', stored') /\ SameRoundOrFresh(v) OBVIOUS
<1> HIDE DEF W
<1> QED BY <1>1, <1>2, <1>3, <1>4, InvariantKept

LEMMA DeletePanoKeepsInvariant ==
  ASSUME IndInv, NEW q, DeletePano(q)
  PROVE  IndInv'
<1>1. /\ rows' \subseteq rows /\ panos' \subseteq panos
      /\ UNCHANGED <<room, job, matches, ended, stored, elo>>
      BY DEF DeletePano, history
<1>2. Len(matches) \in Nat BY LenProperties DEF IndInv, TypeOK
<1>3. TablesTyped' BY <1>1 DEF IndInv, TypeOK, TablesTyped
<1>4. TablesGrow BY <1>1, <1>2 DEF TablesGrow, Grows
<1>5. MatchesAnnounced(matches', ended', elo') BY <1>1 DEF IndInv
<1> QED BY <1>1, <1>3, <1>4, <1>5, OutsideKeepsInvariant

LEMMA StepKeepsInvariant == IndInv /\ [Next]_vars => IndInv'
<1> SUFFICES ASSUME IndInv, [Next]_vars PROVE IndInv' OBVIOUS
<1>1. CASE \E p \in Slot, u \in User : Ask(p, u) BY <1>1, AskKeepsInvariant
<1>2. CASE \E p \in Proc : Work(p) \/ Crash(p)
      BY <1>2, WorkKeepsInvariant, CrashKeepsInvariant
<1>3. CASE \E t \in Token : Fire(t) \/ TimerWrite(t)
      BY <1>3, FireKeepsInvariant, TimerWriteKeepsInvariant
<1>4. CASE Expire
      BY <1>4, OutsideKeepsInvariant, TablesUnchanged DEF Expire
<1>5. CASE \E q \in Pano : DeletePano(q) BY <1>5, DeletePanoKeepsInvariant
<1>6. CASE UNCHANGED vars
  <2>1. UNCHANGED <<room, job>> /\ UNCHANGED <<database, history>>
        BY <1>6 DEF vars, database, history
  <2> QED BY <2>1, OutsideKeepsInvariant, TablesUnchanged
<1> QED BY <1>1, <1>2, <1>3, <1>4, <1>5, <1>6 DEF Next

LEMMA InitEstablishesInvariant == Init => IndInv
<1> SUFFICES ASSUME Init PROVE IndInv OBVIOUS
<1>1. PICK h \in User : room = NewRoom(h) BY DEF Init
<1>2. /\ room.host = h /\ room.players = <<h>> /\ room.guessed = {} /\ room.guesses = {}
      /\ room.status = "waiting" /\ room.round = 0 /\ room.token = Nil /\ room.match = 0
      BY <1>1 DEF NewRoom
<1>3. room \in RoomState BY <1>1, RoomAssumption DEF NewRoom, RoomState, Status
<1>4. \A p \in Proc : job[p] = Idle BY DEF Init
<1>5. Versions \subseteq {room}
      BY <1>4, IdleFits DEF Versions, Holders
<1>6. Good(room, matches, ended, stored)
  <2>1. Seated(room)
        BY <1>2, RoomAssumption DEF Seated, IsInjective, ToSet
  <2> QED BY <1>2, <1>3, <2>1 DEF Good, Playable, Announced, Submitted
<1>7. \A s \in Versions : Good(s, matches, ended, stored) BY <1>5, <1>6
<1>8. TokenNamesRound BY <1>2, <1>5 DEF TokenNamesRound
<1>9. \A p \in Proc : Justified(job[p], matches, ended) BY <1>4, IdleFits
<1>10. MatchesAnnounced(matches, ended, elo) BY DEF Init, MatchesAnnounced
<1>11. TypeOK BY <1>3, JobTypes DEF TypeOK, Init, Proc
<1> QED BY <1>7, <1>8, <1>9, <1>10, <1>11 DEF IndInv

-----------------------------------------------------------------------------
(* The theorems.                                                           *)

\* The inductive invariant holds in every reachable state.
THEOREM Inductive == Spec => []IndInv
BY InitEstablishesInvariant, StepKeepsInvariant, PTL DEF Spec

\* Every variable keeps its type, whatever fails and however the requests and
\* timers interleave.
THEOREM TypesHold == Spec => []TypeOK
BY Inductive, IndInvImplies, PTL

\* However Join, Leave, Start, Guess, the timers and advanceRound interleave,
\* and whichever of their calls fail, no version of the room is torn: each is
\* one a client can play.
THEOREM RoomsAreCoherent == Spec => []RoomCoherent
BY Inductive, IndInvImplies, PTL

\* A round token never names two rounds (model.go), even when a stale write
\* brings an earlier round back.
THEOREM TokensNameRounds == Spec => []TokenNamesRound
BY Inductive, IndInvImplies, PTL

\* A guess is never scored in another round than the one it was made in.
THEOREM GuessesStayInTheirRound == Spec => []GuessesOfThisRound
BY Inductive, IndInvImplies, PTL

\* No round is passed over, and no match is closed or sent to the ELO worker
\* before all its rounds were announced.
THEOREM RoundsAreNotSkipped == Spec => []NoRoundSkipped
BY Inductive, IndInvImplies, PTL

=============================================================================
