--------------------------- MODULE PlayClientProofs ---------------------------
(***************************************************************************)
(* Proofs about PlayClients: what a player's browser shows of a room, for  *)
(* any number of rounds, rooms and players and with every fault allowed;   *)
(* the proofs about solo sessions are those of SoloClientProofs.           *)
(***************************************************************************)
EXTENDS PlayClients, SoloClientProofs, FiniteSetTheorems

-----------------------------------------------------------------------------
(* Lists: what filter leaves, and what a set is listed as.                 *)

\* A list shows nobody twice.
Distinct(ps) == \A i, j \in DOMAIN ps : ps[i] = ps[j] => i = j

\* Induction over the naturals for a set, from the well-foundedness of <: the
\* library's induction theorem takes an operator, this one does not.
LEMMA LeastElement ==
  ASSUME NEW T, T \subseteq Nat, T # {}
  PROVE  \E x \in T : \A y \in T : x <= y
<1>1. PICK R : R = OpToRel(<, Nat) OBVIOUS
<1>2. IsWellFoundedOn(R, Nat) BY <1>1, NatLessThanWellFounded, Zenon
<1>3. PICK x \in T : \A y \in T : ~ (<<y, x>> \in R) BY <1>2, WFMin
<1>4. \A y \in T : ~ (y < x) BY <1>1, <1>3 DEF OpToRel
<1> QED BY <1>4

LEMMA SetInduction ==
  ASSUME NEW T, 0 \in T, \A n \in Nat : n \in T => n + 1 \in T
  PROVE  Nat \subseteq T
<1> SUFFICES ASSUME Nat \ T # {} PROVE FALSE OBVIOUS
<1>1. PICK x \in Nat \ T : \A y \in Nat \ T : x <= y BY LeastElement
<1>2. x - 1 \in Nat /\ x - 1 \in T BY <1>1
<1> QED BY <1>2

\* f is what Filtered computes by recursion, up to m.
Keeps(f, ps, p, m) ==
  f = [n \in 0..m |-> IF n = 0 THEN <<>>
                      ELSE IF ps[n] = p THEN f[n - 1] ELSE Append(f[n - 1], ps[n])]

LEMMA KeepsSteps ==
  ASSUME NEW ps, NEW p, NEW m \in Nat, NEW f, Keeps(f, ps, p, m)
  PROVE  /\ DOMAIN f = 0..m /\ f[0] = <<>>
         /\ \A n \in 1..m : f[n] = IF ps[n] = p THEN f[n - 1] ELSE Append(f[n - 1], ps[n])
<1>1. f = [n \in 0..m |-> IF n = 0 THEN <<>>
                      ELSE IF ps[n] = p THEN f[n - 1] ELSE Append(f[n - 1], ps[n])]
      BY DEF Keeps
<1>2. DOMAIN f = 0..m BY <1>1
<1>3. \A n \in 0..m : f[n] = IF n = 0 THEN <<>>
                      ELSE IF ps[n] = p THEN f[n - 1] ELSE Append(f[n - 1], ps[n])
      BY <1>1
<1>4. f[0] = <<>> BY <1>3
<1>5. ASSUME NEW n \in 1..m
      PROVE  f[n] = IF ps[n] = p THEN f[n - 1] ELSE Append(f[n - 1], ps[n])
  <2>1. n \in 0..m /\ n # 0 OBVIOUS
  <2> QED BY <1>3, <2>1
<1> QED BY <1>2, <1>4, <1>5

\* The recursion has a solution.
LEMMA KeepsExists ==
  ASSUME NEW ps, NEW p, NEW m \in Nat PROVE \E f : Keeps(f, ps, p, m)
<1>1. PICK T : T = {k \in Nat : \E f : Keeps(f, ps, p, k)} OBVIOUS
<1>2. 0 \in T
  <2>1. PICK f : f = [n \in 0..0 |-> <<>>] OBVIOUS
  <2>2. Keeps(f, ps, p, 0) BY <2>1 DEF Keeps
  <2> QED BY <1>1, <2>2
<1>3. ASSUME NEW k \in Nat, k \in T PROVE k + 1 \in T
  <2>1. PICK f : Keeps(f, ps, p, k) BY <1>1, <1>3
  <2>2. PICK g : g = [n \in 0..(k + 1) |-> IF n <= k THEN f[n]
                       ELSE IF ps[n] = p THEN f[n - 1] ELSE Append(f[n - 1], ps[n])]
        OBVIOUS
  <2>3. \A n \in 0..k : g[n] = f[n] BY <2>2
  <2>a. f = [n \in 0..k |-> IF n = 0 THEN <<>>
                      ELSE IF ps[n] = p THEN f[n - 1] ELSE Append(f[n - 1], ps[n])]
        BY <2>1 DEF Keeps
  <2>4. \A n \in 0..k : f[n] = IF n = 0 THEN <<>>
                       ELSE IF ps[n] = p THEN f[n - 1] ELSE Append(f[n - 1], ps[n])
        BY <2>a
  <2>5. \A n \in 0..(k + 1) : g[n] = IF n = 0 THEN <<>>
                       ELSE IF ps[n] = p THEN g[n - 1] ELSE Append(g[n - 1], ps[n])
    <3> SUFFICES ASSUME NEW n \in 0..(k + 1)
                 PROVE  g[n] = IF n = 0 THEN <<>>
                       ELSE IF ps[n] = p THEN g[n - 1] ELSE Append(g[n - 1], ps[n])
        OBVIOUS
    <3>1. n # 0 => n - 1 \in 0..k OBVIOUS
    <3>2. n # 0 => g[n - 1] = f[n - 1] BY <2>3, <3>1
    <3>3. n <= k => g[n] = f[n] BY <2>3
    <3>4. n > k => g[n] = IF ps[n] = p THEN f[n - 1] ELSE Append(f[n - 1], ps[n]) BY <2>2
    <3> QED BY <2>4, <3>1, <3>2, <3>3, <3>4
  <2>6. DOMAIN g = 0..(k + 1) /\ g = [n \in 0..(k + 1) |-> g[n]] BY <2>2
  <2>7. Keeps(g, ps, p, k + 1) BY <2>5, <2>6 DEF Keeps
  <2> QED BY <1>1, <2>7
<1> QED BY <1>1, <1>2, <1>3, SetInduction

LEMMA FilteredKeeps ==
  ASSUME NEW ps, NEW p, Len(ps) \in Nat
  PROVE  \E f : Keeps(f, ps, p, Len(ps)) /\ Filtered(ps, p) = f[Len(ps)]
<1>1. PICK f : f = CHOOSE g : Keeps(g, ps, p, Len(ps)) OBVIOUS
<1>2. \E g : Keeps(g, ps, p, Len(ps)) BY KeepsExists
<1>3. Keeps(f, ps, p, Len(ps)) BY <1>1, <1>2
<1>4. Filtered(ps, p) = f[Len(ps)] BY <1>1, Zenon DEF Filtered, Keeps
<1> QED BY <1>3, <1>4

\* g is what is left of the first n elements of ps: those that are not p.
LeftOf(g, ps, p, n) ==
  /\ \A i \in 1..Len(g) : g[i] # p /\ \E j \in 1..n : g[i] = ps[j]
  /\ \A j \in 1..n : ps[j] # p => \E i \in 1..Len(g) : g[i] = ps[j]
  /\ Distinct(ps) => Distinct(g)

LEMMA FilteredPrefix ==
  ASSUME NEW S, NEW ps \in Seq(S), NEW p, NEW f, Keeps(f, ps, p, Len(ps)),
         NEW k \in 0..Len(ps)
  PROVE  f[k] \in Seq(S) /\ LeftOf(f[k], ps, p, k)
<1>0. Len(ps) \in Nat /\ \A j \in 1..Len(ps) : ps[j] \in S OBVIOUS
<1>1. PICK T : T = {n \in Nat : n <= Len(ps) =>
                                  f[n] \in Seq(S) /\ LeftOf(f[n], ps, p, n)}
      OBVIOUS
<1>2. 0 \in T
  <2>1. f[0] = <<>> BY <1>0, KeepsSteps
  <2>2. Distinct(<<>>) BY DEF Distinct
  <2>3. LeftOf(<<>>, ps, p, 0) BY <2>2 DEF LeftOf
  <2>4. <<>> \in Seq(S) OBVIOUS
  <2>5. f[0] \in Seq(S) /\ LeftOf(f[0], ps, p, 0) BY <2>1, <2>3, <2>4
  <2> QED BY <1>1, <2>5
<1>3. ASSUME NEW n \in Nat, n \in T PROVE n + 1 \in T
  <2> SUFFICES ASSUME n + 1 <= Len(ps)
               PROVE  f[n + 1] \in Seq(S) /\ LeftOf(f[n + 1], ps, p, n + 1)
      BY <1>1
  <2>1. PICK h : h = f[n] OBVIOUS
  <2>a. n <= Len(ps) BY <1>0
  <2>b. h \in Seq(S) /\ LeftOf(h, ps, p, n) BY <1>1, <1>3, <2>1, <2>a
  <2>2. /\ \A i \in 1..Len(h) : h[i] # p /\ \E j \in 1..n : h[i] = ps[j]
        /\ \A j \in 1..n : ps[j] # p => \E i \in 1..Len(h) : h[i] = ps[j]
        /\ Distinct(ps) => Distinct(h)
        BY <2>b DEF LeftOf
  <2>3. n + 1 \in 1..Len(ps) /\ (n + 1) - 1 = n BY <1>0
  <2>4. f[n + 1] = IF ps[n + 1] = p THEN h ELSE Append(h, ps[n + 1])
        BY <1>0, <2>1, <2>3, KeepsSteps
  <2>5. CASE ps[n + 1] = p BY <2>b, <2>2, <2>4, <2>5 DEF LeftOf
  <2>6. CASE ps[n + 1] # p
    <3>1. PICK x : x = ps[n + 1] OBVIOUS
    <3>2. PICK g : g = Append(h, x) OBVIOUS
    <3>3. /\ g = f[n + 1] /\ g \in Seq(S) /\ Len(g) = Len(h) + 1 /\ g[Len(h) + 1] = x
          /\ \A i \in 1..Len(h) : g[i] = h[i]
          BY <1>0, <2>b, <2>3, <2>4, <2>6, <3>1, <3>2
    <3>4. ASSUME NEW i \in 1..Len(g)
          PROVE  g[i] # p /\ \E j \in 1..(n + 1) : g[i] = ps[j]
      <4>1. Len(h) \in Nat BY <2>b
      <4>2. CASE i = Len(h) + 1 BY <2>6, <3>1, <3>3, <4>2
      <4>3. CASE i \in 1..Len(h)
        <5>1. h[i] # p /\ \E j \in 1..n : h[i] = ps[j] BY <2>2, <4>3
        <5>2. g[i] = h[i] BY <3>3, <4>3
        <5> QED BY <5>1, <5>2
      <4> QED BY <3>3, <4>1, <4>2, <4>3
    <3>5. ASSUME NEW j \in 1..(n + 1), ps[j] # p
          PROVE  \E i \in 1..Len(g) : g[i] = ps[j]
      <4>1. Len(h) \in Nat BY <2>b
      <4>2. CASE j = n + 1
        <5>1. Len(h) + 1 \in 1..Len(g) BY <3>3, <4>1
        <5> QED BY <3>1, <3>3, <4>2, <5>1
      <4>3. CASE j \in 1..n
        <5>1. PICK i \in 1..Len(h) : h[i] = ps[j] BY <2>2, <3>5, <4>3
        <5>2. i \in 1..Len(g) /\ g[i] = ps[j] BY <3>3, <4>1, <5>1
        <5> QED BY <5>2
      <4> QED BY <4>2, <4>3
    <3>6. ASSUME Distinct(ps) PROVE Distinct(g)
      <4>1. \A i \in 1..Len(h) : h[i] # x BY <1>0, <2>2, <2>3, <3>1, <3>6 DEF Distinct
      <4>2. \A i, j \in 1..Len(h) : h[i] = h[j] => i = j BY <2>b, <2>2, <3>6 DEF Distinct
      <4>3. DOMAIN g = 1..(Len(h) + 1) BY <3>3
      <4> QED BY <2>b, <3>3, <4>1, <4>2, <4>3 DEF Distinct
    <3> QED BY <3>3, <3>4, <3>5, <3>6 DEF LeftOf
  <2> QED BY <2>5, <2>6
<1>4. k \in T BY <1>2, <1>3, SetInduction
<1> QED BY <1>1, <1>4

\* filter of the list: it leaves out p, keeps everybody else and shows nobody twice
\* who was not.
LEMMA FilteredPlayers ==
  ASSUME NEW S, NEW ps \in Seq(S), NEW p
  PROVE  /\ Filtered(ps, p) \in Seq(S)
         /\ \A q : q \in ToSet(Filtered(ps, p)) <=> q \in ToSet(ps) /\ q # p
         /\ Distinct(ps) => Distinct(Filtered(ps, p))
<1>1. Len(ps) \in Nat /\ Len(ps) \in 0..Len(ps) OBVIOUS
<1>2. PICK f : Keeps(f, ps, p, Len(ps)) /\ Filtered(ps, p) = f[Len(ps)]
      BY <1>1, FilteredKeeps
<1>3. PICK g : g = Filtered(ps, p) OBVIOUS
<1>a. f[Len(ps)] \in Seq(S) /\ LeftOf(f[Len(ps)], ps, p, Len(ps))
      BY <1>1, <1>2, FilteredPrefix
<1>b. g \in Seq(S) /\ LeftOf(g, ps, p, Len(ps)) BY <1>a, <1>2, <1>3
<1>4. /\ g \in Seq(S)
      /\ \A i \in 1..Len(g) : g[i] # p /\ \E j \in 1..Len(ps) : g[i] = ps[j]
      /\ \A j \in 1..Len(ps) : ps[j] # p => \E i \in 1..Len(g) : g[i] = ps[j]
      /\ Distinct(ps) => Distinct(g)
      BY <1>b DEF LeftOf
<1>5. DOMAIN g = 1..Len(g) /\ DOMAIN ps = 1..Len(ps) BY <1>4
<1>6. ToSet(g) = {g[i] : i \in 1..Len(g)} /\ ToSet(ps) = {ps[i] : i \in 1..Len(ps)}
      BY <1>5 DEF ToSet
<1>7. \A q : q \in ToSet(g) <=> q \in ToSet(ps) /\ q # p BY <1>4, <1>6
<1> QED BY <1>3, <1>4, <1>7

\* Object.keys of a finite set, in some order: each element once.
LEMMA SetToSeqLists ==
  ASSUME NEW S, IsFiniteSet(S)
  PROVE  /\ SetToSeq(S) \in Seq(S) /\ ToSet(SetToSeq(S)) = S
         /\ Distinct(SetToSeq(S))
<1>1. PICK n : n = Cardinality(S) OBVIOUS
<1>2. n \in Nat /\ ExistsBijection(1..n, S) BY <1>1, FS_CardinalityType
<1>3. \E f \in [1..n -> S] : IsInjective(f)
      BY <1>2, Zenon DEF ExistsBijection, Bijection, Injection
<1>4. PICK g : g = SetToSeq(S) OBVIOUS
<1>5. g \in [1..n -> S] /\ IsInjective(g) BY <1>1, <1>3, <1>4 DEF SetToSeq
<1>6. g \in Injection(1..n, S) BY <1>5 DEF Injection
<1>7. Cardinality(1..n) = n
  <2>1. 1 \in Int /\ n \in Int BY <1>2
  <2>2. Cardinality(1..n) = IF 1 > n THEN 0 ELSE n - 1 + 1 BY <2>1, FS_Interval
  <2> QED BY <1>2, <2>2
<1>8. g \in Surjection(1..n, S) BY <1>1, <1>6, <1>7, FS_Injection
<1>9. \A x \in S : \E i \in 1..n : g[i] = x BY <1>8 DEF Surjection
<1>10. g \in Seq(S) /\ DOMAIN g = 1..n BY <1>2, <1>5
<1>11. ToSet(g) = S BY <1>5, <1>9, <1>10 DEF ToSet
<1>12. Distinct(g) BY <1>5 DEF IsInjective, Distinct
<1> QED BY <1>4, <1>10, <1>11, <1>12

LEMMA DistinctCounts ==
  ASSUME NEW S, IsFiniteSet(S), NEW ps \in Seq(S), Distinct(ps)
  PROVE  Len(ps) = Cardinality(ToSet(ps))
<1>1. Len(ps) \in Nat /\ DOMAIN ps = 1..Len(ps) OBVIOUS
<1>2. ps \in Bijection(1..Len(ps), ToSet(ps))
      BY <1>1 DEF Bijection, Injection, Surjection, IsInjective, ToSet, Distinct
<1>3. ExistsBijection(1..Len(ps), ToSet(ps)) BY <1>2 DEF ExistsBijection
<1> QED BY <1>1, <1>3, FS_CountingElements
-----------------------------------------------------------------------------
(* The inductive invariant.                                                *)

Inside == page.at \in {"room", "game"}

\* What a store that knows no round yet is like: nothing of an earlier room.
Fresh == store.status = "waiting" /\ store.round = 0

IsPlayers(e) == e.is \in {"player_joined", "player_left"}
IsStart(e) == e.is = "round_started"

\* Where the browser is.  Inside a room it is the room of the server, since a new
\* one is only made while the player is outside.
Places ==
  /\ socket = "off" <=> ~Inside
  /\ wire # <<>> => socket = "joined"
  /\ Inside => page.id = room.id
  /\ page.at = "lobby" => Fresh
  /\ page.at = "room" => store.status # "round_active"
  /\ page.at = "game" =>
       store.status # "game_over" /\ room.status \in {"active", "finished", "gone"}
  /\ page.at = "over" /\ page.id = room.id => room.status \in {"finished", "gone"}
  /\ room.status \in {"waiting", "gone"} <=> room.round = 0
  /\ store.pano = store.round

\* A room is only entered from outside, with a store that knows no round; and the
\* guess that was taken in this round is in the room, or the player is not.
Requests ==
  post # Nil =>
    /\ post.op \in {"create", "join"} =>
         /\ page.at \in {"lobby", "over"} /\ Fresh
         /\ post.answer = "ok" => post.id = room.id
    /\ post.op = "guess" /\ post.from = "here" =>
         /\ page.at = "game" /\ post.round <= store.round
         /\ post.answer = "ok" /\ room.status = "active" /\ post.round = room.round =>
              room.guessed \/ Me \notin room.players

\* The GETs of the page shown, and those of a game whose answer may navigate.
Fetches ==
  /\ \A g \in gets : g.from = "here" => g.id = page.id /\ g.at = page.at
  /\ \A g, h \in gets : g.from = "here" /\ h.from = "here" => g = h
  /\ page.at = "room" /\ page.loaded => ~Fetching
  /\ \A g \in gets : g.at = "game" =>
       /\ g.id = room.id => room.status \in {"active", "finished", "gone"}
       /\ g.answer # Nil => g.answer.status # "waiting"
       /\ g.answer # Nil /\ g.id = room.id /\ g.answer.status = "finished" =>
            room.status \in {"finished", "gone"}

\* While the players are fetched no event of theirs waits on the wire, and what
\* was answered is still so.
Fetched ==
  "players" \notin missed =>
    \A g \in gets : g.from = "here" /\ g.at = "room" =>
      /\ \A i \in DOMAIN wire : ~IsPlayers(wire[i])
      /\ g.answer # Nil /\ g.answer.status # "gone" =>
           ToSet(g.answer.players) = room.players /\ Distinct(g.answer.players)

\* The wire is all that was emitted since the socket joined: rounds in order, each
\* end followed by a start or the end of the game, and the last start the room's.
Wires ==
  /\ \A i \in DOMAIN wire : wire[i].is = "round_ended" =>
       i + 1 \in DOMAIN wire /\ wire[i + 1].is \in {"round_started", "game_ended"}
  /\ \A i \in DOMAIN wire : IsStart(wire[i]) =>
       /\ store.round < wire[i].round
       /\ room.status # "gone" => wire[i].round <= room.round
       /\ \A j \in DOMAIN wire : i < j /\ IsStart(wire[j]) => wire[i].round < wire[j].round
       /\ (\A j \in DOMAIN wire : i < j => IsPlayers(wire[j])) =>
            /\ room.status \in {"active", "gone"}
            /\ room.status = "active" => room.round = wire[i].round
  /\ \A i \in DOMAIN wire : wire[i].is = "game_ended" => room.status \in {"finished", "gone"}
  /\ Inside /\ room.status # "gone" => store.round <= room.round

\* A game page whose wire tells of no round shows the one that is played.
RoundShown ==
  page.at = "game" =>
    /\ store.pano # 0 /\ "round" \notin missed /\ (\A i \in DOMAIN wire : IsPlayers(wire[i])) =>
         /\ room.status \in {"active", "gone"}
         /\ room.status = "active" => store.round = room.round /\ store.status = "round_active"
    /\ page.results => store.status # "round_active"

Locked ==
  page.at = "game" /\ page.submitted /\ room.status = "active"
    /\ store.round = room.round /\ "answer" \notin missed
  => room.guessed \/ Me \notin room.players

MapKnown ==
  Inside /\ "map" \notin missed => store.map = page.id \/ \E g \in gets : g.id = page.id

\* Player p is in the list ps once the events of es before the n-th are handled.
PresentIn(ps, es, p, n) ==
  \/ p \in ToSet(ps) /\ \A j \in 1..(n - 1) : es[j] # Left(p)
  \/ \E i \in 1..(n - 1) : es[i] = Joined(p) /\ \A j \in (i + 1)..(n - 1) : es[j] # Left(p)

\* The list ps becomes the set once the events of es are handled, and nobody joins
\* who is on it.
Follows(ps, es, set) ==
  /\ Distinct(ps)
  /\ \A p \in Player : p \in set <=> PresentIn(ps, es, p, Len(es) + 1)
  /\ \A i \in 1..Len(es) : es[i].is = "player_joined" => ~PresentIn(ps, es, es[i].who, i)

People ==
  page.at = "room" /\ page.loaded /\ "players" \notin missed =>
    Follows(store.players, wire, room.players)

MatchInv ==
  /\ MatchTypeOK /\ Places /\ Requests
  /\ Fetches /\ Fetched /\ Wires
  /\ RoundShown /\ Locked /\ MapKnown /\ People

-----------------------------------------------------------------------------
(* What the runs check follows from it.                                    *)

LEMMA GameInStepFromInv == MatchInv => GameInStep
<1> SUFFICES ASSUME MatchInv PROVE GameInStep OBVIOUS
<1>1. PageFollowsRoom BY DEF MatchInv, Places, PageFollowsRoom
<1>2. CaughtUp
  <2>1. wire = <<>> => \A i \in DOMAIN wire : IsPlayers(wire[i]) OBVIOUS
  <2>2. store.pano = store.round BY DEF MatchInv, Places
  <2> QED BY <2>1, <2>2 DEF MatchInv, RoundShown, CaughtUp
<1>3. MapOfTheRoom BY DEF MatchInv, MapKnown, MapOfTheRoom, Inside
<1>4. NoResultsOverARound BY DEF MatchInv, RoundShown, NoResultsOverARound
<1> QED BY <1>1, <1>2, <1>3, <1>4 DEF GameInStep

LEMMA LockedByGuessFromInv == MatchInv => LockedByGuess
BY DEF MatchInv, Locked, LockedByGuess

LEMMA PlayersShownFromInv == MatchInv => PlayersShown
<1> SUFFICES ASSUME MatchInv, page.at = "room", page.loaded, wire = <<>>,
                    "players" \notin missed
             PROVE  /\ ToSet(store.players) = room.players
                    /\ Len(store.players) = Cardinality(room.players)
    BY DEF PlayersShown
<1>1. PICK ps : ps = store.players OBVIOUS
<1>2. ps \in Seq(Player) /\ room.players \subseteq Player
      BY <1>1 DEF MatchInv, MatchTypeOK, Store, RoomRecord
<1>3. Follows(ps, <<>>, room.players) BY <1>1 DEF MatchInv, People
<1>4. \A p \in Player : p \in room.players <=> p \in ToSet(ps)
      BY <1>3 DEF Follows, PresentIn
<1>5. ToSet(ps) \subseteq Player BY <1>2 DEF ToSet
<1>6. ToSet(ps) = room.players BY <1>2, <1>4, <1>5
<1>7. IsFiniteSet(Player)
      BY MatchAssumption, FS_Singleton, FS_Union DEF Player
<1>8. Len(ps) = Cardinality(ToSet(ps)) BY <1>2, <1>3, <1>7, DistinctCounts DEF Follows
<1> QED BY <1>1, <1>6, <1>8

-----------------------------------------------------------------------------
(* Events and the list they lead to.                                       *)

LEMMA EventFields ==
  ASSUME NEW e \in Event
  PROVE  /\ e.is \in {"player_joined", "player_left", "round_started", "round_ended",
                      "game_ended"}
         /\ e.is = "player_joined" => e.who \in Player /\ e = Joined(e.who)
         /\ e.is = "player_left" => e.who \in Player /\ e = Left(e.who)
         /\ e.is = "round_started" => e.round \in 1..MatchRounds
BY DEF Event, Ended, Over, Started, Joined, Left

LEMMA EventKinds ==
  /\ Ended \in Event /\ Over \in Event
  /\ Ended.is = "round_ended" /\ Over.is = "game_ended"
  /\ \A r \in 1..MatchRounds : Started(r) \in Event
  /\ \A r : Started(r).is = "round_started" /\ Started(r).round = r
  /\ \A p \in Player : Joined(p) \in Event /\ Left(p) \in Event
  /\ \A p : /\ Joined(p).is = "player_joined" /\ Joined(p).who = p
            /\ Left(p).is = "player_left" /\ Left(p).who = p
BY DEF Event, Ended, Over, Started, Joined, Left

\* The same list, and one more event on the wire: who was present stays so.
LEMMA PresentBefore ==
  ASSUME NEW ps, NEW es \in Seq(Event), NEW e, NEW p, NEW n \in 1..(Len(es) + 1)
  PROVE  PresentIn(ps, Append(es, e), p, n) <=> PresentIn(ps, es, p, n)
<1>1. PICK fs : fs = Append(es, e) OBVIOUS
<1>2. \A j \in 1..(n - 1) : fs[j] = es[j] BY <1>1
<1>3. PresentIn(ps, fs, p, n) <=> PresentIn(ps, es, p, n) BY <1>2 DEF PresentIn
<1> QED BY <1>1, <1>3

LEMMA PresentAfter ==
  ASSUME NEW ps, NEW es \in Seq(Event), NEW e, NEW p
  PROVE  PresentIn(ps, Append(es, e), p, Len(es) + 2) <=>
           e = Joined(p) \/ (e # Left(p) /\ PresentIn(ps, es, p, Len(es) + 1))
<1>1. PICK fs, n : fs = Append(es, e) /\ n = Len(es) OBVIOUS
<1>2. n \in Nat /\ fs[n + 1] = e /\ \A j \in 1..n : fs[j] = es[j] BY <1>1
<1>3. (n + 2) - 1 = n + 1 /\ (n + 1) - 1 = n BY <1>2
<1>4. Joined(p) # Left(p) BY EventKinds
<1>5. (\A j \in 1..(n + 1) : fs[j] # Left(p)) <=>
        e # Left(p) /\ \A j \in 1..n : es[j] # Left(p)
      BY <1>2
<1>6. \A i \in 1..n : (\A j \in (i + 1)..(n + 1) : fs[j] # Left(p)) <=>
        e # Left(p) /\ \A j \in (i + 1)..n : es[j] # Left(p)
      BY <1>2
<1>7. (\A j \in ((n + 1) + 1)..(n + 1) : fs[j] # Left(p)) BY <1>2
<1>8. (\E i \in 1..(n + 1) : fs[i] = Joined(p) /\ \A j \in (i + 1)..(n + 1) : fs[j] # Left(p))
      <=> \/ e = Joined(p)
          \/ /\ e # Left(p)
             /\ \E i \in 1..n : es[i] = Joined(p) /\ \A j \in (i + 1)..n : es[j] # Left(p)
  <2>1. ASSUME NEW i \in 1..(n + 1), fs[i] = Joined(p),
               \A j \in (i + 1)..(n + 1) : fs[j] # Left(p)
        PROVE  \/ e = Joined(p)
               \/ /\ e # Left(p)
                  /\ \E k \in 1..n : es[k] = Joined(p) /\ \A j \in (k + 1)..n : es[j] # Left(p)
    <3>1. CASE i = n + 1 BY <1>2, <2>1, <3>1
    <3>2. CASE i \in 1..n BY <1>2, <1>6, <2>1, <3>2
    <3> QED BY <1>2, <3>1, <3>2
  <2>2. ASSUME e = Joined(p)
        PROVE  \E i \in 1..(n + 1) : fs[i] = Joined(p) /\ \A j \in (i + 1)..(n + 1) : fs[j] # Left(p)
    <3>1. n + 1 \in 1..(n + 1) BY <1>2
    <3> QED BY <1>2, <1>7, <2>2, <3>1
  <2>3. ASSUME e # Left(p), NEW i \in 1..n, es[i] = Joined(p),
               \A j \in (i + 1)..n : es[j] # Left(p)
        PROVE  \E k \in 1..(n + 1) : fs[k] = Joined(p) /\ \A j \in (k + 1)..(n + 1) : fs[j] # Left(p)
    <3>1. i \in 1..(n + 1) /\ fs[i] = Joined(p) BY <1>2, <2>3
    <3>2. \A j \in (i + 1)..(n + 1) : fs[j] # Left(p) BY <1>6, <2>3
    <3> QED BY <3>1, <3>2
  <2> QED BY <2>1, <2>2, <2>3
<1> QED BY <1>1, <1>3, <1>4, <1>5, <1>8 DEF PresentIn

\* An event is emitted.
LEMMA FollowsAppend ==
  ASSUME NEW ps, NEW es \in Seq(Event), NEW set, NEW e \in Event, NEW new,
         Follows(ps, es, set),
         \A p \in Player : p \in new <=> e = Joined(p) \/ (e # Left(p) /\ p \in set),
         e.is = "player_joined" => e.who \notin set
  PROVE  Follows(ps, Append(es, e), new)
<1>1. PICK fs : fs = Append(es, e) OBVIOUS
<1>2. Len(es) \in Nat /\ Len(fs) = Len(es) + 1 BY <1>1
<1>3. \A p \in Player : p \in new <=> PresentIn(ps, fs, p, Len(fs) + 1)
  <2> TAKE p \in Player
  <2>1. Len(fs) + 1 = Len(es) + 2 BY <1>2
  <2>2. PresentIn(ps, fs, p, Len(es) + 2) <=>
          e = Joined(p) \/ (e # Left(p) /\ PresentIn(ps, es, p, Len(es) + 1))
        BY <1>1, PresentAfter
  <2>3. p \in set <=> PresentIn(ps, es, p, Len(es) + 1) BY DEF Follows
  <2> QED BY <2>1, <2>2, <2>3
<1>4. ASSUME NEW i \in 1..Len(fs), fs[i].is = "player_joined"
      PROVE  ~PresentIn(ps, fs, fs[i].who, i)
  <2>1. i \in 1..(Len(es) + 1) BY <1>2
  <2>2. PresentIn(ps, fs, fs[i].who, i) <=> PresentIn(ps, es, fs[i].who, i)
        BY <1>1, <2>1, PresentBefore
  <2>3. CASE i = Len(es) + 1
    <3>1. fs[i] = e BY <1>1, <1>2, <2>3
    <3>2. e.who \in Player BY <1>4, <3>1, EventFields
    <3>3. ~PresentIn(ps, es, e.who, Len(es) + 1) BY <1>4, <3>1, <3>2 DEF Follows
    <3> QED BY <2>2, <2>3, <3>1, <3>3
  <2>4. CASE i \in 1..Len(es)
    <3>1. fs[i] = es[i] BY <1>1, <2>4
    <3>2. ~PresentIn(ps, es, es[i].who, i) BY <1>4, <2>4, <3>1 DEF Follows
    <3> QED BY <2>2, <3>1, <3>2
  <2> QED BY <1>2, <2>3, <2>4
<1>5. Follows(ps, fs, new) BY <1>3, <1>4 DEF Follows
<1> QED BY <1>1, <1>5

\* The first event is handled.
LEMMA FollowsTail ==
  ASSUME NEW ps, NEW es \in Seq(Event), es # <<>>, NEW set, NEW qs,
         Follows(ps, es, set), Distinct(qs),
         \A p \in Player : p \in ToSet(qs) <=>
           Head(es) = Joined(p) \/ (Head(es) # Left(p) /\ p \in ToSet(ps))
  PROVE  Follows(qs, Tail(es), set)
<1>1. PICK fs : fs = Tail(es) OBVIOUS
<1>2. /\ Len(es) \in Nat \ {0} /\ Len(fs) = Len(es) - 1 /\ Head(es) = es[1]
      /\ fs \in Seq(Event) /\ \A i \in 1..Len(fs) : fs[i] = es[i + 1]
      BY <1>1
<1>3. ASSUME NEW p \in Player, NEW n \in 1..Len(es)
      PROVE  PresentIn(qs, fs, p, n) <=> PresentIn(ps, es, p, n + 1)
  <2>1. Joined(p) # Left(p) BY EventKinds
  <2>2. (n + 1) - 1 = n OBVIOUS
  <2>3. (\A j \in 1..n : es[j] # Left(p)) <=>
          es[1] # Left(p) /\ \A j \in 1..(n - 1) : fs[j] # Left(p)
    <3>1. \A j \in 1..(n - 1) : j + 1 \in 1..n /\ fs[j] = es[j + 1] BY <1>2
    <3>2. \A j \in 1..n : j = 1 \/ (j - 1 \in 1..(n - 1) /\ fs[j - 1] = es[j]) BY <1>2
    <3>3. 1 \in 1..n OBVIOUS
    <3>4. ASSUME \A j \in 1..n : es[j] # Left(p)
          PROVE  es[1] # Left(p) /\ \A j \in 1..(n - 1) : fs[j] # Left(p)
          BY <3>1, <3>3, <3>4, Zenon
    <3>5. ASSUME es[1] # Left(p), \A j \in 1..(n - 1) : fs[j] # Left(p)
          PROVE  \A j \in 1..n : es[j] # Left(p)
          BY <3>2, <3>5, Zenon
    <3> QED BY <3>4, <3>5
  <2>4. (\A j \in (1 + 1)..n : es[j] # Left(p)) <=> \A j \in 1..(n - 1) : fs[j] # Left(p)
    <3>1. \A j \in 1..(n - 1) : j + 1 \in (1 + 1)..n /\ fs[j] = es[j + 1] BY <1>2
    <3>2. \A j \in (1 + 1)..n : j - 1 \in 1..(n - 1) /\ fs[j - 1] = es[j] BY <1>2
    <3>3. ASSUME \A j \in (1 + 1)..n : es[j] # Left(p)
          PROVE  \A j \in 1..(n - 1) : fs[j] # Left(p)
          BY <3>1, <3>3, Zenon
    <3>4. ASSUME \A j \in 1..(n - 1) : fs[j] # Left(p)
          PROVE  \A j \in (1 + 1)..n : es[j] # Left(p)
          BY <3>2, <3>4, Zenon
    <3> QED BY <3>3, <3>4
  <2>5. \A i \in 1..(n - 1) : (\A j \in ((i + 1) + 1)..n : es[j] # Left(p))
                             <=> \A j \in (i + 1)..(n - 1) : fs[j] # Left(p)
    <3> TAKE i \in 1..(n - 1)
    <3>1. \A j \in (i + 1)..(n - 1) : j + 1 \in ((i + 1) + 1)..n /\ fs[j] = es[j + 1] BY <1>2
    <3>2. \A j \in ((i + 1) + 1)..n : j - 1 \in (i + 1)..(n - 1) /\ fs[j - 1] = es[j] BY <1>2
    <3>3. ASSUME \A j \in ((i + 1) + 1)..n : es[j] # Left(p)
          PROVE  \A j \in (i + 1)..(n - 1) : fs[j] # Left(p)
          BY <3>1, <3>3, Zenon
    <3>4. ASSUME \A j \in (i + 1)..(n - 1) : fs[j] # Left(p)
          PROVE  \A j \in ((i + 1) + 1)..n : es[j] # Left(p)
          BY <3>2, <3>4, Zenon
    <3> QED BY <3>3, <3>4
  <2>6. (\E i \in 1..n : es[i] = Joined(p) /\ \A j \in (i + 1)..n : es[j] # Left(p))
        <=> \/ es[1] = Joined(p) /\ \A j \in 1..(n - 1) : fs[j] # Left(p)
            \/ \E i \in 1..(n - 1) : fs[i] = Joined(p) /\ \A j \in (i + 1)..(n - 1) : fs[j] # Left(p)
    <3>1. ASSUME NEW i \in 1..n, es[i] = Joined(p), \A j \in (i + 1)..n : es[j] # Left(p)
          PROVE  \/ es[1] = Joined(p) /\ \A j \in 1..(n - 1) : fs[j] # Left(p)
                 \/ \E k \in 1..(n - 1) : fs[k] = Joined(p) /\ \A j \in (k + 1)..(n - 1) : fs[j] # Left(p)
      <4>1. CASE i = 1 BY <2>4, <3>1, <4>1
      <4>2. CASE i # 1
        <5>1. PICK k : k = i - 1 OBVIOUS
        <5>2. k \in 1..(n - 1) /\ i = k + 1 BY <4>2, <5>1
        <5>3. fs[k] = Joined(p) BY <1>2, <3>1, <5>2
        <5>4. \A j \in (k + 1)..(n - 1) : fs[j] # Left(p) BY <2>5, <3>1, <5>2
        <5> QED BY <5>2, <5>3, <5>4
      <4> QED BY <4>1, <4>2
    <3>2. ASSUME es[1] = Joined(p), \A j \in 1..(n - 1) : fs[j] # Left(p)
          PROVE  \E i \in 1..n : es[i] = Joined(p) /\ \A j \in (i + 1)..n : es[j] # Left(p)
      <4>1. 1 \in 1..n OBVIOUS
      <4> QED BY <2>4, <3>2, <4>1
    <3>3. ASSUME NEW k \in 1..(n - 1), fs[k] = Joined(p),
                 \A j \in (k + 1)..(n - 1) : fs[j] # Left(p)
          PROVE  \E i \in 1..n : es[i] = Joined(p) /\ \A j \in (i + 1)..n : es[j] # Left(p)
      <4>1. k + 1 \in 1..n /\ es[k + 1] = Joined(p) BY <1>2, <3>3
      <4>2. \A j \in ((k + 1) + 1)..n : es[j] # Left(p) BY <2>5, <3>3
      <4> QED BY <4>1, <4>2
    <3> QED BY <3>1, <3>2, <3>3
  <2>7. p \in ToSet(qs) <=> es[1] = Joined(p) \/ (es[1] # Left(p) /\ p \in ToSet(ps))
        BY <1>2
  <2> QED BY <2>1, <2>2, <2>3, <2>6, <2>7 DEF PresentIn
<1>4. \A p \in Player : p \in set <=> PresentIn(qs, fs, p, Len(fs) + 1)
  <2> TAKE p \in Player
  <2>1. Len(fs) + 1 \in 1..Len(es) /\ (Len(fs) + 1) + 1 = Len(es) + 1 BY <1>2
  <2>2. p \in set <=> PresentIn(ps, es, p, Len(es) + 1) BY DEF Follows
  <2> QED BY <1>3, <2>1, <2>2
<1>5. ASSUME NEW i \in 1..Len(fs), fs[i].is = "player_joined"
      PROVE  ~PresentIn(qs, fs, fs[i].who, i)
  <2>1. /\ i \in 1..Len(es) /\ i + 1 \in 1..Len(es) /\ fs[i] = es[i + 1]
        /\ fs[i] \in Event
        BY <1>2
  <2>2. fs[i].who \in Player BY <1>5, <2>1, EventFields
  <2>3. ~PresentIn(ps, es, es[i + 1].who, i + 1) BY <1>5, <2>1 DEF Follows
  <2> QED BY <1>3, <2>1, <2>2, <2>3
<1>6. Follows(qs, fs, set) BY <1>4, <1>5 DEF Follows
<1> QED BY <1>1, <1>6

\* No event of the players is on the wire: the list is the set already.
LEMMA FollowsAtOnce ==
  ASSUME NEW ps, NEW es \in Seq(Event), Distinct(ps),
         \A i \in DOMAIN es : ~IsPlayers(es[i])
  PROVE  Follows(ps, es, ToSet(ps))
<1>1. DOMAIN es = 1..Len(es) /\ Len(es) \in Nat OBVIOUS
<1>2. \A p : \A i \in 1..Len(es) : es[i] # Joined(p) /\ es[i] # Left(p)
      BY <1>1, EventKinds DEF IsPlayers
<1>3. \A p : p \in ToSet(ps) <=> PresentIn(ps, es, p, Len(es) + 1)
      BY <1>1, <1>2 DEF PresentIn
<1>4. \A i \in 1..Len(es) : es[i].is # "player_joined" BY <1>1 DEF IsPlayers
<1> QED BY <1>3, <1>4 DEF Follows


-----------------------------------------------------------------------------
(* Types.                                                                  *)

MissedKind == {"round", "players", "map", "answer"}

LEMMA AboutKinds == \A es : About(es) \subseteq MissedKind
BY DEF About, MissedKind

LEMMA PostTyped ==
  ASSUME NEW r \in PostRecord
  PROVE  /\ r # Nil
         /\ [r EXCEPT !.from = "left"] \in PostRecord /\ [r EXCEPT !.from = "dead"] \in PostRecord
         /\ [r EXCEPT !.answer = "error"] \in PostRecord
         /\ \A id \in 0..MaxRooms : [r EXCEPT !.answer = "ok", !.id = id] \in PostRecord
BY NoRequestAssumption DEF PostRecord

LEMMA LeavePost ==
  ASSUME NEW r \in {Nil} \cup PostRecord
  PROVE  /\ Leave(r) \in {Nil} \cup PostRecord /\ (Leave(r) = Nil <=> r = Nil)
         /\ r # Nil => /\ Leave(r).from # "here"
                       /\ Leave(r).op = r.op /\ Leave(r).id = r.id
                       /\ Leave(r).answer = r.answer /\ Leave(r).round = r.round
<1>1. CASE r = Nil BY <1>1 DEF Leave
<1>2. CASE r \in PostRecord
  <2>1. r # Nil BY <1>2, NoRequestAssumption
  <2>2. Leave(r) = IF r.from = "here" THEN [r EXCEPT !.from = "left"] ELSE r
        BY <2>1 DEF Leave
  <2>3. Leave(r) \in PostRecord BY <1>2, <2>2, PostTyped
  <2> QED BY <1>2, <2>1, <2>2, <2>3, NoRequestAssumption DEF PostRecord
<1> QED BY <1>1, <1>2

LEMMA LeaveGet ==
  ASSUME NEW g \in GetRecord
  PROVE  /\ Leave(g) \in GetRecord /\ Leave(g).from = "left"
         /\ Leave(g).at = g.at /\ Leave(g).id = g.id /\ Leave(g).answer = g.answer
<1>1. g # Nil BY NoRequestAssumption
<1>2. Leave(g) = IF g.from = "here" THEN [g EXCEPT !.from = "left"] ELSE g
      BY <1>1 DEF Leave
<1>3. g = [at |-> g.at, id |-> g.id, from |-> g.from, answer |-> g.answer] BY DEF GetRecord
<1> QED BY <1>2, <1>3 DEF GetRecord

LEMMA GetTyped ==
  ASSUME NEW at \in {"room", "game"}, NEW id \in 0..MaxRooms
  PROVE  Get(at, id) \in GetRecord
BY DEF Get, GetRecord

LEMMA GetsOnMountTyped ==
  ASSUME NEW at, NEW id \in 0..MaxRooms, NEW st
  PROVE  \A g \in GetsOnMount(at, id, st) :
           g \in GetRecord /\ g.at = at /\ g.id = id /\ g.from = "here" /\ g.answer = Nil
<1> TAKE g \in GetsOnMount(at, id, st)
<1>1. g = Get(at, id) /\ at \in {"room", "game"} BY DEF GetsOnMount
<1>2. g \in GetRecord BY <1>1, GetTyped
<1> QED BY <1>1, <1>2 DEF Get

LEMMA PageTyped ==
  ASSUME NEW at \in {"lobby", "room", "game", "over"}, NEW id \in 0..MaxRooms, NEW b \in BOOLEAN
  PROVE  Mounted(at, id) \in Page /\ [Mounted(at, id) EXCEPT !.results = b] \in Page
BY DEF Page, Mounted

LEMMA EmptyStoreTyped == EmptyStore \in Store
<1>1. 0 \in 0..MatchRounds /\ 0 \in 0..MaxRooms BY MatchAssumption
<1>2. <<>> \in Seq(Player) OBVIOUS
<1> QED BY <1>1, <1>2 DEF EmptyStore, Store

LEMMA NoRoomTyped == \A id \in 0..MaxRooms : NoRoom(id) \in RoomRecord
<1>1. 0 \in 0..MatchRounds /\ Me \in Player BY MatchAssumption DEF Player
<1> QED BY <1>1 DEF NoRoom, RoomRecord

LEMMA ShowTyped ==
  ASSUME MatchTypeOK, NEW to \in {"lobby", "room", "game", "over"}, NEW id \in 0..MaxRooms,
         NEW st \in Store, NEW open, open \subseteq gets, NEW m, m \subseteq MissedKind,
         Show(to, id, st, open, m), UNCHANGED room, post' \in {Nil} \cup PostRecord
  PROVE  MatchTypeOK'
<1>1. PICK at : at = Landing(to, st) OBVIOUS
<1>2. at \in {"lobby", "room", "game", "over"} BY <1>1 DEF Landing
<1>3. store' \in Store BY <1>1, EmptyStoreTyped DEF Show, StoreOnMount
<1>4. page' \in Page
  <2>1. (at = "game" /\ st.status = "round_results") \in BOOLEAN OBVIOUS
  <2> QED BY <1>1, <1>2, <2>1, PageTyped DEF Show
<1>5. socket' \in {"off", "joining", "joined"} /\ wire' = <<>> BY DEF Show
<1>6. wire' \in Seq(Event) BY <1>5
<1>7. \A g \in gets' : g \in GetRecord
  <2>1. \A g \in open : g \in GetRecord BY DEF MatchTypeOK
  <2>2. \A g \in open : Leave(g) \in GetRecord BY <2>1, LeaveGet
  <2>3. \A g \in GetsOnMount(at, id, st) : g \in GetRecord BY GetsOnMountTyped
  <2>4. gets' = {Leave(g) : g \in open} \cup GetsOnMount(at, id, st) BY <1>1 DEF Show
  <2> QED BY <2>2, <2>3, <2>4
<1>8. missed' \subseteq MissedKind
  <2>1. missed' = MissedOnMount(at, m) BY <1>1 DEF Show
  <2>2. MissedOnMount(at, m) \subseteq m BY DEF MissedOnMount
  <2> QED BY <2>1, <2>2
<1>9. room' \in RoomRecord BY DEF MatchTypeOK
<1> QED BY <1>3, <1>4, <1>5, <1>6, <1>7, <1>8, <1>9 DEF MatchTypeOK, MissedKind

LEMMA HandledTyped ==
  ASSUME NEW st \in Store, NEW e \in Event
  PROVE  Handled(st, e) \in Store
<1>1. /\ e.is \in {"player_joined", "player_left", "round_started", "round_ended", "game_ended"}
      /\ e.is = "player_joined" => e.who \in Player
      /\ e.is = "player_left" => e.who \in Player
      /\ e.is = "round_started" => e.round \in 1..MatchRounds
      BY EventFields
<1>2. CASE e.is = "player_joined"
  <2>1. Append(st.players, e.who) \in Seq(Player) BY <1>1, <1>2 DEF Store
  <2> QED BY <1>2, <2>1 DEF Handled, AddPlayer, Store
<1>3. CASE e.is = "player_left"
  <2>1. Filtered(st.players, e.who) \in Seq(Player) BY FilteredPlayers DEF Store
  <2> QED BY <1>3, <2>1 DEF Handled, RemovePlayer, Store
<1>4. CASE e.is = "round_started"
  <2>1. e.round \in 0..MatchRounds BY <1>1, <1>4, MatchAssumption
  <2> QED BY <1>4, <2>1 DEF Handled, StartRound, Store
<1>5. CASE e.is = "round_ended" BY <1>5 DEF Handled, SetRoundResults, Store
<1>6. CASE e.is = "game_ended" BY <1>6 DEF Handled, SetFinalScores, Store
<1> QED BY <1>1, <1>2, <1>3, <1>4, <1>5, <1>6

LEMMA HandleEventTyped ==
  ASSUME MatchTypeOK, HandleEvent PROVE MatchTypeOK'
<1>1. PICK e : e = Head(wire) OBVIOUS
<1>2. e \in Event /\ Tail(wire) \in Seq(Event) BY <1>1 DEF MatchTypeOK, HandleEvent
<1>3. PICK st : st = Handled(store, e) OBVIOUS
<1>4. st \in Store BY <1>2, <1>3, HandledTyped DEF MatchTypeOK
<1>5. PICK m : m = IF e.is = "round_started" THEN missed \ {"round"} ELSE missed OBVIOUS
<1>6. m \subseteq MissedKind /\ m \cup About(Tail(wire)) \subseteq MissedKind
      BY <1>5, AboutKinds DEF MatchTypeOK, MissedKind
<1>7. page.at \in {"lobby", "room", "game", "over"} /\ page.id \in 0..MaxRooms
      BY DEF MatchTypeOK, Page
<1>8. CASE Landing(page.at, st) # page.at
  <2>1. /\ Show(page.at, page.id, st, gets, m \cup About(Tail(wire)))
        /\ post' = Leave(post) /\ UNCHANGED room
        BY <1>1, <1>3, <1>5, <1>8 DEF HandleEvent
  <2>2. post' \in {Nil} \cup PostRecord BY <2>1, LeavePost DEF MatchTypeOK
  <2> QED BY <1>4, <1>6, <1>7, <2>1, <2>2, ShowTyped
<1>9. CASE ~(Landing(page.at, st) # page.at)
  <2>1. /\ store' = st /\ page' = (IF page.at = "game" THEN PageOfRound(st) ELSE page)
        /\ wire' = Tail(wire) /\ missed' = m /\ UNCHANGED <<socket, gets, post, room>>
        BY <1>1, <1>3, <1>5, <1>9 DEF HandleEvent
  <2>2. page' \in Page BY <2>1 DEF PageOfRound, MatchTypeOK, Page
  <2>3. store' \in Store /\ wire' \in Seq(Event) /\ missed' \subseteq MissedKind
        BY <1>2, <1>4, <1>6, <2>1
  <2> QED BY <2>1, <2>2, <2>3 DEF MatchTypeOK, MissedKind
<1> QED BY <1>8, <1>9

LEMMA WithoutTyped ==
  ASSUME room \in RoomRecord, NEW p \in Player
  PROVE  Without(p) \in RoomRecord
<1>1. PICK ps : ps = room.players \ {p} OBVIOUS
<1>2. ps \subseteq Player BY <1>1 DEF RoomRecord
<1>3. CASE ps = {}
  <2>1. Without(p) = NoRoom(room.id) BY <1>1, <1>3 DEF Without
  <2> QED BY <2>1, NoRoomTyped DEF RoomRecord
<1>4. CASE ps # {}
  <2>1. PICK q : q = CHOOSE x \in ps : TRUE OBVIOUS
  <2>2. q \in Player BY <1>2, <1>4, <2>1
  <2>3. Without(p) = [room EXCEPT !.players = ps, !.guessed = @ /\ p # Me,
                                  !.host = IF @ = p THEN q ELSE @]
        BY <1>1, <1>4, <2>1 DEF Without
  <2>4. (room.guessed /\ p # Me) \in BOOLEAN OBVIOUS
  <2> QED BY <1>2, <2>2, <2>3, <2>4 DEF RoomRecord
<1> QED BY <1>3, <1>4

LEMMA EmitTyped ==
  ASSUME MatchTypeOK, NEW es \in Seq(Event), Emit(es)
  PROVE  wire' \in Seq(Event) /\ missed' \subseteq MissedKind
<1>1. About(es) \subseteq MissedKind BY AboutKinds
<1>2. wire \in Seq(Event) /\ missed \subseteq MissedKind BY DEF MatchTypeOK, MissedKind
<1>3. wire \o es \in Seq(Event) BY <1>2
<1>4. wire' = wire \o es \/ wire' = wire BY DEF Emit
<1>5. missed' \subseteq missed \cup About(es) BY DEF Emit
<1> QED BY <1>1, <1>2, <1>3, <1>4, <1>5

LEMMA RoundEvents ==
  /\ <<>> \in Seq(Event) /\ <<Ended, Over>> \in Seq(Event)
  /\ \A r \in 1..MatchRounds : <<Started(r)>> \in Seq(Event) /\ <<Ended, Started(r)>> \in Seq(Event)
  /\ \A p \in Player : <<Joined(p)>> \in Seq(Event) /\ <<Left(p)>> \in Seq(Event)
<1>1. <<>> \in Seq(Event) OBVIOUS
<1>2. \A a \in Event : <<a>> \in Seq(Event) OBVIOUS
<1>3. \A a, b \in Event : <<a, b>> \in Seq(Event) OBVIOUS
<1> QED BY <1>1, <1>2, <1>3, EventKinds

\* The room changes: what the steps of the room server have in common.
LEMMA RoomStepTyped ==
  ASSUME MatchTypeOK, room' \in RoomRecord, NEW es \in Seq(Event), Emit(es),
         UNCHANGED <<store, page, socket, gets>>, post' \in {Nil} \cup PostRecord
  PROVE  MatchTypeOK'
<1>1. wire' \in Seq(Event) /\ missed' \subseteq MissedKind BY EmitTyped
<1> QED BY <1>1 DEF MatchTypeOK, MissedKind

LEMMA OkTyped ==
  ASSUME MatchTypeOK, post # Nil, NEW id \in 0..MaxRooms, Ok(id)
  PROVE  post' \in PostRecord
<1>1. post \in PostRecord BY DEF MatchTypeOK
<1>2. post' = [post EXCEPT !.answer = "ok", !.id = id] BY DEF Ok
<1> QED BY <1>1, <1>2, PostTyped

LEMMA NewRoomTyped ==
  ASSUME MatchTypeOK, post # Nil, NEW h \in Player, NewRoom(h)
  PROVE  room' \in RoomRecord /\ post' \in PostRecord
<1>1. PICK id \in 1..MaxRooms :
        /\ room' = [NoRoom(id) EXCEPT !.host = h, !.players = {h, Me}, !.status = "waiting"]
        /\ Ok(id)
      BY DEF NewRoom
<1>2. id \in 0..MaxRooms BY <1>1, MatchAssumption
<1>3. NoRoom(id) \in RoomRecord BY <1>2, NoRoomTyped
<1>4. {h, Me} \subseteq Player BY DEF Player
<1>5. room' \in RoomRecord BY <1>1, <1>3, <1>4 DEF RoomRecord
<1> QED BY <1>1, <1>2, <1>5, OkTyped

LEMMA BeginTyped ==
  ASSUME MatchTypeOK, room' = [room EXCEPT !.status = "active", !.round = 1]
  PROVE  room' \in RoomRecord
<1>1. 1 \in 0..MatchRounds BY MatchAssumption
<1> QED BY <1>1 DEF MatchTypeOK, RoomRecord

LEMMA ServeTyped ==
  ASSUME MatchTypeOK, Serve PROVE MatchTypeOK'
<1> USE DEF Serve
<1>0. /\ room \in RoomRecord /\ room.id \in 0..MaxRooms /\ Me \in Player
      /\ room.players \subseteq Player
      BY DEF MatchTypeOK, RoomRecord, Player
<1>1. CASE Create
  <2>1. post # Nil BY <1>1 DEF Create, Asked
  <2>2. room' \in RoomRecord /\ post' \in PostRecord
        BY <1>0, <1>1, <2>1, NewRoomTyped DEF Create
  <2>3. Emit(<<>>) BY <1>1 DEF Create
  <2> QED BY <2>2, <2>3, RoomStepTyped, RoundEvents
<1>2. CASE Join
  <2>1. post # Nil BY <1>2 DEF Join, Asked
  <2>2. CASE (\E h \in Other : NewRoom(h)) /\ Emit(<<Joined(Me)>>)
    <3>1. PICK h \in Other : NewRoom(h) BY <2>2
    <3>2. room' \in RoomRecord /\ post' \in PostRecord
          BY <2>1, <3>1, NewRoomTyped DEF Player
    <3> QED BY <1>0, <2>2, <3>2, RoomStepTyped, RoundEvents
  <2>3. CASE /\ room.status = "waiting" /\ Ok(room.id)
             /\ room' = [room EXCEPT !.players = @ \cup {Me}]
             /\ Emit(IF Me \in room.players THEN <<>> ELSE <<Joined(Me)>>)
    <3>1. post' \in PostRecord BY <1>0, <2>1, <2>3, OkTyped
    <3>2. room' \in RoomRecord BY <1>0, <2>3 DEF RoomRecord
    <3>3. (IF Me \in room.players THEN <<>> ELSE <<Joined(Me)>>) \in Seq(Event)
          BY <1>0, RoundEvents
    <3> QED BY <2>3, <3>1, <3>2, <3>3, RoomStepTyped
  <2> QED BY <1>2, <2>2, <2>3 DEF Join
<1>3. CASE Start
  <2>1. post' \in PostRecord BY <1>0, <1>3, OkTyped DEF Start, Asked
  <2>2. room' \in RoomRecord BY <1>3, BeginTyped DEF Start, Begin
  <2>3. Emit(<<Started(1)>>) /\ 1 \in 1..MatchRounds BY <1>3, MatchAssumption DEF Start, Begin
  <2> QED BY <2>1, <2>2, <2>3, RoomStepTyped, RoundEvents
<1>4. CASE LeaveServed
  <2>1. post' \in PostRecord BY <1>0, <1>4, OkTyped DEF LeaveServed, Asked
  <2>2. room' \in RoomRecord BY <1>0, <1>4, WithoutTyped DEF LeaveServed
  <2>3. Emit(<<Left(Me)>>) BY <1>4 DEF LeaveServed
  <2> QED BY <1>0, <2>1, <2>2, <2>3, RoomStepTyped, RoundEvents
<1>5. CASE Guess
  <2>1. post' \in PostRecord BY <1>0, <1>5, OkTyped DEF Guess, Asked
  <2>2. room' \in RoomRecord BY <1>0, <1>5 DEF Guess, RoomRecord
  <2>3. Emit(<<>>) BY <1>5 DEF Guess
  <2> QED BY <2>1, <2>2, <2>3, RoomStepTyped, RoundEvents
<1>6. CASE Refuse
  <2>1. post \in PostRecord /\ post' = [post EXCEPT !.answer = "error"]
        BY <1>6 DEF Refuse, MatchTypeOK
  <2>2. post' \in PostRecord BY <2>1, PostTyped
  <2> QED BY <1>6, <2>2 DEF Refuse, MatchTypeOK
<1> QED BY <1>1, <1>2, <1>3, <1>4, <1>5, <1>6

LEMMA RoomActsTyped ==
  ASSUME MatchTypeOK, RoomActs PROVE MatchTypeOK'
<1> USE DEF RoomActs
<1>0. /\ room \in RoomRecord /\ room.players \subseteq Player /\ Other \subseteq Player
      /\ post' \in {Nil} \cup PostRecord
      BY DEF MatchTypeOK, RoomRecord, Player
<1>1. CASE OtherJoins
  <2>1. PICK p \in Other \ room.players :
          room' = [room EXCEPT !.players = @ \cup {p}] /\ Emit(<<Joined(p)>>)
        BY <1>1 DEF OtherJoins
  <2>2. room' \in RoomRecord BY <1>0, <2>1 DEF RoomRecord
  <2> QED BY <1>0, <2>1, <2>2, RoomStepTyped, RoundEvents
<1>2. CASE OtherLeaves
  <2>1. PICK p \in Other \cap room.players : room' = Without(p) /\ Emit(<<Left(p)>>)
        BY <1>2 DEF OtherLeaves
  <2>2. room' \in RoomRecord BY <1>0, <2>1, WithoutTyped
  <2> QED BY <1>0, <2>1, <2>2, RoomStepTyped, RoundEvents
<1>3. CASE OtherStarts
  <2>2. room' \in RoomRecord BY <1>3, BeginTyped DEF OtherStarts, Begin
  <2>3. Emit(<<Started(1)>>) /\ 1 \in 1..MatchRounds
        BY <1>3, MatchAssumption DEF OtherStarts, Begin
  <2> QED BY <1>0, <2>2, <2>3, RoomStepTyped, RoundEvents
<1>4. CASE CloseRound
  <2>1. CASE room.round < MatchRounds
    <3>1. PICK r : r = room.round + 1 OBVIOUS
    <3>2. r \in 1..MatchRounds /\ r \in 0..MatchRounds
          BY <1>0, <2>1, <3>1, MatchAssumption DEF RoomRecord
    <3>3. room' = [room EXCEPT !.round = r, !.guessed = FALSE] /\ Emit(<<Ended, Started(r)>>)
          BY <1>4, <2>1, <3>1 DEF CloseRound
    <3>4. room' \in RoomRecord BY <1>0, <3>2, <3>3 DEF RoomRecord
    <3> QED BY <1>0, <3>2, <3>3, <3>4, RoomStepTyped, RoundEvents
  <2>2. CASE ~(room.round < MatchRounds)
    <3>1. room' = [room EXCEPT !.status = "finished", !.guessed = FALSE] /\ Emit(<<Ended, Over>>)
          BY <1>4, <2>2 DEF CloseRound
    <3>2. room' \in RoomRecord BY <1>0, <3>1 DEF RoomRecord
    <3> QED BY <1>0, <3>1, <3>2, RoomStepTyped, RoundEvents
  <2> QED BY <2>1, <2>2
<1> QED BY <1>1, <1>2, <1>3, <1>4

LEMMA AnswerTyped ==
  ASSUME MatchTypeOK, NEW g \in gets, NEW a \in RoomAnswer(g) \cup {NotFound}
  PROVE  a \in GetAnswer
<1>1. CASE a = NotFound
  <2>1. <<>> \in Seq(Player) OBVIOUS
  <2> QED BY <1>1, <2>1 DEF NotFound, GetAnswer
<1>2. CASE a \in RoomAnswer(g) /\ g.id # room.id
  <2>1. <<Me>> \in Seq(Player) BY DEF Player
  <2>2. a \in [status: {"active", "finished"} \cup (IF g.at = "room" THEN {"waiting"} ELSE {}),
               players: {<<Me>>}, host: {FALSE}]
        BY <1>2 DEF RoomAnswer
  <2> QED BY <2>1, <2>2 DEF GetAnswer
<1>3. CASE a \in RoomAnswer(g) /\ g.id = room.id
  <2>1. a = [status |-> room.status, players |-> SetToSeq(room.players), host |-> room.host = Me]
        BY <1>3 DEF RoomAnswer
  <2>2. room \in RoomRecord /\ room.players \subseteq Player BY DEF MatchTypeOK, RoomRecord
  <2>3. IsFiniteSet(Player) BY MatchAssumption, FS_Singleton, FS_Union DEF Player
  <2>4. IsFiniteSet(room.players) BY <2>2, <2>3, FS_Subset
  <2>5. PICK ps : ps = SetToSeq(room.players) OBVIOUS
  <2>6. ps \in Seq(room.players) BY <2>4, <2>5, SetToSeqLists
  <2>7. ps \in Seq(Player) BY <2>2, <2>6
  <2> QED BY <2>1, <2>2, <2>5, <2>7 DEF GetAnswer, RoomRecord
<1> QED BY <1>1, <1>2, <1>3

\* The GET g gets the answer a.
LEMMA ServeGetStep ==
  ASSUME MatchTypeOK, ServeGet
  PROVE  \E g \in gets : \E a \in RoomAnswer(g) \cup {NotFound} :
           /\ g.answer = Nil
           /\ gets' = (gets \ {g}) \cup {[g EXCEPT !.answer = a]}
BY DEF ServeGet

LEMMA ServeGetTyped ==
  ASSUME MatchTypeOK, ServeGet PROVE MatchTypeOK'
<1>1. PICK g \in gets : \E a \in RoomAnswer(g) \cup {NotFound} :
           gets' = (gets \ {g}) \cup {[g EXCEPT !.answer = a]}
      BY ServeGetStep
<1>2. PICK a \in RoomAnswer(g) \cup {NotFound} :
           gets' = (gets \ {g}) \cup {[g EXCEPT !.answer = a]}
      BY <1>1
<1>3. a \in GetAnswer BY <1>1, AnswerTyped
<1>4. g \in GetRecord BY DEF MatchTypeOK
<1>5. [g EXCEPT !.answer = a] \in GetRecord BY <1>3, <1>4 DEF GetRecord
<1>6. \A h \in gets' : h \in GetRecord BY <1>2, <1>5 DEF MatchTypeOK
<1> QED BY <1>6 DEF ServeGet, MatchTypeOK

LEMMA GetAnsweredTyped ==
  ASSUME MatchTypeOK, GetAnswered PROVE MatchTypeOK'
<1>1. PICK g \in gets : /\ g.answer # Nil
                        /\ RoomLoaded(g) \/ RoomNotFound(g) \/ GameLoaded(g) \/ GameElsewhere(g)
      BY DEF GetAnswered
<1>2. /\ g \in GetRecord /\ g.answer \in GetAnswer /\ g.id \in 0..MaxRooms
      /\ g.answer.players \in Seq(Player) /\ g.answer.host \in BOOLEAN
      BY <1>1 DEF MatchTypeOK, GetRecord, GetAnswer
<1>3. Restore(g) => store' \in Store /\ missed' \subseteq MissedKind
      BY <1>2 DEF Restore, MatchTypeOK, Store, MissedKind
<1>4. CASE RoomLoaded(g)
  <2>1. page' \in Page BY <1>2, <1>4 DEF RoomLoaded, MatchTypeOK, Page
  <2> QED BY <1>3, <1>4, <2>1 DEF RoomLoaded, MatchTypeOK, MissedKind
<1>5. CASE RoomNotFound(g)
  <2>1. page' \in Page BY <1>5 DEF RoomNotFound, MatchTypeOK, Page
  <2> QED BY <1>5, <2>1 DEF RoomNotFound, MatchTypeOK
<1>6. CASE GameLoaded(g) BY <1>3, <1>6 DEF GameLoaded, MatchTypeOK, MissedKind
<1>7. CASE GameElsewhere(g)
  <2>1. PICK to : to = CASE g.answer.status = "finished" -> "over"
                         [] g.answer.status = "waiting" -> "room"
                         [] g.answer.status = "gone" -> "lobby"
        OBVIOUS
  <2>2. PICK id : id = IF g.answer.status = "gone" THEN 0 ELSE g.id OBVIOUS
  <2>3. to \in {"lobby", "room", "game", "over"} /\ id \in 0..MaxRooms
        BY <1>2, <1>7, <2>1, <2>2, MatchAssumption DEF GetAnswer, GameElsewhere
  <2>4. /\ Show(to, id, store, gets \ {g}, missed \cup About(wire))
        /\ post' = Leave(post) /\ UNCHANGED room
        BY <1>7, <2>1, <2>2 DEF GameElsewhere
  <2>5. post' \in {Nil} \cup PostRecord BY <2>4, LeavePost DEF MatchTypeOK
  <2>6. missed \cup About(wire) \subseteq MissedKind BY AboutKinds DEF MatchTypeOK, MissedKind
  <2>7. store \in Store /\ gets \ {g} \subseteq gets BY DEF MatchTypeOK
  <2> QED BY <2>3, <2>4, <2>5, <2>6, <2>7, ShowTyped
<1> QED BY <1>1, <1>4, <1>5, <1>6, <1>7

LEMMA PlayerActsTyped ==
  ASSUME MatchTypeOK, PlayerActs PROVE MatchTypeOK'
<1>1. ASSUME NEW op \in {"create", "join", "start", "leave", "guess"}, Send(op),
             UNCHANGED <<room, store, page, socket, wire, gets, missed>>
      PROVE  MatchTypeOK'
  <2>1. Request(op) \in PostRecord
        BY NoRequestAssumption DEF Request, PostRecord, MatchTypeOK, Page, Store
  <2>2. post' \in PostRecord BY <1>1, <2>1 DEF Send
  <2> QED BY <1>1, <2>2 DEF MatchTypeOK
<1>2. CASE /\ LobbyLoads \/ PlaceGuess \/ DismissResults
           /\ UNCHANGED <<room, store, socket, wire, gets, post, missed>>
  <2>1. page' \in Page
        BY <1>2 DEF LobbyLoads, PlaceGuess, DismissResults, MatchTypeOK, Page
  <2> QED BY <1>2, <2>1 DEF MatchTypeOK
<1>3. CASE ToLobby
  <2>1. Show("lobby", 0, store, gets, {}) /\ post' = Leave(post) /\ UNCHANGED room
        BY <1>3 DEF ToLobby
  <2>2. post' \in {Nil} \cup PostRecord /\ store \in Store /\ 0 \in 0..MaxRooms
        BY <2>1, LeavePost, MatchAssumption DEF MatchTypeOK
  <2> QED BY <2>1, <2>2, ShowTyped
<1> QED BY <1>1, <1>2, <1>3
        DEF PlayerActs, CreateRoom, JoinRoom, StartGame, LeaveRoom, SubmitGuess

LEMMA ReloadTyped ==
  ASSUME MatchTypeOK, Reload PROVE MatchTypeOK'
<1>1. page.at \in {"lobby", "room", "game", "over"} /\ page.id \in 0..MaxRooms
      BY DEF MatchTypeOK, Page
<1>2. store' \in Store BY EmptyStoreTyped DEF Reload
<1>3. page' \in Page BY <1>1, PageTyped DEF Reload
<1>4. \A g \in gets' : g \in GetRecord BY <1>1, GetsOnMountTyped DEF Reload
<1>5. post' \in {Nil} \cup PostRecord BY PostTyped DEF Reload, MatchTypeOK
<1>6. wire' \in Seq(Event) BY DEF Reload
<1> QED BY <1>2, <1>3, <1>4, <1>5, <1>6 DEF Reload, MatchTypeOK

LEMMA PostAnsweredTyped ==
  ASSUME MatchTypeOK, PostAnswered PROVE MatchTypeOK'
<1>0. post' = Nil /\ UNCHANGED room BY DEF PostAnswered
<1>1. CASE StaysHere BY <1>0, <1>1 DEF StaysHere, MatchTypeOK
<1>2. CASE EnterAnswered /\ ~StaysHere
  <2>1. /\ post # Nil
        /\ Show("room", post.id, [store EXCEPT !.map = post.id], gets, missed)
        BY <1>2 DEF EnterAnswered, Answered
  <2>2. post.id \in 0..MaxRooms BY <2>1 DEF MatchTypeOK, PostRecord
  <2>3. [store EXCEPT !.map = post.id] \in Store BY <2>2 DEF MatchTypeOK, Store
  <2>4. missed \subseteq MissedKind BY DEF MatchTypeOK, MissedKind
  <2> QED BY <1>0, <2>1, <2>2, <2>3, <2>4, ShowTyped
<1>3. CASE StartAnswered
  <2>1. page' \in Page BY <1>3 DEF StartAnswered, MatchTypeOK, Page
  <2> QED BY <1>0, <1>3, <2>1 DEF StartAnswered, MatchTypeOK
<1>4. CASE LeaveAnswered /\ ~StaysHere
  <2>1. Show("lobby", 0, store, gets, {}) BY <1>4 DEF LeaveAnswered
  <2>2. store \in Store /\ 0 \in 0..MaxRooms BY MatchAssumption DEF MatchTypeOK
  <2> QED BY <1>0, <2>1, <2>2, ShowTyped
<1>5. CASE GuessAnswered /\ ~StaysHere
  <2>1. /\ page' = [page EXCEPT !.submitted = TRUE]
        /\ missed' \subseteq missed \cup {"answer"}
        /\ UNCHANGED <<store, socket, wire, gets>>
        BY <1>5 DEF GuessAnswered
  <2>2. page' \in Page BY <2>1 DEF MatchTypeOK, Page
  <2> QED BY <1>0, <2>1, <2>2 DEF MatchTypeOK
<1> QED BY <1>1, <1>2, <1>3, <1>4, <1>5 DEF PostAnswered

LEMMA MatchTypes == MatchTypeOK /\ [MatchNext]_matchVars => MatchTypeOK'
<1> SUFFICES ASSUME MatchTypeOK, [MatchNext]_matchVars PROVE MatchTypeOK' OBVIOUS
<1>1. CASE SocketJoins BY <1>1 DEF SocketJoins, MatchTypeOK
<1>2. CASE SocketDrops
  <2>1. About(wire) \subseteq MissedKind BY AboutKinds
  <2>2. wire' \in Seq(Event) BY <1>2 DEF SocketDrops
  <2> QED BY <1>2, <2>1, <2>2 DEF SocketDrops, MatchTypeOK, MissedKind
<1>3. CASE UNCHANGED matchVars BY <1>3 DEF matchVars, browser, MatchTypeOK
<1> QED BY <1>1, <1>2, <1>3, HandleEventTyped, ServeGetTyped, GetAnsweredTyped, ServeTyped,
           PostAnsweredTyped, PlayerActsTyped, RoomActsTyped, ReloadTyped
        DEF MatchNext, Progress

-----------------------------------------------------------------------------
(* Where the player shows a page outside the rooms, and what is quiet.     *)

LEMMA MatchInvInit == MatchInit => MatchInv
<1> SUFFICES ASSUME MatchInit PROVE MatchInv OBVIOUS
<1>0. 0 \in 0..MaxRooms /\ 0 \in 0..MatchRounds BY MatchAssumption
<1>1. MatchTypeOK
  <2>1. room \in RoomRecord BY <1>0, NoRoomTyped DEF MatchInit
  <2>2. store \in Store BY EmptyStoreTyped DEF MatchInit
  <2>3. page \in Page BY <1>0, PageTyped DEF MatchInit
  <2>4. wire \in Seq(Event) BY DEF MatchInit
  <2> QED BY <2>1, <2>2, <2>3, <2>4 DEF MatchInit, MatchTypeOK
<1>2. /\ page.at = "lobby" /\ ~Inside /\ wire = <<>> /\ gets = {} /\ post = Nil
      /\ DOMAIN wire = {} /\ socket = "off"
      BY DEF MatchInit, Mounted, Inside
<1>3. Places BY <1>2 DEF Places, MatchInit, Inside, Fresh, EmptyStore, NoRoom
<1> QED BY <1>1, <1>2, <1>3
        DEF MatchInv, Requests, Fetches, Fetched, Wires, RoundShown, Locked, MapKnown, People,
            Fetching

\* A step that touches only the request and what the page keeps for itself.
LEMMA QuietStep ==
  ASSUME MatchInv, MatchTypeOK', Requests',
         UNCHANGED <<room, store, socket, wire, gets, missed>>,
         page'.at = page.at, page'.id = page.id, page'.submitted = page.submitted,
         page'.loaded = page.loaded \/ page.at = "lobby",
         page'.results => page.results
  PROVE  MatchInv'
<1>1. Places' BY DEF MatchInv, Places, Inside, Fresh
<1>2. Fetches' BY DEF MatchInv, Fetches, Fetching
<1>3. Fetched' BY DEF MatchInv, Fetched
<1>4. Wires' BY DEF MatchInv, Wires, Inside
<1>5. RoundShown' BY DEF MatchInv, RoundShown
<1>6. Locked' BY DEF MatchInv, Locked
<1>7. MapKnown' BY DEF MatchInv, MapKnown, Inside
<1>8. People' BY DEF MatchInv, People
<1> QED BY <1>1, <1>2, <1>3, <1>4, <1>5, <1>6, <1>7, <1>8 DEF MatchInv

\* A page outside the rooms is shown.
LEMMA OutsideStep ==
  ASSUME MatchInv, MatchTypeOK', Requests', UNCHANGED room,
         page'.at \in {"lobby", "over"}, page'.at = "lobby" => Fresh',
         page'.at = "over" /\ page'.id = room.id => room.status \in {"finished", "gone"},
         store'.pano = store'.round, socket' = "off", wire' = <<>>,
         gets' \subseteq {Leave(g) : g \in gets}
  PROVE  MatchInv'
<1>1. ~Inside' /\ DOMAIN wire' = {} BY DEF Inside
<1>2. Places' BY <1>1 DEF MatchInv, Places
<1>3. \A h \in gets' : \E g \in gets : h.from = "left" /\ h.at = g.at /\ h.id = g.id
                                       /\ h.answer = g.answer
  <2>1. \A g \in gets : g \in GetRecord BY DEF MatchInv, MatchTypeOK
  <2>2. \A h \in gets' : \E g \in gets : h = Leave(g) OBVIOUS
  <2> QED BY <2>1, <2>2, LeaveGet
<1>4. Fetches' BY <1>3 DEF MatchInv, Fetches
<1>5. Fetched' BY <1>3 DEF Fetched
<1>6. Wires' BY <1>1 DEF Wires
<1>7. RoundShown' /\ Locked' /\ People' BY DEF RoundShown, Locked, People
<1>8. MapKnown' BY <1>1 DEF MapKnown
<1> QED BY <1>2, <1>4, <1>5, <1>6, <1>7, <1>8 DEF MatchInv

-----------------------------------------------------------------------------
(* Steps of the browser.                                                   *)

LEMMA PlayerActsStep ==
  ASSUME MatchInv, MatchTypeOK', PlayerActs PROVE MatchInv'
<1>0. /\ post \in {Nil} \cup PostRecord /\ page \in Page /\ store \in Store
      /\ room \in RoomRecord
      BY DEF MatchInv, MatchTypeOK
<1>1. ASSUME NEW op, Send(op),
             op \in {"create", "join"} => page.at = "lobby",
             op = "guess" => page.at = "game",
             UNCHANGED <<room, store, page, socket, wire, gets, missed>>
      PROVE  MatchInv'
  <2>1. post' = Request(op) BY <1>1 DEF Send
  <2>2. post'.op = op /\ post'.answer = Nil /\ post'.from = "here" /\ post'.round = store.round
        BY <2>1 DEF Request
  <2>3. Nil # "ok" BY NoRequestAssumption
  <2>4. store.round <= store.round BY <1>0 DEF Store
  <2>5. page.at = "lobby" => Fresh BY DEF MatchInv, Places
  <2>6. Requests' BY <1>1, <2>2, <2>3, <2>4, <2>5 DEF Requests, Fresh
  <2> QED BY <1>1, <2>6, QuietStep
<1>2. CASE /\ LobbyLoads \/ PlaceGuess \/ DismissResults
           /\ UNCHANGED <<room, store, socket, wire, gets, post, missed>>
  <2>1. /\ page'.at = page.at /\ page'.id = page.id /\ page'.submitted = page.submitted
        /\ page'.loaded = page.loaded \/ page.at = "lobby"
        /\ page'.results => page.results
        BY <1>0, <1>2 DEF LobbyLoads, PlaceGuess, DismissResults, Page
  <2>2. Requests' BY <1>2, <2>1 DEF MatchInv, Requests, Fresh
  <2> QED BY <1>2, <2>1, <2>2, QuietStep
<1>3. CASE ToLobby
  <2>1. Show("lobby", 0, store, gets, {}) /\ post' = Leave(post) /\ UNCHANGED room
        BY <1>3 DEF ToLobby
  <2>2. /\ page'.at = "lobby" /\ store' = EmptyStore /\ socket' = "off" /\ wire' = <<>>
        /\ gets' \subseteq {Leave(g) : g \in gets}
        BY <2>1 DEF Show, Landing, Mounted, StoreOnMount, GetsOnMount
  <2>3. Fresh' BY <2>2 DEF Fresh, EmptyStore
  <2>4. store'.pano = store'.round BY <2>2 DEF EmptyStore
  <2>5. Requests' BY <1>0, <2>1, <2>2, <2>3, LeavePost DEF MatchInv, Requests
  <2> QED BY <2>1, <2>2, <2>3, <2>4, <2>5, OutsideStep
<1> QED BY <1>1, <1>2, <1>3
        DEF PlayerActs, CreateRoom, JoinRoom, StartGame, LeaveRoom, SubmitGuess, InRoom, OnMap

LEMMA ReloadStep ==
  ASSUME MatchInv, MatchTypeOK', Reload PROVE MatchInv'
<1>0. /\ page.at \in {"lobby", "room", "game", "over"} /\ page.id \in 0..MaxRooms
      /\ post \in {Nil} \cup PostRecord /\ room \in RoomRecord
      BY DEF MatchInv, MatchTypeOK, Page
<1>1. /\ store'.status = "waiting" /\ store'.round = 0 /\ store'.pano = 0
      BY DEF Reload, EmptyStore
<1>2. /\ page'.at = page.at /\ page'.id = page.id /\ ~page'.loaded /\ ~page'.submitted
      /\ ~page'.results
      BY DEF Reload, Mounted
<1>3. wire' = <<>> /\ DOMAIN wire' = {} /\ UNCHANGED room BY DEF Reload
<1>4. gets' = IF page.at \in {"room", "game"} THEN {Get(page.at, page.id)} ELSE {}
      BY DEF Reload, GetsOnMount, EmptyStore
<1>5. \A g \in gets' : g.at = page.at /\ g.id = page.id /\ g.from = "here" /\ g.answer = Nil
      BY <1>4 DEF Get
<1>6. \A g, h \in gets' : g = h BY <1>4
<1>7. Fresh' BY <1>1 DEF Fresh
<1>8. Places' BY <1>0, <1>1, <1>2, <1>3, <1>7 DEF MatchInv, Places, Inside, Reload
<1>9. Requests'
  <2>1. CASE post = Nil BY <2>1 DEF Reload, Requests
  <2>2. CASE post # Nil
    <3>1. post' = [post EXCEPT !.from = "dead"] BY <2>2 DEF Reload
    <3>2. post \in PostRecord BY <1>0, <2>2
    <3>3. /\ post'.op = post.op /\ post'.answer = post.answer /\ post'.id = post.id
          /\ post'.from = "dead"
          BY <3>1, <3>2 DEF PostRecord
    <3> QED BY <1>2, <1>3, <1>7, <2>2, <3>3 DEF MatchInv, Requests
  <2> QED BY <2>1, <2>2
<1>10. Fetches'
  <2>1. page.at = "game" => page.id = room.id /\ room.status \in {"active", "finished", "gone"}
        BY DEF MatchInv, Places, Inside
  <2> QED BY <1>2, <1>3, <1>5, <1>6, <2>1 DEF Fetches
<1>11. Fetched' BY <1>3, <1>5 DEF Fetched
<1>12. Wires'
  <2>1. 0 <= room.round BY <1>0 DEF RoomRecord
  <2> QED BY <1>1, <1>3, <2>1 DEF Wires
<1>13. RoundShown' /\ Locked' /\ People' BY <1>1, <1>2 DEF RoundShown, Locked, People
<1>14. MapKnown'
  <2>1. Inside' => \E g \in gets' : g.id = page'.id BY <1>2, <1>4, <1>5 DEF Inside
  <2> QED BY <2>1 DEF MapKnown
<1> QED BY <1>8, <1>9, <1>10, <1>11, <1>12, <1>13, <1>14 DEF MatchInv

LEMMA SocketJoinsStep ==
  ASSUME MatchInv, MatchTypeOK', SocketJoins PROVE MatchInv'
<1> USE DEF SocketJoins
<1>1. Places' BY DEF MatchInv, Places, Inside, Fresh
<1>2. Requests' BY DEF MatchInv, Requests, Fresh
<1>3. Fetches' BY DEF MatchInv, Fetches, Fetching
<1>4. Fetched' BY DEF MatchInv, Fetched
<1>5. Wires' BY DEF MatchInv, Wires, Inside
<1>6. RoundShown' BY DEF MatchInv, RoundShown
<1>7. Locked' BY DEF MatchInv, Locked
<1>8. MapKnown' BY DEF MatchInv, MapKnown, Inside
<1>9. People' BY DEF MatchInv, People
<1> QED BY <1>1, <1>2, <1>3, <1>4, <1>5, <1>6, <1>7, <1>8, <1>9 DEF MatchInv

LEMMA AboutPlayers ==
  ASSUME NEW es
  PROVE  /\ "players" \in About(es) <=> \E i \in DOMAIN es : IsPlayers(es[i])
         /\ "round" \in About(es) <=> \E i \in DOMAIN es : ~IsPlayers(es[i])
BY DEF About, IsPlayers

\* The list follows no event of the players: it is the set.
LEMMA FollowsQuietly ==
  ASSUME NEW ps, NEW es \in Seq(Event), NEW set, Follows(ps, es, set),
         \A i \in DOMAIN es : ~IsPlayers(es[i])
  PROVE  Follows(ps, <<>>, set)
<1>1. DOMAIN es = 1..Len(es) /\ Len(es) \in Nat OBVIOUS
<1>2. \A p : \A i \in 1..Len(es) : es[i] # Joined(p) /\ es[i] # Left(p)
      BY <1>1, EventKinds DEF IsPlayers
<1>3. (Len(es) + 1) - 1 = Len(es) BY <1>1
<1>4. \A p : p \in ToSet(ps) <=> PresentIn(ps, es, p, Len(es) + 1)
      BY <1>1, <1>2, <1>3 DEF PresentIn
<1>5. \A p : p \in ToSet(ps) <=> PresentIn(ps, <<>>, p, 0 + 1) BY DEF PresentIn
<1>6. Len(<<>>) = 0 OBVIOUS
<1> QED BY <1>4, <1>5, <1>6 DEF Follows

LEMMA SocketDropsStep ==
  ASSUME MatchInv, MatchTypeOK', SocketDrops PROVE MatchInv'
<1>0. /\ wire \in Seq(Event) /\ wire' = <<>> /\ DOMAIN wire' = {}
      /\ socket = "joined" /\ socket' = "joining"
      /\ missed' = missed \cup About(wire)
      /\ UNCHANGED <<room, store, page, gets, post>>
      BY DEF MatchInv, MatchTypeOK, SocketDrops
<1>1. Places' BY <1>0 DEF MatchInv, Places, Inside, Fresh
<1>2. Requests' BY <1>0 DEF MatchInv, Requests, Fresh
<1>3. Fetches' BY <1>0 DEF MatchInv, Fetches, Fetching
<1>4. Fetched' BY <1>0 DEF MatchInv, Fetched
<1>5. Wires' BY <1>0 DEF MatchInv, Wires, Inside
<1>6. RoundShown'
  <2>1. "round" \notin missed' => "round" \notin missed /\ \A i \in DOMAIN wire : IsPlayers(wire[i])
        BY <1>0, AboutPlayers
  <2> QED BY <1>0, <2>1 DEF MatchInv, RoundShown
<1>7. Locked' BY <1>0 DEF MatchInv, Locked
<1>8. MapKnown' BY <1>0 DEF MatchInv, MapKnown, Inside
<1>9. People'
  <2>1. "players" \notin missed' =>
          "players" \notin missed /\ \A i \in DOMAIN wire : ~IsPlayers(wire[i])
        BY <1>0, AboutPlayers
  <2>2. PICK ps : ps = store.players OBVIOUS
  <2>3. PICK es : es = wire OBVIOUS
  <2>4. page.at = "room" /\ page.loaded /\ "players" \notin missed' => Follows(ps, <<>>, room.players)
        BY <1>0, <2>1, <2>2, <2>3, FollowsQuietly DEF MatchInv, People
  <2> QED BY <1>0, <2>2, <2>4 DEF People
<1> QED BY <1>1, <1>2, <1>3, <1>4, <1>5, <1>6, <1>7, <1>8, <1>9 DEF MatchInv

\* A GET is answered: with a game that is not waiting, with the players there are.
LEMMA AnswerFacts ==
  ASSUME MatchInv, NEW g \in gets, NEW a \in RoomAnswer(g) \cup {NotFound}
  PROVE  /\ g.at = "game" =>
              /\ a.status # "waiting"
              /\ g.id = room.id /\ a.status = "finished" => room.status \in {"finished", "gone"}
         /\ g.id = room.id /\ a.status # "gone" =>
              ToSet(a.players) = room.players /\ Distinct(a.players)
<1>1. CASE a = NotFound BY <1>1 DEF NotFound
<1>2. CASE a \in RoomAnswer(g) /\ g.id # room.id
  <2>1. a \in [status: {"active", "finished"} \cup (IF g.at = "room" THEN {"waiting"} ELSE {}),
               players: {<<Me>>}, host: {FALSE}]
        BY <1>2 DEF RoomAnswer
  <2> QED BY <1>2, <2>1
<1>3. CASE a \in RoomAnswer(g) /\ g.id = room.id
  <2>1. a = [status |-> room.status, players |-> SetToSeq(room.players), host |-> room.host = Me]
        BY <1>3 DEF RoomAnswer
  <2>2. room.players \subseteq Player BY DEF MatchInv, MatchTypeOK, RoomRecord
  <2>3. IsFiniteSet(Player) BY MatchAssumption, FS_Singleton, FS_Union DEF Player
  <2>4. IsFiniteSet(room.players) BY <2>2, <2>3, FS_Subset
  <2>5. ToSet(a.players) = room.players /\ Distinct(a.players) BY <2>1, <2>4, SetToSeqLists
  <2>6. a.status = room.status BY <2>1
  <2>7. g.at = "game" => room.status \in {"active", "finished", "gone"}
        BY <1>3 DEF MatchInv, Fetches
  <2> QED BY <2>5, <2>6, <2>7
<1> QED BY <1>1, <1>2, <1>3

LEMMA ServeGetInv ==
  ASSUME MatchInv, MatchTypeOK', ServeGet PROVE MatchInv'
<1>1. PICK g \in gets : \E a \in RoomAnswer(g) \cup {NotFound} :
           g.answer = Nil /\ gets' = (gets \ {g}) \cup {[g EXCEPT !.answer = a]}
      BY ServeGetStep DEF MatchInv
<1>2. PICK a \in RoomAnswer(g) \cup {NotFound} :
           g.answer = Nil /\ gets' = (gets \ {g}) \cup {[g EXCEPT !.answer = a]}
      BY <1>1
<1>3. PICK h : h = [g EXCEPT !.answer = a] OBVIOUS
<1>4. /\ h.at = g.at /\ h.id = g.id /\ h.from = g.from /\ h.answer = a
      /\ gets' = (gets \ {g}) \cup {h}
  <2>1. g \in GetRecord BY DEF MatchInv, MatchTypeOK
  <2> QED BY <1>2, <1>3, <2>1 DEF GetRecord
<1>5. UNCHANGED <<room, store, page, socket, wire, post, missed>> BY DEF ServeGet
<1>6. /\ g.at = "game" =>
           /\ a.status # "waiting"
           /\ g.id = room.id /\ a.status = "finished" => room.status \in {"finished", "gone"}
      /\ g.id = room.id /\ a.status # "gone" =>
           ToSet(a.players) = room.players /\ Distinct(a.players)
      BY AnswerFacts
<1>7. \A k \in gets' : k = h \/ (k \in gets /\ k # g) BY <1>4
<1>8. Places' BY <1>5 DEF MatchInv, Places, Inside, Fresh
<1>9. Requests' BY <1>5 DEF MatchInv, Requests, Fresh
<1>10. Fetches'
  <2>1. \A k \in gets' : k.from = "here" => k.id = page.id /\ k.at = page.at
        BY <1>4, <1>7 DEF MatchInv, Fetches
  <2>2. \A k, l \in gets' : k.from = "here" /\ l.from = "here" => k = l
    <3>1. \A k \in gets : k.from = "here" /\ g.from = "here" => k = g BY DEF MatchInv, Fetches
    <3>2. \A k, l \in gets : k.from = "here" /\ l.from = "here" => k = l
          BY DEF MatchInv, Fetches
    <3> QED BY <1>4, <1>7, <3>1, <3>2
  <2>3. Fetching' => Fetching BY <1>4, <1>7 DEF Fetching
  <2>4. \A k \in gets' : k.at = "game" =>
         /\ k.id = room.id => room.status \in {"active", "finished", "gone"}
         /\ k.answer # Nil => k.answer.status # "waiting"
         /\ k.answer # Nil /\ k.id = room.id /\ k.answer.status = "finished" =>
              room.status \in {"finished", "gone"}
    <3> TAKE k \in gets'
    <3>1. CASE k \in gets BY <3>1 DEF MatchInv, Fetches
    <3>2. CASE k = h
      <4>1. g.at = "game" /\ g.id = room.id => room.status \in {"active", "finished", "gone"}
            BY DEF MatchInv, Fetches
      <4> QED BY <1>4, <1>6, <3>2, <4>1
    <3> QED BY <1>7, <3>1, <3>2
  <2>5. page.at = "room" /\ page.loaded => ~Fetching BY DEF MatchInv, Fetches
  <2> QED BY <1>5, <2>1, <2>2, <2>3, <2>4, <2>5 DEF Fetches
<1>11. Fetched'
  <2> SUFFICES ASSUME "players" \notin missed, NEW k \in gets', k.from = "here", k.at = "room"
               PROVE  /\ \A i \in DOMAIN wire : ~IsPlayers(wire[i])
                      /\ k.answer # Nil /\ k.answer.status # "gone" =>
                           ToSet(k.answer.players) = room.players /\ Distinct(k.answer.players)
      BY <1>5 DEF Fetched
  <2>1. CASE k \in gets BY <2>1 DEF MatchInv, Fetched
  <2>2. CASE k = h
    <3>1. \A i \in DOMAIN wire : ~IsPlayers(wire[i])
          BY <1>4, <2>2 DEF MatchInv, Fetched
    <3>2. g.id = page.id /\ g.at = page.at /\ page.id = room.id
          BY <1>4, <2>2 DEF MatchInv, Fetches, Places, Inside
    <3> QED BY <1>4, <1>6, <2>2, <3>1, <3>2
  <2> QED BY <1>7, <2>1, <2>2
<1>12. Wires' BY <1>5 DEF MatchInv, Wires, Inside
<1>13. RoundShown' BY <1>5 DEF MatchInv, RoundShown
<1>14. Locked' BY <1>5 DEF MatchInv, Locked
<1>15. MapKnown'
  <2>1. \A k \in gets : \E l \in gets' : l.id = k.id BY <1>4
  <2> QED BY <1>5, <2>1 DEF MatchInv, MapKnown, Inside
<1>16. People' BY <1>5 DEF MatchInv, People
<1> QED BY <1>8, <1>9, <1>10, <1>11, <1>12, <1>13, <1>14, <1>15, <1>16 DEF MatchInv

\* What the answer of a GET does when the player stays on the page.
LEMMA AnswerStep ==
  ASSUME MatchInv, MatchTypeOK', NEW g \in gets, gets' = gets \ {g},
         UNCHANGED <<room, socket, wire, post>>,
         store'.pano = store.pano, store'.round = store.round, store'.status = store.status,
         page'.at = page.at, page'.id = page.id, page'.submitted = page.submitted,
         page'.results = page.results, missed \subseteq missed',
         "round" \in missed' => "round" \in missed,
         page'.at = "room" /\ page'.loaded => ~Fetching',
         MapKnown', People'
  PROVE  MatchInv'
<1>1. Places' BY DEF MatchInv, Places, Inside, Fresh
<1>2. Requests' BY DEF MatchInv, Requests, Fresh
<1>3. Fetches' BY DEF MatchInv, Fetches
<1>4. Fetched' BY DEF MatchInv, Fetched
<1>5. Wires' BY DEF MatchInv, Wires, Inside
<1>6. RoundShown' BY DEF MatchInv, RoundShown
<1>7. Locked' BY DEF MatchInv, Locked
<1> QED BY <1>1, <1>2, <1>3, <1>4, <1>5, <1>6, <1>7 DEF MatchInv

LEMMA RestoreFacts ==
  ASSUME MatchInv, NEW g \in gets, Restore(g)
  PROVE  /\ store'.map = g.id /\ store'.players = g.answer.players
         /\ store'.pano = store.pano /\ store'.round = store.round /\ store'.status = store.status
         /\ missed' = missed \cup (IF g.from = "here" THEN {} ELSE {"map", "players"})
<1>1. store \in Store BY DEF MatchInv, MatchTypeOK
<1> QED BY <1>1 DEF Restore, Store

LEMMA RoomLoadedStep ==
  ASSUME MatchInv, MatchTypeOK', NEW g \in gets, g.answer # Nil, RoomLoaded(g) PROVE MatchInv'
<1>0. /\ g \in GetRecord /\ page \in Page /\ wire \in Seq(Event) /\ room \in RoomRecord
      BY DEF MatchInv, MatchTypeOK
<1>1. /\ store'.map = g.id /\ store'.players = g.answer.players
      /\ store'.pano = store.pano /\ store'.round = store.round /\ store'.status = store.status
      /\ missed' = missed \cup (IF g.from = "here" THEN {} ELSE {"map", "players"})
      BY RestoreFacts DEF RoomLoaded
<1>2. /\ g.at = "room" /\ g.answer.status # "gone" /\ gets' = gets \ {g}
      /\ page' = (IF g.from = "left" THEN page
                  ELSE [page EXCEPT !.loaded = TRUE, !.host = g.answer.host])
      /\ UNCHANGED <<room, socket, wire, post>>
      BY DEF RoomLoaded
<1>3. /\ page'.at = page.at /\ page'.id = page.id /\ page'.submitted = page.submitted
      /\ page'.results = page.results
      /\ g.from = "left" => page' = page
      BY <1>0, <1>2 DEF Page
<1>4. g.from \in {"here", "left"} BY <1>0 DEF GetRecord
<1>5. g.from = "here" => /\ g.id = page.id /\ page.at = "room" /\ page.id = room.id
                         /\ \A h \in gets : h.from = "here" => h = g
      BY <1>2 DEF MatchInv, Fetches, Places, Inside
<1>6. page'.at = "room" /\ page'.loaded => ~Fetching'
  <2>1. CASE g.from = "here" BY <1>2, <1>5, <2>1 DEF Fetching
  <2>2. CASE g.from = "left" BY <1>2, <1>3, <2>2 DEF Fetching, MatchInv, Fetches
  <2> QED BY <1>4, <2>1, <2>2
<1>7. MapKnown' BY <1>1, <1>3, <1>4, <1>5 DEF MapKnown
<1>8. People'
  <2> SUFFICES ASSUME "players" \notin missed' PROVE Follows(store'.players, wire, room.players)
      BY <1>2 DEF People
  <2>1. g.from = "here" /\ "players" \notin missed BY <1>1, <1>4
  <2>2. PICK ps : ps = g.answer.players OBVIOUS
  <2>3. /\ ToSet(ps) = room.players /\ Distinct(ps)
        /\ \A i \in DOMAIN wire : ~IsPlayers(wire[i])
        BY <1>2, <2>1, <2>2 DEF MatchInv, Fetched
  <2>4. Follows(ps, wire, ToSet(ps)) BY <1>0, <2>3, FollowsAtOnce
  <2> QED BY <1>1, <2>2, <2>3, <2>4
<1>9. missed \subseteq missed' /\ ("round" \in missed' => "round" \in missed) BY <1>1
<1> QED BY <1>1, <1>2, <1>3, <1>6, <1>7, <1>8, <1>9, AnswerStep

LEMMA RoomNotFoundStep ==
  ASSUME MatchInv, MatchTypeOK', NEW g \in gets, RoomNotFound(g) PROVE MatchInv'
<1>0. page \in Page BY DEF MatchInv, MatchTypeOK
<1>1. /\ gets' = gets \ {g} /\ missed' = missed \cup {"map", "players"}
      /\ page' = (IF g.from = "left" THEN page ELSE [page EXCEPT !.error = TRUE])
      /\ UNCHANGED <<room, store, socket, wire, post>>
      BY DEF RoomNotFound
<1>2. /\ page'.at = page.at /\ page'.id = page.id /\ page'.submitted = page.submitted
      /\ page'.results = page.results /\ page'.loaded = page.loaded
      BY <1>0, <1>1 DEF Page
<1>3. page'.at = "room" /\ page'.loaded => ~Fetching'
      BY <1>1, <1>2 DEF Fetching, MatchInv, Fetches
<1>4. MapKnown' /\ People' BY <1>1 DEF MapKnown, People
<1>5. missed \subseteq missed' /\ ("round" \in missed' => "round" \in missed) BY <1>1
<1> QED BY <1>1, <1>2, <1>3, <1>4, <1>5, AnswerStep

LEMMA GameLoadedStep ==
  ASSUME MatchInv, MatchTypeOK', NEW g \in gets, GameLoaded(g) PROVE MatchInv'
<1>0. g \in GetRecord BY DEF MatchInv, MatchTypeOK
<1>1. /\ store'.map = g.id
      /\ store'.pano = store.pano /\ store'.round = store.round /\ store'.status = store.status
      /\ missed' = missed \cup (IF g.from = "here" THEN {} ELSE {"map", "players"})
      BY RestoreFacts DEF GameLoaded
<1>2. /\ g.at = "game" /\ gets' = gets \ {g}
      /\ UNCHANGED <<room, page, socket, wire, post>>
      BY DEF GameLoaded
<1>3. g.from = "here" => g.id = page.id /\ page.at = "game"
      BY <1>2 DEF MatchInv, Fetches
<1>4. g.from \in {"here", "left"} BY <1>0 DEF GetRecord
<1>5. page'.at = "room" /\ page'.loaded => ~Fetching'
      BY <1>2 DEF Fetching, MatchInv, Fetches
<1>6. MapKnown' BY <1>1, <1>2, <1>3, <1>4 DEF MapKnown
<1>7. People' BY <1>1, <1>2, <1>3, <1>4 DEF People
<1>8. missed \subseteq missed' /\ ("round" \in missed' => "round" \in missed) BY <1>1
<1> QED BY <1>1, <1>2, <1>5, <1>6, <1>7, <1>8, AnswerStep

LEMMA GameElsewhereStep ==
  ASSUME MatchInv, MatchTypeOK', NEW g \in gets, g.answer # Nil, GameElsewhere(g)
  PROVE  MatchInv'
<1>0. /\ g \in GetRecord /\ g.answer \in GetAnswer /\ post \in {Nil} \cup PostRecord
      BY DEF MatchInv, MatchTypeOK, GetRecord
<1>1. g.at = "game" /\ g.answer.status \in {"finished", "gone"}
      BY <1>0 DEF GameElsewhere, GetAnswer, MatchInv, Fetches
<1>2. PICK to, id : /\ to = (IF g.answer.status = "finished" THEN "over" ELSE "lobby")
                    /\ id = (IF g.answer.status = "gone" THEN 0 ELSE g.id)
      OBVIOUS
<1>3. /\ Show(to, id, store, gets \ {g}, missed \cup About(wire))
      /\ post' = Leave(post) /\ UNCHANGED room
      BY <1>1, <1>2 DEF GameElsewhere
<1>4. /\ page'.at = to /\ page'.id = id /\ socket' = "off" /\ wire' = <<>>
      /\ store' = (IF to = "lobby" THEN EmptyStore ELSE store)
      /\ gets' \subseteq {Leave(h) : h \in gets}
      BY <1>2, <1>3 DEF Show, Landing, Mounted, StoreOnMount, GetsOnMount
<1>5. to \in {"lobby", "over"} BY <1>2
<1>6. page'.at = "lobby" => Fresh' BY <1>4 DEF Fresh, EmptyStore
<1>7. store'.pano = store'.round BY <1>4 DEF EmptyStore, MatchInv, Places
<1>8. page'.at = "over" /\ page'.id = room.id => room.status \in {"finished", "gone"}
      BY <1>1, <1>2, <1>4 DEF MatchInv, Fetches
<1>9. Requests'
  <2>1. Fresh => Fresh' BY <1>4, <1>6 DEF Fresh
  <2> QED BY <1>0, <1>3, <1>4, <1>5, <2>1, LeavePost DEF MatchInv, Requests
<1> QED BY <1>3, <1>4, <1>5, <1>6, <1>7, <1>8, <1>9, OutsideStep

LEMMA GetAnsweredStep ==
  ASSUME MatchInv, MatchTypeOK', GetAnswered PROVE MatchInv'
BY RoomLoadedStep, RoomNotFoundStep, GameLoadedStep, GameElsewhereStep DEF GetAnswered

\* The answer of create or join takes the player into the room.
LEMMA EnterStep ==
  ASSUME MatchInv, MatchTypeOK', post' = Nil, UNCHANGED room,
         post # Nil, post.answer = "ok", post.op \in {"create", "join"},
         Show("room", post.id, [store EXCEPT !.map = post.id], gets, missed)
  PROVE  MatchInv'
<1>0. store \in Store /\ room \in RoomRecord BY DEF MatchInv, MatchTypeOK
<1>1. post.id = room.id /\ Fresh BY DEF MatchInv, Requests
<1>2. PICK st : st = [store EXCEPT !.map = post.id] OBVIOUS
<1>3. /\ st.map = post.id /\ st.status = "waiting" /\ st.round = 0 /\ st.pano = store.pano
      BY <1>0, <1>1, <1>2 DEF Store, Fresh
<1>4. Landing("room", st) = "room" BY <1>3 DEF Landing
<1>5. /\ store' = st /\ page'.at = "room" /\ page'.id = room.id /\ ~page'.loaded
      /\ socket' = "joining" /\ wire' = <<>> /\ DOMAIN wire' = {}
      /\ gets' = {Leave(g) : g \in gets} \cup {Get("room", room.id)}
      BY <1>1, <1>2, <1>3, <1>4 DEF Show, StoreOnMount, Mounted, GetsOnMount
<1>6. \A h \in gets' :
        \/ h = Get("room", room.id)
        \/ \E g \in gets : h.from = "left" /\ h.at = g.at /\ h.id = g.id /\ h.answer = g.answer
  <2>1. \A g \in gets : g \in GetRecord BY DEF MatchInv, MatchTypeOK
  <2>2. \A h \in gets' : h = Get("room", room.id) \/ \E g \in gets : h = Leave(g) BY <1>5
  <2> QED BY <2>1, <2>2, LeaveGet
<1>7. PICK n : n = Get("room", room.id) OBVIOUS
<1>8. n.at = "room" /\ n.id = room.id /\ n.from = "here" /\ n.answer = Nil BY <1>7 DEF Get
<1>9. Places' BY <1>1, <1>3, <1>5 DEF MatchInv, Places, Inside, Fresh
<1>10. Requests' BY DEF Requests
<1>11. Fetches' BY <1>5, <1>6, <1>7, <1>8 DEF MatchInv, Fetches
<1>12. Fetched' BY <1>5, <1>6, <1>7, <1>8 DEF Fetched
<1>13. Wires'
  <2>1. 0 <= room.round BY <1>0 DEF RoomRecord
  <2> QED BY <1>3, <1>5, <2>1 DEF Wires
<1>14. RoundShown' /\ Locked' /\ People' BY <1>5 DEF RoundShown, Locked, People
<1>15. MapKnown' BY <1>1, <1>3, <1>5 DEF MapKnown
<1> QED BY <1>9, <1>10, <1>11, <1>12, <1>13, <1>14, <1>15 DEF MatchInv

LEMMA PostAnsweredStep ==
  ASSUME MatchInv, MatchTypeOK', PostAnswered PROVE MatchInv'
<1>0. /\ post' = Nil /\ UNCHANGED room /\ Requests' /\ page \in Page
      /\ post # Nil => post \in PostRecord
      BY DEF PostAnswered, Requests, MatchInv, MatchTypeOK
<1>1. CASE StaysHere BY <1>0, <1>1, QuietStep DEF StaysHere
<1>2. CASE EnterAnswered /\ ~StaysHere
  <2>1. /\ post # Nil /\ post.answer # Nil /\ post.op \in {"create", "join"}
        /\ post.answer # "error"
        /\ Show("room", post.id, [store EXCEPT !.map = post.id], gets, missed)
        BY <1>2 DEF EnterAnswered, Answered, Dead
  <2>2. post.answer = "ok" BY <1>0, <2>1 DEF PostRecord
  <2> QED BY <1>0, <2>1, <2>2, EnterStep
<1>3. CASE StartAnswered
  <2>1. /\ page'.at = page.at /\ page'.id = page.id /\ page'.submitted = page.submitted
        /\ page'.loaded = page.loaded /\ page'.results = page.results
        BY <1>0, <1>3 DEF StartAnswered, Page
  <2> QED BY <1>0, <1>3, <2>1, QuietStep DEF StartAnswered
<1>4. CASE LeaveAnswered /\ ~StaysHere
  <2>1. Show("lobby", 0, store, gets, {}) BY <1>4 DEF LeaveAnswered
  <2>2. /\ page'.at = "lobby" /\ store' = EmptyStore /\ socket' = "off" /\ wire' = <<>>
        /\ gets' \subseteq {Leave(g) : g \in gets}
        BY <2>1 DEF Show, Landing, Mounted, StoreOnMount, GetsOnMount
  <2>3. Fresh' /\ store'.pano = store'.round BY <2>2 DEF Fresh, EmptyStore
  <2> QED BY <1>0, <2>2, <2>3, OutsideStep
<1>5. CASE GuessAnswered /\ ~StaysHere
  <2>1. /\ post # Nil /\ post.answer # Nil /\ post.op = "guess" /\ ~Dead /\ post.from # "left"
        /\ page' = [page EXCEPT !.submitted = TRUE]
        /\ missed' = missed \cup (IF post.round = store.round THEN {} ELSE {"answer"})
        /\ UNCHANGED <<store, socket, wire, gets>>
        BY <1>5 DEF GuessAnswered, Answered
  <2>2. post.answer = "ok" /\ post.from = "here" BY <1>0, <2>1 DEF PostRecord, Dead
  <2>3. /\ page'.at = page.at /\ page'.id = page.id /\ page'.loaded = page.loaded
        /\ page'.results = page.results
        BY <1>0, <2>1 DEF Page
  <2>4. Places' BY <1>0, <2>1, <2>3 DEF MatchInv, Places, Inside, Fresh
  <2>5. Fetches' BY <1>0, <2>1, <2>3 DEF MatchInv, Fetches, Fetching
  <2>6. Fetched' BY <1>0, <2>1 DEF MatchInv, Fetched
  <2>7. Wires' BY <1>0, <2>1, <2>3 DEF MatchInv, Wires, Inside
  <2>8. RoundShown' BY <1>0, <2>1, <2>3 DEF MatchInv, RoundShown
  <2>9. Locked'
    <3>1. room.status = "active" /\ post.round = room.round => room.guessed \/ Me \notin room.players
          BY <2>1, <2>2 DEF MatchInv, Requests
    <3> QED BY <1>0, <2>1, <3>1 DEF Locked
  <2>10. MapKnown' BY <1>0, <2>1, <2>3 DEF MatchInv, MapKnown, Inside
  <2>11. People' BY <1>0, <2>1, <2>3 DEF MatchInv, People
  <2> QED BY <1>0, <2>4, <2>5, <2>6, <2>7, <2>8, <2>9, <2>10, <2>11 DEF MatchInv
<1> QED BY <1>1, <1>2, <1>3, <1>4, <1>5 DEF PostAnswered

-----------------------------------------------------------------------------
(* Steps of the room server.                                               *)

\* An emitted event joins the wire of a joined socket, and goes past any other.
LEMMA EmitOne ==
  ASSUME MatchInv, room'.id = room.id, NEW e \in Event, Emit(<<e>>)
  PROVE  \/ /\ socket = "joined" /\ wire' = Append(wire, e)
            /\ missed' = missed \cup (IF Fetching /\ IsPlayers(e) THEN {"players"} ELSE {})
         \/ /\ socket # "joined" /\ wire = <<>> /\ wire' = <<>>
            /\ missed' = missed \cup (IF IsPlayers(e) THEN {"players"} ELSE {"round"})
<1>1. About(<<e>>) = IF IsPlayers(e) THEN {"players"} ELSE {"round"}
      BY DEF About, IsPlayers
<1>2. socket = "joined" => page.id = room'.id BY DEF MatchInv, Places, Inside
<1>3. socket # "joined" => wire = <<>> BY DEF MatchInv, Places
<1>4. wire \in Seq(Event) BY DEF MatchInv, MatchTypeOK
<1>5. wire \o <<e>> = Append(wire, e) BY <1>4
<1> QED BY <1>1, <1>2, <1>3, <1>5 DEF Emit

LEMMA EmitNone ==
  ASSUME MatchInv, Emit(<<>>)
  PROVE  wire' = wire /\ missed' = missed
<1>1. About(<<>>) = {} BY DEF About
<1>2. wire \in Seq(Event) BY DEF MatchInv, MatchTypeOK
<1>3. wire \o <<>> = wire BY <1>2
<1> QED BY <1>1, <1>3 DEF Emit

LEMMA EmitEnd ==
  ASSUME MatchInv, room'.id = room.id, NEW e \in Event, ~IsPlayers(e), Emit(<<Ended, e>>)
  PROVE  \/ /\ socket = "joined" /\ wire' = Append(Append(wire, Ended), e)
            /\ missed' = missed
         \/ /\ socket # "joined" /\ wire = <<>> /\ wire' = <<>>
            /\ missed' = missed \cup {"round"}
<1>1. About(<<Ended, e>>) = {"round"}
  <2>1. ~IsPlayers(Ended) BY EventKinds DEF IsPlayers
  <2>2. DOMAIN <<Ended, e>> = {1, 2} OBVIOUS
  <2> QED BY <2>1, <2>2 DEF About, IsPlayers
<1>2. socket = "joined" => page.id = room'.id BY DEF MatchInv, Places, Inside
<1>3. socket # "joined" => wire = <<>> BY DEF MatchInv, Places
<1>4. wire \in Seq(Event) /\ Ended \in Event BY EventKinds DEF MatchInv, MatchTypeOK
<1>5. wire \o <<Ended, e>> = Append(Append(wire, Ended), e) BY <1>4
<1> QED BY <1>1, <1>2, <1>3, <1>5 DEF Emit

\* A step of the server for a player outside the rooms: his room is another or goes on.
LEMMA ServedOutside ==
  ASSUME MatchInv, MatchTypeOK', page.at \in {"lobby", "over"},
         UNCHANGED <<store, page, socket, gets, wire>>, Requests',
         room'.status \in {"waiting", "gone"} <=> room'.round = 0,
         \/ room'.id = room.id /\ room'.status = room.status
         \/ page.id # room'.id /\ \A g \in gets : g.id # room'.id
  PROVE  MatchInv'
<1>1. ~Inside /\ wire = <<>> /\ DOMAIN wire = {} BY DEF MatchInv, Places, Inside
<1>2. Places' BY <1>1 DEF MatchInv, Places, Inside, Fresh
<1>3. Fetches' BY <1>1 DEF MatchInv, Fetches, Inside
<1>4. Fetched'
  <2>1. \A g \in gets : g.from = "here" => g.at # "room" BY DEF MatchInv, Fetches
  <2> QED BY <2>1 DEF Fetched
<1>5. Wires' BY <1>1 DEF Wires, Inside
<1>6. RoundShown' /\ Locked' /\ MapKnown' /\ People'
      BY <1>1 DEF RoundShown, Locked, MapKnown, People, Inside
<1> QED BY <1>2, <1>3, <1>4, <1>5, <1>6 DEF MatchInv

\* The answer "ok" that a request gets.
LEMMA OkFacts ==
  ASSUME MatchInv, post # Nil, NEW id \in 0..MaxRooms, Ok(id)
  PROVE  /\ post' # Nil /\ post'.op = post.op /\ post'.from = post.from
         /\ post'.round = post.round /\ post'.answer = "ok" /\ post'.id = id
<1>1. post \in PostRecord /\ MatchTypeOK BY DEF MatchInv, MatchTypeOK
<1>2. post' = [post EXCEPT !.answer = "ok", !.id = id] BY DEF Ok
<1>3. post' # Nil BY <1>1, OkTyped, NoRequestAssumption
<1> QED BY <1>1, <1>2, <1>3 DEF PostRecord

\* The guess that was taken stays taken when post is unchanged or is no guess.
LEMMA RequestsKept ==
  ASSUME MatchInv, UNCHANGED <<store, page>>, room'.id = room.id,
         \/ post' = post
         \/ post' # Nil /\ post'.op \in {"start", "leave"},
         room'.status = "active" /\ page.at = "game" =>
           \/ /\ room.status = "active" /\ room'.round = room.round
              /\ room.guessed \/ Me \notin room.players => room'.guessed \/ Me \notin room'.players
           \/ \A r \in 0..MatchRounds : r <= store.round => r # room'.round
  PROVE  Requests'
<1>1. CASE post' # Nil /\ post'.op \in {"start", "leave"} BY <1>1 DEF Requests
<1>2. CASE post' = post
  <2> SUFFICES ASSUME post # Nil
               PROVE  /\ post.op \in {"create", "join"} =>
                           /\ page.at \in {"lobby", "over"} /\ Fresh'
                           /\ post.answer = "ok" => post.id = room'.id
                      /\ post.op = "guess" /\ post.from = "here" =>
                           /\ page.at = "game" /\ post.round <= store.round
                           /\ post.answer = "ok" /\ room'.status = "active"
                                /\ post.round = room'.round =>
                                room'.guessed \/ Me \notin room'.players
      BY <1>2 DEF Requests
  <2>1. post.op \in {"create", "join"} =>
                           /\ page.at \in {"lobby", "over"} /\ Fresh'
                           /\ post.answer = "ok" => post.id = room'.id
        BY DEF MatchInv, Requests, Fresh
  <2>2. ASSUME post.op = "guess", post.from = "here"
        PROVE  /\ page.at = "game" /\ post.round <= store.round
               /\ post.answer = "ok" /\ room'.status = "active" /\ post.round = room'.round =>
                                room'.guessed \/ Me \notin room'.players
    <3>1. post.round \in 0..MatchRounds BY DEF MatchInv, MatchTypeOK, PostRecord
    <3>2. page.at = "game" /\ post.round <= store.round BY <2>2 DEF MatchInv, Requests
    <3>3. post.answer = "ok" /\ room.status = "active" /\ post.round = room.round =>
            room.guessed \/ Me \notin room.players
          BY <2>2 DEF MatchInv, Requests
    <3> QED BY <3>1, <3>2, <3>3
  <2> QED BY <2>1, <2>2
<1> QED BY <1>1, <1>2

\* The players of the room change, by one event, and with the last of them the room.
LEMMA PlayersChange ==
  ASSUME MatchInv, MatchTypeOK', UNCHANGED <<store, page, socket, gets>>, room'.id = room.id,
         NEW e \in Event, IsPlayers(e), Emit(<<e>>), Requests',
         \/ room'.status = room.status /\ room'.round = room.round
         \/ room'.status = "gone" /\ room'.round = 0,
         room'.status = "active" => (room.guessed \/ Me \notin room.players
                                       => room'.guessed \/ Me \notin room'.players),
         \A p \in Player : p \in room'.players <=>
           e = Joined(p) \/ (e # Left(p) /\ p \in room.players),
         e.is = "player_joined" => e.who \notin room.players
  PROVE  MatchInv'
<1>0. /\ wire \in Seq(Event) /\ wire' \in Seq(Event) /\ store \in Store /\ room \in RoomRecord
      /\ room' \in RoomRecord
      BY DEF MatchInv, MatchTypeOK
<1>1. \/ /\ socket = "joined" /\ wire' = Append(wire, e)
         /\ missed' = missed \cup (IF Fetching THEN {"players"} ELSE {})
      \/ /\ socket # "joined" /\ wire = <<>> /\ wire' = <<>>
         /\ missed' = missed \cup {"players"}
      BY EmitOne
<1>2. /\ "players" \notin missed' => /\ "players" \notin missed /\ ~Fetching
                                     /\ wire' = Append(wire, e)
      /\ "round" \in missed' <=> "round" \in missed
      /\ "map" \in missed' <=> "map" \in missed
      /\ "answer" \in missed' <=> "answer" \in missed
      BY <1>1
<1>3. Len(wire) \in Nat /\ DOMAIN wire = 1..Len(wire) BY <1>0
<1>4. /\ \A i \in DOMAIN wire : i \in DOMAIN wire' /\ wire'[i] = wire[i]
      /\ \A i \in DOMAIN wire' : i \in DOMAIN wire \/ (IsPlayers(wire'[i]) /\ i \notin DOMAIN wire)
      BY <1>0, <1>1, <1>3
<1>5. Places' BY <1>1, <1>0 DEF MatchInv, Places, Inside, Fresh
<1>6. Fetches' BY DEF MatchInv, Fetches, Fetching
<1>7. Fetched' BY <1>2 DEF Fetched, Fetching
<1>8. Wires'
  <2>1. \A i \in DOMAIN wire' : wire'[i].is = "round_ended" =>
          i + 1 \in DOMAIN wire' /\ wire'[i + 1].is \in {"round_started", "game_ended"}
    <3> SUFFICES ASSUME NEW i \in DOMAIN wire', wire'[i].is = "round_ended"
                 PROVE  i + 1 \in DOMAIN wire' /\ wire'[i + 1].is \in {"round_started", "game_ended"}
        OBVIOUS
    <3>1. i \in DOMAIN wire /\ wire[i].is = "round_ended" BY <1>4 DEF IsPlayers
    <3>2. i + 1 \in DOMAIN wire /\ wire[i + 1].is \in {"round_started", "game_ended"}
          BY <3>1 DEF MatchInv, Wires
    <3> QED BY <1>4, <3>2
  <2>2. ASSUME NEW i \in DOMAIN wire', IsStart(wire'[i])
        PROVE  /\ store.round < wire'[i].round
               /\ room'.status # "gone" => wire'[i].round <= room'.round
               /\ \A j \in DOMAIN wire' : i < j /\ IsStart(wire'[j]) => wire'[i].round < wire'[j].round
               /\ (\A j \in DOMAIN wire' : i < j => IsPlayers(wire'[j])) =>
                    /\ room'.status \in {"active", "gone"}
                    /\ room'.status = "active" => room'.round = wire'[i].round
    <3>1. i \in DOMAIN wire /\ wire'[i] = wire[i] /\ IsStart(wire[i])
          BY <1>4, <2>2 DEF IsPlayers, IsStart
    <3>2. /\ store.round < wire[i].round
          /\ room.status # "gone" => wire[i].round <= room.round
          /\ \A j \in DOMAIN wire : i < j /\ IsStart(wire[j]) => wire[i].round < wire[j].round
          /\ (\A j \in DOMAIN wire : i < j => IsPlayers(wire[j])) =>
               /\ room.status \in {"active", "gone"}
               /\ room.status = "active" => room.round = wire[i].round
          BY <3>1 DEF MatchInv, Wires
    <3>3. \A j \in DOMAIN wire' : IsStart(wire'[j]) => j \in DOMAIN wire /\ wire'[j] = wire[j]
          BY <1>4 DEF IsPlayers, IsStart
    <3>4. (\A j \in DOMAIN wire' : i < j => IsPlayers(wire'[j])) =>
            \A j \in DOMAIN wire : i < j => IsPlayers(wire[j])
          BY <1>4
    <3> QED BY <3>1, <3>2, <3>3, <3>4
  <2>3. \A i \in DOMAIN wire' : wire'[i].is = "game_ended" => room'.status \in {"finished", "gone"}
    <3>1. \A i \in DOMAIN wire' : wire'[i].is = "game_ended" => i \in DOMAIN wire /\ wire'[i] = wire[i]
          BY <1>4 DEF IsPlayers
    <3> QED BY <3>1 DEF MatchInv, Wires
  <2>4. Inside /\ room'.status # "gone" => store.round <= room'.round
        BY DEF MatchInv, Wires
  <2> QED BY <2>1, <2>2, <2>3, <2>4 DEF Wires, Inside
<1>9. RoundShown'
  <2>1. (\A i \in DOMAIN wire' : IsPlayers(wire'[i])) => \A i \in DOMAIN wire : IsPlayers(wire[i])
        BY <1>4
  <2> QED BY <1>2, <2>1 DEF MatchInv, RoundShown
<1>10. Locked' BY <1>2 DEF MatchInv, Locked
<1>11. MapKnown' BY <1>2 DEF MatchInv, MapKnown, Inside
<1>12. People'
  <2> SUFFICES ASSUME page.at = "room", page.loaded, "players" \notin missed'
               PROVE  Follows(store.players, wire', room'.players)
      BY DEF People
  <2>1. PICK ps, es, set, new : ps = store.players /\ es = wire /\ set = room.players
                                /\ new = room'.players
        OBVIOUS
  <2>2. Follows(ps, es, set) BY <1>2, <2>1 DEF MatchInv, People
  <2>3. Follows(ps, Append(es, e), new) BY <1>0, <2>1, <2>2, FollowsAppend
  <2> QED BY <1>2, <2>1, <2>3
<1> QED BY <1>5, <1>6, <1>7, <1>8, <1>9, <1>10, <1>11, <1>12 DEF MatchInv

\* A player leaves.
LEMMA WithoutStep ==
  ASSUME MatchInv, MatchTypeOK', UNCHANGED <<store, page, socket, gets>>,
         NEW p \in Player, room' = Without(p), Emit(<<Left(p)>>),
         post' = post \/ (post' # Nil /\ post'.op \in {"start", "leave"})
  PROVE  MatchInv'
<1>0. room \in RoomRecord /\ room.players \subseteq Player /\ store \in Store
      BY DEF MatchInv, MatchTypeOK, RoomRecord
<1>1. Left(p) \in Event /\ IsPlayers(Left(p)) /\ Left(p).is = "player_left" BY EventKinds DEF IsPlayers
<1>2. PICK ps : ps = room.players \ {p} OBVIOUS
<1>3. /\ room'.id = room.id /\ room'.players = ps
      /\ \/ room'.status = "gone" /\ room'.round = 0 /\ ps = {}
         \/ /\ room'.status = room.status /\ room'.round = room.round
            /\ room'.guessed = (room.guessed /\ p # Me)
  <2>1. CASE ps = {} BY <1>2, <2>1 DEF Without, NoRoom
  <2>2. CASE ps # {}
    <3>1. PICK q : q = CHOOSE x \in ps : TRUE OBVIOUS
    <3>2. room' = [room EXCEPT !.players = ps, !.guessed = @ /\ p # Me,
                               !.host = IF @ = p THEN q ELSE @]
          BY <1>2, <2>2, <3>1 DEF Without
    <3> QED BY <1>0, <3>2 DEF RoomRecord
  <2> QED BY <2>1, <2>2
<1>4. \/ room'.status = room.status /\ room'.round = room.round
      \/ room'.status = "gone" /\ room'.round = 0
      BY <1>3
<1>5. room.guessed \/ Me \notin room.players => room'.guessed \/ Me \notin room'.players
      BY <1>2, <1>3
<1>6. \A q \in Player : q \in room'.players <=>
         Left(p) = Joined(q) \/ (Left(p) # Left(q) /\ q \in room.players)
  <2>1. \A q : Left(p) # Joined(q) /\ (Left(p) = Left(q) <=> p = q) BY DEF Left, Joined
  <2> QED BY <1>2, <1>3, <2>1
<1>7. Requests' BY <1>3, <1>5, RequestsKept
<1> QED BY <1>1, <1>3, <1>4, <1>5, <1>6, <1>7, PlayersChange

\* A player joins whom the room does not have.
LEMMA JoinsStep ==
  ASSUME MatchInv, MatchTypeOK', UNCHANGED <<store, page, socket, gets>>,
         NEW p \in Player, p \notin room.players,
         room' = [room EXCEPT !.players = @ \cup {p}], Emit(<<Joined(p)>>), Requests',
         room.status = "waiting"
  PROVE  MatchInv'
<1>0. room \in RoomRecord /\ room.players \subseteq Player
      BY DEF MatchInv, MatchTypeOK, RoomRecord
<1>1. /\ Joined(p) \in Event /\ IsPlayers(Joined(p)) /\ Joined(p).who = p
      BY EventKinds DEF IsPlayers
<1>2. /\ room'.id = room.id /\ room'.players = room.players \cup {p}
      /\ room'.status = room.status /\ room'.round = room.round /\ room'.guessed = room.guessed
      BY <1>0 DEF RoomRecord
<1>4. \A q \in Player : q \in room'.players <=>
         Joined(p) = Joined(q) \/ (Joined(p) # Left(q) /\ q \in room.players)
  <2>1. \A q : Joined(p) # Left(q) /\ (Joined(p) = Joined(q) <=> p = q) BY DEF Left, Joined
  <2> QED BY <1>2, <2>1
<1> QED BY <1>1, <1>2, <1>4, PlayersChange

\* The match begins: nobody plays it yet.
LEMMA BeginStep ==
  ASSUME MatchInv, MatchTypeOK', UNCHANGED <<store, page, socket, gets>>, Begin,
         post' = post \/ (post' # Nil /\ post'.op \in {"start", "leave"})
  PROVE  MatchInv'
<1>0. /\ room \in RoomRecord /\ store \in Store /\ wire \in Seq(Event) /\ wire' \in Seq(Event)
      /\ 1 \in 1..MatchRounds /\ room.status = "waiting" /\ Emit(<<Started(1)>>)
      /\ room.round = 0
      BY MatchAssumption DEF MatchInv, MatchTypeOK, Begin, Places
<1>1. PICK e : e = Started(1) OBVIOUS
<1>2. /\ e \in Event /\ e.is = "round_started" /\ e.round = 1 /\ ~IsPlayers(e) /\ IsStart(e)
      BY <1>0, <1>1, EventKinds DEF IsPlayers, IsStart
<1>3. /\ room'.id = room.id /\ room'.players = room.players /\ room'.status = "active"
      /\ room'.round = 1
      BY <1>0 DEF Begin, RoomRecord
<1>4. \/ /\ socket = "joined" /\ wire' = Append(wire, e) /\ missed' = missed
      \/ /\ socket # "joined" /\ wire = <<>> /\ wire' = <<>>
         /\ missed' = missed \cup {"round"}
      BY <1>0, <1>1, <1>2, <1>3, EmitOne
<1>5. /\ "players" \in missed' <=> "players" \in missed
      /\ "map" \in missed' <=> "map" \in missed
      BY <1>4
<1>6. Len(wire) \in Nat /\ DOMAIN wire = 1..Len(wire) BY <1>0
<1>7. /\ \A i \in DOMAIN wire : i \in DOMAIN wire' /\ wire'[i] = wire[i]
      /\ \A i \in DOMAIN wire' : i \in DOMAIN wire \/ wire'[i] = e
      BY <1>0, <1>4, <1>6
<1>8. page.at # "game" /\ (Inside => page.at = "room")
      BY <1>0 DEF MatchInv, Places, Inside
<1>9. Requests' BY <1>3, <1>8, RequestsKept
<1>10. Places' BY <1>0, <1>3, <1>4, <1>8 DEF MatchInv, Places, Inside, Fresh
<1>11. Fetches' BY <1>0, <1>3 DEF MatchInv, Fetches, Fetching
<1>12. Fetched' BY <1>2, <1>3, <1>5, <1>7 DEF MatchInv, Fetched
<1>13. Wires'
  <2>1. \A i \in DOMAIN wire' : wire'[i].is = "round_ended" =>
          i + 1 \in DOMAIN wire' /\ wire'[i + 1].is \in {"round_started", "game_ended"}
    <3> SUFFICES ASSUME NEW i \in DOMAIN wire', wire'[i].is = "round_ended"
                 PROVE  i + 1 \in DOMAIN wire' /\ wire'[i + 1].is \in {"round_started", "game_ended"}
        OBVIOUS
    <3>1. i \in DOMAIN wire /\ wire[i].is = "round_ended" BY <1>2, <1>7
    <3>2. i + 1 \in DOMAIN wire /\ wire[i + 1].is \in {"round_started", "game_ended"}
          BY <3>1 DEF MatchInv, Wires
    <3> QED BY <1>7, <3>2
  <2>2. \A i \in DOMAIN wire : ~IsStart(wire[i])
    <3> SUFFICES ASSUME NEW i \in DOMAIN wire, IsStart(wire[i]) PROVE FALSE OBVIOUS
    <3>1. store.round < wire[i].round /\ wire[i].round <= room.round
          BY <1>0 DEF MatchInv, Wires
    <3>2. wire[i] \in Event /\ wire[i].is = "round_started" BY <1>0 DEF IsStart
    <3>3. wire[i].round \in 1..MatchRounds BY <3>2, EventFields
    <3> QED BY <1>0, <3>1, <3>3 DEF Store
  <2>3. \A i \in DOMAIN wire' : IsStart(wire'[i]) => wire'[i] = e /\ i = Len(wire) + 1
        BY <1>0, <1>4, <1>6, <1>7, <2>2
  <2>4. Inside => store.round <= 0 BY <1>0 DEF MatchInv, Wires
  <2>5. wire' # <<>> => Inside BY <1>4 DEF MatchInv, Places
  <2>6. ASSUME NEW i \in DOMAIN wire', IsStart(wire'[i])
        PROVE  /\ store.round < wire'[i].round
               /\ room'.status # "gone" => wire'[i].round <= room'.round
               /\ \A j \in DOMAIN wire' : i < j /\ IsStart(wire'[j]) => wire'[i].round < wire'[j].round
               /\ (\A j \in DOMAIN wire' : i < j => IsPlayers(wire'[j])) =>
                    /\ room'.status \in {"active", "gone"}
                    /\ room'.status = "active" => room'.round = wire'[i].round
    <3>1. wire'[i].round = 1 /\ Inside BY <1>2, <2>3, <2>5, <2>6
    <3>2. \A j \in DOMAIN wire' : IsStart(wire'[j]) => ~(i < j) BY <1>6, <2>3, <2>6
    <3> QED BY <1>0, <1>3, <2>4, <3>1, <3>2 DEF Store
  <2>7. \A i \in DOMAIN wire' : wire'[i].is # "game_ended"
    <3>1. \A i \in DOMAIN wire : wire[i].is # "game_ended" BY <1>0 DEF MatchInv, Wires
    <3> QED BY <1>2, <1>7, <3>1
  <2>8. Inside => store.round <= room'.round BY <1>0, <1>3, <2>4 DEF Store
  <2> QED BY <2>1, <2>6, <2>7, <2>8 DEF Wires, Inside
<1>14. RoundShown' /\ Locked' BY <1>8 DEF RoundShown, Locked
<1>15. MapKnown' BY <1>5 DEF MatchInv, MapKnown, Inside
<1>16. People'
  <2> SUFFICES ASSUME page.at = "room", page.loaded, "players" \notin missed'
               PROVE  Follows(store.players, wire', room'.players)
      BY DEF People
  <2>1. PICK ps, es, set : ps = store.players /\ es = wire /\ set = room.players OBVIOUS
  <2>2. Follows(ps, es, set) BY <1>5, <2>1 DEF MatchInv, People
  <2>3. \A p : e # Joined(p) /\ e # Left(p) BY <1>2, EventKinds
  <2>4. Follows(ps, Append(es, e), set) BY <1>0, <1>2, <2>1, <2>2, <2>3, FollowsAppend
  <2> QED BY <1>3, <1>4, <2>1, <2>2, <2>4
<1> QED BY <1>9, <1>10, <1>11, <1>12, <1>13, <1>14, <1>15, <1>16 DEF MatchInv

\* A round is closed: the next one starts, or the match is over.
LEMMA CloseRoundStep ==
  ASSUME MatchInv, MatchTypeOK', UNCHANGED <<store, page, socket, gets, post>>, CloseRound
  PROVE  MatchInv'
<1>0. /\ room \in RoomRecord /\ store \in Store /\ wire \in Seq(Event) /\ wire' \in Seq(Event)
      /\ room.status = "active" /\ room.round \in 1..MatchRounds
      BY MatchAssumption DEF MatchInv, MatchTypeOK, CloseRound, Places, RoomRecord
<1>1. PICK r : r = room.round + 1 OBVIOUS
<1>2. PICK e : /\ e \in Event /\ Emit(<<Ended, e>>)
               /\ \/ /\ e.is = "round_started" /\ e.round = r
                     /\ room' = [room EXCEPT !.round = r, !.guessed = FALSE]
                  \/ /\ e.is = "game_ended"
                     /\ room' = [room EXCEPT !.status = "finished", !.guessed = FALSE]
  <2>1. CASE room.round < MatchRounds
    <3>1. r \in 1..MatchRounds BY <1>0, <1>1, <2>1, MatchAssumption
    <3>2. Started(r) \in Event /\ Started(r).is = "round_started" /\ Started(r).round = r
          BY <3>1, EventKinds
    <3> QED BY <1>1, <2>1, <3>2 DEF CloseRound
  <2>2. CASE ~(room.round < MatchRounds) BY <2>2, EventKinds DEF CloseRound
  <2> QED BY <2>1, <2>2
<1>3. ~IsPlayers(e) /\ ~IsPlayers(Ended) /\ Ended.is = "round_ended" /\ Ended \in Event
      BY <1>2, EventKinds DEF IsPlayers
<1>4. /\ room'.id = room.id /\ room'.players = room.players
      /\ \/ e.is = "round_started" /\ e.round = r /\ room'.status = "active" /\ room'.round = r
         \/ e.is = "game_ended" /\ room'.status = "finished" /\ room'.round = room.round
      BY <1>0, <1>2 DEF RoomRecord
<1>5. \/ /\ socket = "joined" /\ wire' = Append(Append(wire, Ended), e) /\ missed' = missed
      \/ /\ socket # "joined" /\ wire = <<>> /\ wire' = <<>>
         /\ missed' = missed \cup {"round"}
      BY <1>2, <1>3, <1>4, EmitEnd
<1>6. /\ "players" \in missed' <=> "players" \in missed
      /\ "map" \in missed' <=> "map" \in missed
      BY <1>5
<1>7. PICK n : n = Len(wire) OBVIOUS
<1>8. /\ n \in Nat /\ DOMAIN wire = 1..n
      /\ \A i \in 1..n : i \in DOMAIN wire' /\ wire'[i] = wire[i]
      /\ \A i \in DOMAIN wire' : \/ i \in 1..n
                                 \/ i = n + 1 /\ wire'[i] = Ended
                                 \/ i = n + 2 /\ wire'[i] = e
      /\ wire' # <<>> => /\ n + 1 \in DOMAIN wire' /\ wire'[n + 1] = Ended
                         /\ n + 2 \in DOMAIN wire' /\ wire'[n + 2] = e
  <2>1. n \in Nat /\ DOMAIN wire = 1..n BY <1>0, <1>7
  <2>2. CASE wire' = <<>> /\ wire = <<>> BY <1>7, <2>1, <2>2
  <2>3. CASE wire' = Append(Append(wire, Ended), e)
    <3>1. DOMAIN wire' = 1..(n + 2) /\ wire'[n + 1] = Ended /\ wire'[n + 2] = e
          /\ \A i \in 1..n : wire'[i] = wire[i]
          BY <1>0, <1>2, <1>3, <1>7, <2>1, <2>3
    <3> QED BY <2>1, <3>1
  <2> QED BY <1>5, <2>2, <2>3
<1>9. Inside => store.round <= room.round BY <1>0 DEF MatchInv, Wires
<1>10. Requests'
  <2>1. page.at = "game" => store.round <= room.round BY <1>9 DEF Inside
  <2>2. room'.status = "active" => room'.round = room.round + 1 BY <1>1, <1>4
  <2>3. room'.status = "active" /\ page.at = "game" =>
          \A k \in 0..MatchRounds : k <= store.round => k # room'.round
        BY <1>0, <2>1, <2>2 DEF Store
  <2> QED BY <1>4, <2>3, RequestsKept
<1>11. Places'
  <2>1. page.at = "over" => page.id # room.id BY <1>0 DEF MatchInv, Places
  <2>2. wire' # <<>> => socket = "joined" BY <1>5
  <2>3. room'.status \in {"active", "finished"} /\ room'.round # 0 BY <1>0, <1>1, <1>4
  <2> QED BY <1>4, <2>1, <2>2, <2>3 DEF MatchInv, Places, Inside, Fresh
<1>12. Fetches' BY <1>0, <1>4 DEF MatchInv, Fetches, Fetching
<1>13. Fetched'
  <2>1. (\A i \in DOMAIN wire : ~IsPlayers(wire[i])) => \A i \in DOMAIN wire' : ~IsPlayers(wire'[i])
        BY <1>3, <1>8
  <2> QED BY <1>4, <1>6, <2>1 DEF MatchInv, Fetched
<1>14. Wires'
  <2>1. \A i \in DOMAIN wire' : wire'[i].is = "round_ended" =>
          i + 1 \in DOMAIN wire' /\ wire'[i + 1].is \in {"round_started", "game_ended"}
    <3> SUFFICES ASSUME NEW i \in DOMAIN wire', wire'[i].is = "round_ended"
                 PROVE  i + 1 \in DOMAIN wire' /\ wire'[i + 1].is \in {"round_started", "game_ended"}
        OBVIOUS
    <3>1. CASE i \in 1..n
      <4>1. i + 1 \in DOMAIN wire /\ wire[i + 1].is \in {"round_started", "game_ended"}
            BY <1>8, <3>1 DEF MatchInv, Wires
      <4> QED BY <1>8, <4>1
    <3>2. CASE i = n + 1
      <4>1. wire' # <<>> /\ (n + 1) + 1 = n + 2 BY <1>8
      <4> QED BY <1>4, <1>8, <3>2, <4>1
    <3>3. CASE wire'[i] = e BY <1>4, <3>3
    <3> QED BY <1>8, <3>1, <3>2, <3>3
  <2>2. \A i \in 1..n : IsStart(wire[i]) => wire[i].round \in Nat /\ wire[i].round <= room.round
    <3> SUFFICES ASSUME NEW i \in 1..n, IsStart(wire[i])
                 PROVE  wire[i].round \in Nat /\ wire[i].round <= room.round
        OBVIOUS
    <3>1. wire[i] \in Event /\ wire[i].is = "round_started" BY <1>0, <1>8 DEF IsStart
    <3>2. wire[i].round \in 1..MatchRounds BY <3>1, EventFields
    <3> QED BY <1>0, <1>8, <3>2 DEF MatchInv, Wires
  <2>3. wire' # <<>> => Inside BY <1>5 DEF MatchInv, Places
  <2>4. ASSUME NEW i \in DOMAIN wire', IsStart(wire'[i])
        PROVE  /\ store.round < wire'[i].round
               /\ room'.status # "gone" => wire'[i].round <= room'.round
               /\ \A j \in DOMAIN wire' : i < j /\ IsStart(wire'[j]) => wire'[i].round < wire'[j].round
               /\ (\A j \in DOMAIN wire' : i < j => IsPlayers(wire'[j])) =>
                    /\ room'.status \in {"active", "gone"}
                    /\ room'.status = "active" => room'.round = wire'[i].round
    <3>0. room'.round \in Nat /\ room.round <= room'.round BY <1>0, <1>1, <1>4
    <3>1. CASE i \in 1..n
      <4>1. wire'[i] = wire[i] /\ IsStart(wire[i]) BY <1>8, <2>4, <3>1
      <4>2. /\ store.round < wire[i].round
            /\ \A j \in 1..n : i < j /\ IsStart(wire[j]) => wire[i].round < wire[j].round
            BY <1>8, <3>1, <4>1 DEF MatchInv, Wires
      <4>3. wire[i].round \in Nat /\ wire[i].round <= room.round BY <2>2, <3>1, <4>1
      <4>4. \A j \in DOMAIN wire' : IsStart(wire'[j]) /\ j \notin 1..n => wire'[j].round = room.round + 1
            BY <1>1, <1>3, <1>4, <1>8 DEF IsStart
      <4>5. \A j \in DOMAIN wire' : i < j /\ IsStart(wire'[j]) => wire'[i].round < wire'[j].round
            BY <1>0, <1>8, <4>1, <4>2, <4>3, <4>4
      <4>6. ~ \A j \in DOMAIN wire' : i < j => IsPlayers(wire'[j])
        <5>1. n + 1 \in DOMAIN wire' /\ i < n + 1 /\ ~IsPlayers(wire'[n + 1])
              BY <1>3, <1>8, <3>1
        <5> QED BY <5>1
      <4>7. wire'[i].round <= room'.round BY <1>0, <3>0, <4>1, <4>3
      <4> QED BY <4>1, <4>2, <4>5, <4>6, <4>7
    <3>2. CASE i \notin 1..n
      <4>1. /\ i = n + 2 /\ wire'[i] = e /\ e.is = "round_started" /\ e.round = r
            /\ room'.status = "active" /\ room'.round = r
            BY <1>3, <1>4, <1>8, <2>4, <3>2 DEF IsStart
      <4>2. \A j \in DOMAIN wire' : ~(i < j) BY <1>8, <4>1
      <4>3. store.round < r BY <1>0, <1>1, <1>9, <2>3 DEF Store
      <4>4. r <= r BY <1>0, <1>1
      <4> QED BY <4>1, <4>2, <4>3, <4>4
    <3> QED BY <3>1, <3>2
  <2>5. \A i \in DOMAIN wire' : wire'[i].is = "game_ended" => room'.status \in {"finished", "gone"}
    <3>1. \A i \in 1..n : wire[i].is # "game_ended" BY <1>0, <1>8 DEF MatchInv, Wires
    <3> QED BY <1>3, <1>4, <1>8, <3>1
  <2>6. Inside => store.round <= room'.round BY <1>0, <1>1, <1>4, <1>9 DEF Store
  <2> QED BY <2>1, <2>4, <2>5, <2>6 DEF Wires, Inside
<1>15. RoundShown'
  <2>1. "round" \notin missed' => wire' # <<>> BY <1>5
  <2>2. wire' # <<>> => ~ \A i \in DOMAIN wire' : IsPlayers(wire'[i]) BY <1>3, <1>8
  <2> QED BY <2>1, <2>2 DEF MatchInv, RoundShown
<1>16. Locked'
  <2> SUFFICES ASSUME page.at = "game", room'.status = "active" PROVE store.round # room'.round
      BY DEF Locked
  <2>1. store.round <= room.round /\ room'.round = room.round + 1
        BY <1>1, <1>4, <1>9 DEF Inside
  <2> QED BY <1>0, <2>1 DEF Store
<1>17. MapKnown' BY <1>6 DEF MatchInv, MapKnown, Inside
<1>18. People'
  <2> SUFFICES ASSUME page.at = "room", page.loaded, "players" \notin missed'
               PROVE  Follows(store.players, wire', room'.players)
      BY DEF People
  <2>1. PICK ps, es, set : ps = store.players /\ es = wire /\ set = room.players OBVIOUS
  <2>2. Follows(ps, es, set) BY <1>6, <2>1 DEF MatchInv, People
  <2>3. \A p : e # Joined(p) /\ e # Left(p) /\ Ended # Joined(p) /\ Ended # Left(p)
        BY <1>3, EventKinds DEF IsPlayers
  <2>4. PICK fs : fs = Append(es, Ended) OBVIOUS
  <2>5. Follows(ps, fs, set) BY <1>0, <1>3, <2>1, <2>2, <2>3, <2>4, FollowsAppend
  <2>6. fs \in Seq(Event) BY <1>0, <1>3, <2>1, <2>4
  <2>7. e.is # "player_joined" BY <1>3 DEF IsPlayers
  <2>8. Follows(ps, Append(fs, e), set) BY <1>2, <2>3, <2>5, <2>6, <2>7, FollowsAppend
  <2> QED BY <1>4, <1>5, <2>1, <2>2, <2>4, <2>8
<1> QED BY <1>10, <1>11, <1>12, <1>13, <1>14, <1>15, <1>16, <1>17, <1>18 DEF MatchInv

\* The answer to create or join: the player is outside, of whatever room it is.
LEMMA EntryServed ==
  ASSUME MatchInv, MatchTypeOK', UNCHANGED <<store, page, socket, gets>>,
         post # Nil, post.op \in {"create", "join"}, NEW es, Emit(es), Ok(room'.id),
         room'.status \in {"waiting", "gone"} <=> room'.round = 0,
         \/ room'.id = room.id /\ room'.status = room.status
         \/ page.id # room'.id /\ \A g \in gets : g.id # room'.id
  PROVE  MatchInv'
<1>1. page.at \in {"lobby", "over"} /\ Fresh BY DEF MatchInv, Requests
<1>2. socket # "joined" BY <1>1 DEF MatchInv, Places, Inside
<1>3. wire' = wire BY <1>2 DEF Emit
<1>4. room'.id \in 0..MaxRooms BY DEF MatchTypeOK, RoomRecord
<1>5. PICK id : id = room'.id OBVIOUS
<1>6. /\ post'.op = post.op /\ post'.answer = "ok" /\ post'.id = room'.id
      BY <1>4, <1>5, OkFacts
<1>7. Requests' BY <1>1, <1>6 DEF Requests, Fresh
<1> QED BY <1>1, <1>3, <1>7, ServedOutside

LEMMA NewRoomStep ==
  ASSUME MatchInv, MatchTypeOK', UNCHANGED <<store, page, socket, gets>>,
         post # Nil, post.op \in {"create", "join"}, NEW h, NewRoom(h), NEW es, Emit(es)
  PROVE  MatchInv'
<1>1. PICK id \in 1..MaxRooms :
        /\ page.id # id /\ \A g \in gets : g.id # id
        /\ room' = [NoRoom(id) EXCEPT !.host = h, !.players = {h, Me}, !.status = "waiting"]
        /\ Ok(id)
      BY DEF NewRoom
<1>2. room'.id = id /\ room'.status = "waiting" /\ room'.round = 0 BY <1>1 DEF NoRoom
<1>3. Ok(room'.id) BY <1>1, <1>2
<1> QED BY <1>1, <1>2, <1>3, EntryServed

LEMMA ServeStep ==
  ASSUME MatchInv, MatchTypeOK', Serve PROVE MatchInv'
<1>0. /\ room \in RoomRecord /\ room.id \in 0..MaxRooms /\ Me \in Player
      /\ UNCHANGED <<store, page, socket, gets>>
      BY DEF MatchInv, MatchTypeOK, RoomRecord, Player, Serve
<1>1. CASE Create BY <1>0, <1>1, NewRoomStep DEF Create, Asked
<1>2. CASE Join
  <2>1. post # Nil /\ post.op \in {"create", "join"} BY <1>2 DEF Join, Asked
  <2>2. CASE (\E h \in Other : NewRoom(h)) /\ Emit(<<Joined(Me)>>)
        BY <1>0, <2>1, <2>2, NewRoomStep
  <2>3. CASE /\ room.status = "waiting" /\ Ok(room.id)
             /\ room' = [room EXCEPT !.players = @ \cup {Me}]
             /\ Emit(IF Me \in room.players THEN <<>> ELSE <<Joined(Me)>>)
    <3>1. room'.id = room.id /\ room'.status = room.status /\ room'.round = room.round
          BY <1>0, <2>3 DEF RoomRecord
    <3>2. room'.status \in {"waiting", "gone"} <=> room'.round = 0
          BY <3>1 DEF MatchInv, Places
    <3>3. Ok(room'.id) BY <2>3, <3>1
    <3>4. PICK es : es = IF Me \in room.players THEN <<>> ELSE <<Joined(Me)>> OBVIOUS
    <3>5. Emit(es) BY <2>3, <3>4
    <3> QED BY <1>0, <2>1, <3>1, <3>2, <3>3, <3>5, EntryServed
  <2> QED BY <1>2, <2>2, <2>3 DEF Join
<1>3. CASE Start
  <2>1. post # Nil /\ post.op = "start" /\ Begin /\ Ok(room.id) BY <1>3 DEF Start, Asked
  <2>2. post' # Nil /\ post'.op = "start" BY <1>0, <2>1, OkFacts
  <2> QED BY <1>0, <2>1, <2>2, BeginStep
<1>4. CASE LeaveServed
  <2>1. post # Nil /\ post.op = "leave" /\ Ok(room.id) /\ room' = Without(Me) /\ Emit(<<Left(Me)>>)
        BY <1>4 DEF LeaveServed, Asked
  <2>2. post' # Nil /\ post'.op = "leave" BY <1>0, <2>1, OkFacts
  <2> QED BY <1>0, <2>1, <2>2, WithoutStep
<1>5. CASE Guess
  <2>1. /\ post # Nil /\ post.op = "guess" /\ Ok(room.id) /\ room.status = "active"
        /\ room' = [room EXCEPT !.guessed = TRUE] /\ Emit(<<>>)
        BY <1>5 DEF Guess, Asked, MayGuess
  <2>2. /\ post' # Nil /\ post'.op = "guess" /\ post'.from = post.from
        /\ post'.round = post.round
        BY <1>0, <2>1, OkFacts
  <2>3. /\ room'.id = room.id /\ room'.status = room.status /\ room'.round = room.round
        /\ room'.players = room.players /\ room'.guessed
        BY <1>0, <2>1 DEF RoomRecord
  <2>4. wire' = wire /\ missed' = missed BY <2>1, EmitNone
  <2>5. Requests' BY <1>0, <2>1, <2>2, <2>3 DEF MatchInv, Requests
  <2>6. Places' BY <1>0, <2>3, <2>4 DEF MatchInv, Places, Inside, Fresh
  <2>7. Fetches' BY <1>0, <2>3 DEF MatchInv, Fetches, Fetching
  <2>8. Fetched' BY <1>0, <2>3, <2>4 DEF MatchInv, Fetched
  <2>9. Wires' BY <1>0, <2>3, <2>4 DEF MatchInv, Wires, Inside
  <2>10. RoundShown' BY <1>0, <2>3, <2>4 DEF MatchInv, RoundShown
  <2>11. Locked' BY <2>3 DEF Locked
  <2>12. MapKnown' BY <1>0, <2>4 DEF MatchInv, MapKnown, Inside
  <2>13. People' BY <1>0, <2>3, <2>4 DEF MatchInv, People
  <2> QED BY <2>5, <2>6, <2>7, <2>8, <2>9, <2>10, <2>11, <2>12, <2>13 DEF MatchInv
<1>6. CASE Refuse
  <2>1. post \in PostRecord /\ post' = [post EXCEPT !.answer = "error"]
        BY <1>6 DEF Refuse, MatchInv, MatchTypeOK
  <2>2. /\ post'.op = post.op /\ post'.answer = "error" /\ post'.from = post.from
        /\ post'.round = post.round
        BY <2>1 DEF PostRecord
  <2>3. post # Nil BY <1>6 DEF Refuse
  <2>4. UNCHANGED <<room, wire, missed>> BY <1>6 DEF Refuse
  <2>5. Requests' BY <1>0, <2>2, <2>3, <2>4 DEF MatchInv, Requests, Fresh
  <2> QED BY <1>0, <2>4, <2>5, QuietStep
<1> QED BY <1>1, <1>2, <1>3, <1>4, <1>5, <1>6 DEF Serve

LEMMA RoomActsStep ==
  ASSUME MatchInv, MatchTypeOK', RoomActs PROVE MatchInv'
<1>0. /\ room \in RoomRecord /\ Other \subseteq Player
      /\ UNCHANGED <<store, page, socket, gets, post>>
      BY DEF MatchInv, MatchTypeOK, Player, RoomActs
<1>1. CASE OtherJoins
  <2>1. PICK p \in Other \ room.players :
          room' = [room EXCEPT !.players = @ \cup {p}] /\ Emit(<<Joined(p)>>)
        BY <1>1 DEF OtherJoins
  <2>2. room.status = "waiting" BY <1>1 DEF OtherJoins
  <2>3. room'.id = room.id /\ room'.status = "waiting" BY <1>0, <2>1, <2>2 DEF RoomRecord
  <2>4. Requests' BY <1>0, <2>3, RequestsKept
  <2> QED BY <1>0, <2>1, <2>2, <2>4, JoinsStep
<1>2. CASE OtherLeaves BY <1>0, <1>2, WithoutStep DEF OtherLeaves
<1>3. CASE OtherStarts BY <1>0, <1>3, BeginStep DEF OtherStarts
<1>4. CASE CloseRound BY <1>0, <1>4, CloseRoundStep
<1> QED BY <1>1, <1>2, <1>3, <1>4 DEF RoomActs

-----------------------------------------------------------------------------
(* An event is handled.                                                    *)

\* What the wire tells once its first event is gone.
LEMMA WireTail ==
  ASSUME MatchInv, wire # <<>>, NEW tail, tail = Tail(wire)
  PROVE  /\ tail \in Seq(Event) /\ wire[1] \in Event /\ 1 \in DOMAIN wire
         /\ \A i \in DOMAIN tail : i + 1 \in DOMAIN wire /\ tail[i] = wire[i + 1]
         /\ \A i \in DOMAIN wire : i = 1 \/ (i - 1 \in DOMAIN tail /\ tail[i - 1] = wire[i])
         /\ \A i \in DOMAIN tail : i \in Nat \ {0}
         /\ \A i \in DOMAIN wire : i \in Nat \ {0}
<1>1. wire \in Seq(Event) /\ Len(wire) \in Nat \ {0} /\ DOMAIN wire = 1..Len(wire)
      BY DEF MatchInv, MatchTypeOK
<1>2. tail \in Seq(Event) /\ Len(tail) = Len(wire) - 1 /\ DOMAIN tail = 1..Len(tail)
      BY <1>1
<1>3. \A i \in 1..Len(tail) : tail[i] = wire[i + 1] BY <1>1, <1>2
<1> QED BY <1>1, <1>2, <1>3

\* The order of the events on the wire is kept.
LEMMA WiresOfTail ==
  ASSUME MatchInv, wire # <<>>, wire' = Tail(wire), UNCHANGED room,
         Inside' => Inside, store'.round \in Nat,
         \A i \in DOMAIN wire : i # 1 /\ IsStart(wire[i]) => store'.round < wire[i].round,
         Inside /\ room.status # "gone" => store'.round <= room.round
  PROVE  Wires'
<1>1. PICK tail : tail = Tail(wire) OBVIOUS
<1>2. /\ \A i \in DOMAIN tail : i + 1 \in DOMAIN wire /\ tail[i] = wire[i + 1]
      /\ \A i \in DOMAIN wire : i = 1 \/ (i - 1 \in DOMAIN tail /\ tail[i - 1] = wire[i])
      /\ \A i \in DOMAIN tail : i \in Nat \ {0}
      /\ \A i \in DOMAIN wire : i \in Nat \ {0}
      BY <1>1, WireTail
<1>3. ASSUME NEW i \in DOMAIN tail, tail[i].is = "round_ended"
      PROVE  i + 1 \in DOMAIN tail /\ tail[i + 1].is \in {"round_started", "game_ended"}
  <2>1. i + 1 \in DOMAIN wire /\ wire[i + 1].is = "round_ended" BY <1>2, <1>3
  <2>2. (i + 1) + 1 \in DOMAIN wire /\ wire[(i + 1) + 1].is \in {"round_started", "game_ended"}
        BY <2>1 DEF MatchInv, Wires
  <2>3. ((i + 1) + 1) - 1 = i + 1 /\ (i + 1) + 1 # 1 BY <1>2
  <2> QED BY <1>2, <2>2, <2>3
<1>4. ASSUME NEW i \in DOMAIN tail, IsStart(tail[i])
      PROVE  /\ store'.round < tail[i].round
             /\ room.status # "gone" => tail[i].round <= room.round
             /\ \A j \in DOMAIN tail : i < j /\ IsStart(tail[j]) => tail[i].round < tail[j].round
             /\ (\A j \in DOMAIN tail : i < j => IsPlayers(tail[j])) =>
                  /\ room.status \in {"active", "gone"}
                  /\ room.status = "active" => room.round = tail[i].round
  <2>1. i + 1 \in DOMAIN wire /\ tail[i] = wire[i + 1] /\ IsStart(wire[i + 1]) /\ i + 1 # 1
        BY <1>2, <1>4
  <2>2. /\ room.status # "gone" => wire[i + 1].round <= room.round
        /\ \A j \in DOMAIN wire : i + 1 < j /\ IsStart(wire[j]) => wire[i + 1].round < wire[j].round
        /\ (\A j \in DOMAIN wire : i + 1 < j => IsPlayers(wire[j])) =>
             /\ room.status \in {"active", "gone"}
             /\ room.status = "active" => room.round = wire[i + 1].round
        BY <2>1 DEF MatchInv, Wires
  <2>3. store'.round < wire[i + 1].round BY <2>1
  <2>4. \A j \in DOMAIN tail : i < j /\ IsStart(tail[j]) => tail[i].round < tail[j].round
    <3> SUFFICES ASSUME NEW j \in DOMAIN tail, i < j, IsStart(tail[j])
                 PROVE  tail[i].round < tail[j].round
        OBVIOUS
    <3>1. j + 1 \in DOMAIN wire /\ tail[j] = wire[j + 1] /\ i + 1 < j + 1 BY <1>2
    <3> QED BY <2>1, <2>2, <3>1
  <2>5. ASSUME \A j \in DOMAIN tail : i < j => IsPlayers(tail[j])
        PROVE  \A j \in DOMAIN wire : i + 1 < j => IsPlayers(wire[j])
    <3> SUFFICES ASSUME NEW j \in DOMAIN wire, i + 1 < j PROVE IsPlayers(wire[j]) OBVIOUS
    <3>1. j # 1 /\ i < j - 1 BY <1>2
    <3>2. j - 1 \in DOMAIN tail /\ tail[j - 1] = wire[j] BY <1>2, <3>1
    <3> QED BY <2>5, <3>1, <3>2
  <2> QED BY <2>1, <2>2, <2>3, <2>4, <2>5
<1>5. \A i \in DOMAIN tail : tail[i].is = "game_ended" => room.status \in {"finished", "gone"}
      BY <1>2 DEF MatchInv, Wires
<1>6. wire' = tail /\ room' = room BY <1>1
<1> QED BY <1>3, <1>4, <1>5, <1>6 DEF Wires

\* The page goes on: to the game that starts ...
LEMMA GameStartsStep ==
  ASSUME MatchInv, MatchTypeOK', UNCHANGED room, post' = Leave(post),
         NEW e, wire # <<>>, e = wire[1], IsStart(e), page.at = "room",
         Show("room", page.id, StartRound(store, e.round), gets,
              (missed \ {"round"}) \cup About(Tail(wire)))
  PROVE  MatchInv'
<1>0. /\ store \in Store /\ room \in RoomRecord /\ post \in {Nil} \cup PostRecord
      /\ e \in Event /\ e.round \in 1..MatchRounds
  <2>1. wire[1] \in Event BY WireTail
  <2> QED BY <2>1, EventFields DEF MatchInv, MatchTypeOK, IsStart
<1>1. PICK st : st = StartRound(store, e.round) OBVIOUS
<1>2. /\ st.round = e.round /\ st.pano = e.round /\ st.status = "round_active" /\ st.map = store.map
      BY <1>0, <1>1 DEF StartRound, Store
<1>3. Landing("room", st) = "game" BY <1>2 DEF Landing
<1>4. /\ store' = st /\ page'.at = "game" /\ page'.id = page.id /\ ~page'.loaded
      /\ ~page'.submitted /\ ~page'.results
      /\ socket' = "joining" /\ wire' = <<>> /\ DOMAIN wire' = {}
      /\ gets' = {Leave(g) : g \in gets}
      /\ missed' = (missed \ {"round"}) \cup About(Tail(wire))
  <2>1. st.pano # 0 /\ GetsOnMount("game", page.id, st) = {} BY <1>0, <1>2 DEF GetsOnMount
  <2>2. gets' = {Leave(g) : g \in gets} BY <1>1, <1>3, <2>1 DEF Show
  <2>3. missed' = (missed \ {"round"}) \cup About(Tail(wire))
        BY <1>1, <1>3 DEF Show, MissedOnMount
  <2>4. page' = [Mounted("game", page.id) EXCEPT !.results = FALSE]
        BY <1>1, <1>2, <1>3 DEF Show
  <2>5. /\ page'.at = "game" /\ page'.id = page.id /\ ~page'.loaded
        /\ ~page'.submitted /\ ~page'.results
        BY <2>4 DEF Mounted
  <2>6. store' = st /\ socket' = "joining" /\ wire' = <<>>
        BY <1>1, <1>3 DEF Show, StoreOnMount
  <2> QED BY <2>2, <2>3, <2>5, <2>6
<1>5. PICK tail : tail = Tail(wire) OBVIOUS
<1>6. /\ \A i \in DOMAIN wire : i = 1 \/ (i - 1 \in DOMAIN tail /\ tail[i - 1] = wire[i])
      /\ 1 \in DOMAIN wire
      BY <1>5, WireTail
<1>7. /\ store.round < e.round
      /\ room.status # "gone" => e.round <= room.round
      /\ (\A j \in DOMAIN wire : 1 < j => IsPlayers(wire[j])) =>
            /\ room.status \in {"active", "gone"}
            /\ room.status = "active" => room.round = e.round
      BY <1>6 DEF MatchInv, Wires
<1>8. page.id = room.id /\ Inside BY DEF MatchInv, Places, Inside
<1>9. room.status \in {"active", "finished", "gone"}
  <2>1. room.status = "waiting" => room.round = 0 BY DEF MatchInv, Places
  <2> QED BY <1>0, <1>7, <2>1 DEF RoomRecord
<1>10. \A h \in gets' : \E g \in gets : h.from = "left" /\ h.at = g.at /\ h.id = g.id
                                       /\ h.answer = g.answer
  <2>1. \A g \in gets : g \in GetRecord BY DEF MatchInv, MatchTypeOK
  <2>2. \A h \in gets' : \E g \in gets : h = Leave(g) BY <1>4
  <2> QED BY <2>1, <2>2, LeaveGet
<1>11. Places'
  <2>1. room.status \in {"waiting", "gone"} <=> room.round = 0 BY DEF MatchInv, Places
  <2> QED BY <1>2, <1>4, <1>8, <1>9, <2>1 DEF Places, Inside
<1>12. Requests'
  <2>1. post # Nil => post.op \notin {"create", "join"} BY DEF MatchInv, Requests
  <2>2. post' # Nil => post' = Leave(post) /\ post # Nil BY <1>0, LeavePost
  <2>3. post' # Nil => post'.from # "here" /\ post'.op = post.op BY <1>0, <2>2, LeavePost
  <2> QED BY <2>1, <2>2, <2>3 DEF Requests
<1>13. Fetches' BY <1>4, <1>10 DEF MatchInv, Fetches
<1>14. Fetched' BY <1>10 DEF Fetched
<1>15. Wires' BY <1>2, <1>4, <1>7 DEF Wires
<1>16. RoundShown'
  <2>1. "round" \notin missed' => \A j \in DOMAIN wire : 1 < j => IsPlayers(wire[j])
    <3>1. "round" \notin missed' => \A i \in DOMAIN tail : IsPlayers(tail[i])
          BY <1>4, <1>5, AboutPlayers
    <3> QED BY <1>6, <3>1
  <2> QED BY <1>2, <1>4, <1>7, <2>1 DEF RoundShown
<1>17. Locked' /\ People' BY <1>4 DEF Locked, People
<1>18. MapKnown'
  <2>1. "map" \notin missed' => "map" \notin missed BY <1>4
  <2>2. "map" \notin missed => store.map = page.id \/ \E g \in gets : g.id = page.id
        BY <1>8 DEF MatchInv, MapKnown
  <2>3. \A g \in gets : \E h \in gets' : h.id = g.id
    <3>1. \A g \in gets : g \in GetRecord BY DEF MatchInv, MatchTypeOK
    <3>2. \A g \in gets : Leave(g) \in gets' BY <1>4
    <3> QED BY <3>1, <3>2, LeaveGet
  <2> QED BY <1>2, <1>4, <2>1, <2>2, <2>3 DEF MapKnown
<1> QED BY <1>11, <1>12, <1>13, <1>14, <1>15, <1>16, <1>17, <1>18 DEF MatchInv

\* ... and to the results of the one that is over.
LEMMA GameEndsStep ==
  ASSUME MatchInv, MatchTypeOK', UNCHANGED room, post' = Leave(post),
         wire # <<>>, wire[1].is = "game_ended", page.at = "game", NEW m,
         Show("game", page.id, SetFinalScores(store), gets, m)
  PROVE  MatchInv'
<1>0. store \in Store /\ post \in {Nil} \cup PostRecord BY DEF MatchInv, MatchTypeOK
<1>1. PICK st : st = SetFinalScores(store) OBVIOUS
<1>2. st.status = "game_over" /\ st.pano = store.pano /\ st.round = store.round
      BY <1>0, <1>1 DEF SetFinalScores, Store
<1>3. Landing("game", st) = "over" BY <1>2 DEF Landing
<1>4. /\ store' = st /\ page'.at = "over" /\ page'.id = page.id /\ socket' = "off" /\ wire' = <<>>
      /\ gets' \subseteq {Leave(g) : g \in gets}
      BY <1>1, <1>3 DEF Show, StoreOnMount, Mounted, GetsOnMount
<1>5. room.status \in {"finished", "gone"}
  <2>1. 1 \in DOMAIN wire BY WireTail
  <2> QED BY <2>1 DEF MatchInv, Wires
<1>6. store'.pano = store'.round BY <1>2, <1>4 DEF MatchInv, Places
<1>7. Requests'
  <2>1. post # Nil => post.op \notin {"create", "join"} BY DEF MatchInv, Requests
  <2>2. post' # Nil => post' = Leave(post) /\ post # Nil BY <1>0, LeavePost
  <2>3. post' # Nil => post'.from # "here" /\ post'.op = post.op BY <1>0, <2>2, LeavePost
  <2> QED BY <2>1, <2>2, <2>3 DEF Requests
<1> QED BY <1>4, <1>5, <1>6, <1>7, OutsideStep

\* An event of the players is handled, or one that only changes the status.
LEMMA StayStep ==
  ASSUME MatchInv, MatchTypeOK', UNCHANGED <<room, socket, gets, post>>,
         wire # <<>>, wire' = Tail(wire), Inside,
         page'.at = page.at, page'.id = page.id, page'.loaded = page.loaded,
         page'.submitted => page.submitted /\ store'.round = store.round,
         store'.map = store.map, store'.pano = store'.round,
         store.round <= store'.round,
         page.at = "room" => store'.status # "round_active",
         page.at = "game" => store'.status # "game_over",
         room.status # "gone" => store'.round <= room.round,
         \A i \in DOMAIN wire : i # 1 /\ IsStart(wire[i]) => store'.round < wire[i].round,
         missed \subseteq missed' \cup {"round"}, missed' \subseteq missed,
         RoundShown', People'
  PROVE  MatchInv'
<1>0. /\ wire \in Seq(Event) /\ store \in Store /\ store' \in Store /\ room \in RoomRecord
      BY DEF MatchInv, MatchTypeOK
<1>1. Places'
  <2>1. socket = "joined" /\ page.id = room.id BY DEF MatchInv, Places
  <2> QED BY <2>1 DEF MatchInv, Places, Inside
<1>2. Requests'
  <2>1. post # Nil => post.op \notin {"create", "join"} BY DEF MatchInv, Requests, Inside
  <2>2. post # Nil => post.round \in 0..MatchRounds BY DEF MatchInv, MatchTypeOK, PostRecord
  <2>3. ASSUME post # Nil, post.round <= store.round PROVE post.round <= store'.round
        BY <1>0, <2>2, <2>3 DEF Store
  <2> QED BY <2>1, <2>3 DEF MatchInv, Requests
<1>3. Fetches' BY DEF MatchInv, Fetches, Fetching
<1>4. Fetched'
  <2>1. PICK tail : tail = Tail(wire) OBVIOUS
  <2>2. \A i \in DOMAIN tail : i + 1 \in DOMAIN wire /\ tail[i] = wire[i + 1] BY <2>1, WireTail
  <2>3. (\A i \in DOMAIN wire : ~IsPlayers(wire[i])) => \A i \in DOMAIN wire' : ~IsPlayers(wire'[i])
        BY <2>1, <2>2
  <2>4. "players" \notin missed' => "players" \notin missed OBVIOUS
  <2> QED BY <2>3, <2>4 DEF MatchInv, Fetched
<1>5. Wires'
  <2>1. Inside' => Inside BY DEF Inside
  <2>2. store'.round \in Nat BY <1>0 DEF Store
  <2> QED BY <2>1, <2>2, WiresOfTail
<1>6. Locked'
  <2>1. "answer" \notin missed' => "answer" \notin missed OBVIOUS
  <2> QED BY <2>1 DEF MatchInv, Locked
<1>7. MapKnown'
  <2>1. "map" \notin missed' => "map" \notin missed OBVIOUS
  <2> QED BY <2>1 DEF MatchInv, MapKnown, Inside
<1> QED BY <1>1, <1>2, <1>3, <1>4, <1>5, <1>6, <1>7 DEF MatchInv

\* The page after an event that starts no round.
LEMMA PageKept ==
  ASSUME MatchInv, NEW st, st.round = store.round,
         page' = IF page.at = "game" THEN PageOfRound(st) ELSE page
  PROVE  /\ page'.at = page.at /\ page'.id = page.id /\ page'.loaded = page.loaded
         /\ page'.submitted = page.submitted
         /\ page.at = "game" /\ page'.results => page.results \/ st.status = "round_results"
<1>1. page \in Page BY DEF MatchInv, MatchTypeOK
<1>2. CASE page.at = "game"
  <2>1. page' = [page EXCEPT !.results = @ \/ st.status = "round_results"]
        BY <1>2 DEF PageOfRound
  <2> QED BY <1>1, <2>1 DEF Page
<1>3. CASE page.at # "game" BY <1>3
<1> QED BY <1>2, <1>3

LEMMA HandleEventStep ==
  ASSUME MatchInv, MatchTypeOK', HandleEvent PROVE MatchInv'
<1>0. /\ wire \in Seq(Event) /\ wire # <<>> /\ store \in Store /\ page \in Page
      /\ room \in RoomRecord /\ UNCHANGED room
      BY DEF MatchInv, MatchTypeOK, HandleEvent
<1>1. PICK e : e = wire[1] OBVIOUS
<1>2. /\ e \in Event /\ Head(wire) = e /\ 1 \in DOMAIN wire
      /\ e.is \in {"player_joined", "player_left", "round_started", "round_ended", "game_ended"}
      /\ e.is = "player_joined" => e.who \in Player /\ e = Joined(e.who)
      /\ e.is = "player_left" => e.who \in Player /\ e = Left(e.who)
      /\ e.is = "round_started" => e.round \in 1..MatchRounds
  <2>1. e \in Event /\ Head(wire) = e /\ 1 \in DOMAIN wire BY <1>0, <1>1, WireTail
  <2> QED BY <2>1, EventFields
<1>3. Inside /\ page.at \in {"room", "game"} BY <1>0 DEF MatchInv, Places, Inside
<1>4. PICK st, m : /\ st = Handled(store, e)
                   /\ m = IF e.is = "round_started" THEN missed \ {"round"} ELSE missed
      OBVIOUS
<1>5. CASE Landing(page.at, st) # page.at
  <2>1. /\ Show(page.at, page.id, st, gets, m \cup About(Tail(wire)))
        /\ post' = Leave(post)
        BY <1>2, <1>4, <1>5 DEF HandleEvent
  <2>2. \/ page.at = "room" /\ st.status = "round_active"
        \/ page.at = "game" /\ st.status = "game_over"
        BY <1>3, <1>5 DEF Landing
  <2>3. CASE page.at = "room" /\ st.status = "round_active"
    <3>1. store.status # "round_active" BY <2>3 DEF MatchInv, Places
    <3>2. e.is = "round_started"
          BY <1>0, <1>2, <1>4, <2>3, <3>1
          DEF Handled, AddPlayer, RemovePlayer, SetRoundResults, SetFinalScores, Store
    <3>3. st = StartRound(store, e.round) /\ m = missed \ {"round"} /\ IsStart(e)
          BY <1>4, <3>2 DEF Handled, IsStart
    <3> QED BY <1>0, <1>1, <2>1, <2>3, <3>3, GameStartsStep
  <2>4. CASE page.at = "game" /\ st.status = "game_over"
    <3>1. store.status # "game_over" BY <2>4 DEF MatchInv, Places
    <3>2. e.is = "game_ended"
          BY <1>0, <1>2, <1>4, <2>4, <3>1
          DEF Handled, AddPlayer, RemovePlayer, SetRoundResults, StartRound, Store
    <3>3. st = SetFinalScores(store) BY <1>4, <3>2 DEF Handled
    <3> QED BY <1>0, <1>1, <2>1, <2>4, <3>2, <3>3, GameEndsStep
  <2> QED BY <2>2, <2>3, <2>4
<1>6. CASE ~(Landing(page.at, st) # page.at)
  <2>1. /\ store' = st /\ wire' = Tail(wire) /\ missed' = m
        /\ page' = (IF page.at = "game" THEN PageOfRound(st) ELSE page)
        /\ UNCHANGED <<socket, gets, post>>
        BY <1>2, <1>4, <1>6 DEF HandleEvent
  <2>2. /\ page.at = "room" => st.status # "round_active"
        /\ page.at = "game" => st.status # "game_over"
        BY <1>6 DEF Landing
  <2>3. missed \subseteq missed' \cup {"round"} /\ missed' \subseteq missed BY <1>4, <2>1
  <2>4. PICK tail : tail = Tail(wire) OBVIOUS
  <2>5. /\ \A i \in DOMAIN wire : i = 1 \/ (i - 1 \in DOMAIN tail /\ tail[i - 1] = wire[i])
        /\ \A i \in DOMAIN tail : i + 1 \in DOMAIN wire /\ tail[i] = wire[i + 1]
        /\ \A i \in DOMAIN wire : i \in Nat \ {0}
        BY <1>0, <2>4, WireTail
  <2>6. /\ \A i \in DOMAIN wire : IsStart(wire[i]) => store.round < wire[i].round
        /\ room.status # "gone" => store.round <= room.round
        BY <1>3 DEF MatchInv, Wires
  <2>7. store.pano = store.round BY DEF MatchInv, Places
  <2>8. store.round <= store.round BY <1>0 DEF Store
  <2>10. CASE e.is = "round_started"
    <3>1. /\ st.round = e.round /\ st.pano = e.round /\ st.status = "round_active"
          /\ st.map = store.map
          BY <1>0, <1>4, <2>10 DEF Handled, StartRound, Store
    <3>2. page.at = "game" BY <1>3, <2>2, <3>1
    <3>3. IsStart(wire[1]) BY <1>1, <2>10 DEF IsStart
    <3>4. /\ store.round < e.round
          /\ room.status # "gone" => e.round <= room.round
          /\ \A j \in DOMAIN wire : 1 < j /\ IsStart(wire[j]) => e.round < wire[j].round
          /\ (\A j \in DOMAIN wire : 1 < j => IsPlayers(wire[j])) =>
                /\ room.status \in {"active", "gone"}
                /\ room.status = "active" => room.round = e.round
          BY <1>1, <1>2, <3>3 DEF MatchInv, Wires
    <3>5. store.round # e.round /\ store.round <= e.round
          BY <1>0, <1>2, <2>10, <3>4 DEF Store
    <3>6. page' = [page EXCEPT !.pending = FALSE, !.submitted = FALSE, !.results = FALSE]
          BY <2>1, <3>1, <3>2, <3>5 DEF PageOfRound
    <3>7. /\ page'.at = page.at /\ page'.id = page.id /\ page'.loaded = page.loaded
          /\ ~page'.submitted /\ ~page'.results
          BY <1>0, <3>6 DEF Page
    <3>8. \A i \in DOMAIN wire : i # 1 /\ IsStart(wire[i]) => e.round < wire[i].round
      <4>1. \A i \in DOMAIN wire : i # 1 => 1 < i BY <2>5
      <4> QED BY <3>4, <4>1
    <3>9. RoundShown'
      <4>1. (\A i \in DOMAIN wire' : IsPlayers(wire'[i])) =>
              \A j \in DOMAIN wire : 1 < j => IsPlayers(wire[j])
            BY <2>1, <2>4, <2>5
      <4> QED BY <1>0, <2>1, <3>1, <3>4, <3>7, <4>1 DEF RoundShown
    <3>10. People' BY <3>2, <3>7 DEF People
    <3> QED BY <1>0, <1>3, <2>1, <2>2, <2>3, <3>1, <3>4, <3>5, <3>7, <3>8, <3>9, <3>10, StayStep
  <2>11. CASE e.is # "round_started"
    <3>1. /\ st.round = store.round /\ st.pano = store.pano /\ st.map = store.map
          /\ e.is \in {"player_joined", "player_left"} => st.status = store.status
          /\ e.is = "round_ended" => st.status = "round_results"
          /\ missed' = missed
          BY <1>0, <1>2, <1>4, <2>1, <2>11
          DEF Handled, AddPlayer, RemovePlayer, SetRoundResults, SetFinalScores, Store
    <3>2. /\ page'.at = page.at /\ page'.id = page.id /\ page'.loaded = page.loaded
          /\ page'.submitted = page.submitted
          /\ page.at = "game" /\ page'.results => page.results \/ st.status = "round_results"
          BY <2>1, <3>1, PageKept
    <3>3. RoundShown'
      <4>1. CASE IsPlayers(e)
        <5>1. (\A i \in DOMAIN wire' : IsPlayers(wire'[i])) => \A i \in DOMAIN wire : IsPlayers(wire[i])
              BY <1>1, <2>1, <2>4, <2>5, <4>1
        <5>2. st.status = store.status BY <3>1, <4>1 DEF IsPlayers
        <5> QED BY <1>0, <2>1, <3>1, <3>2, <5>1, <5>2 DEF MatchInv, RoundShown
      <4>2. CASE e.is = "round_ended"
        <5>1. 1 + 1 \in DOMAIN wire /\ wire[1 + 1].is \in {"round_started", "game_ended"}
              BY <1>1, <1>2, <4>2 DEF MatchInv, Wires
        <5>2. 2 \in DOMAIN wire /\ wire[2].is \in {"round_started", "game_ended"}
              /\ 2 - 1 = 1 /\ 2 # 1 /\ 1 + 1 = 2
              BY <5>1
        <5>3. 1 \in DOMAIN tail /\ tail[1] = wire[2] BY <2>5, <5>2
        <5>4. ~ \A i \in DOMAIN wire' : IsPlayers(wire'[i])
              BY <2>1, <2>4, <5>2, <5>3 DEF IsPlayers
        <5> QED BY <2>1, <3>1, <4>2, <5>4 DEF RoundShown
      <4>3. CASE e.is = "game_ended"
        <5>1. st.status = "game_over" BY <1>0, <1>4, <4>3 DEF Handled, SetFinalScores, Store
        <5> QED BY <2>2, <3>2, <5>1 DEF RoundShown
      <4> QED BY <1>2, <2>11, <4>1, <4>2, <4>3 DEF IsPlayers
    <3>4. People'
      <4> SUFFICES ASSUME page.at = "room", page.loaded, "players" \notin missed
                   PROVE  Follows(st.players, Tail(wire), room.players)
          BY <1>0, <2>1, <3>1, <3>2 DEF People
      <4>1. PICK ps, qs, es, set : ps = store.players /\ qs = st.players /\ es = wire
                                   /\ set = room.players
            OBVIOUS
      <4>2. Follows(ps, es, set) /\ ps \in Seq(Player)
            BY <1>0, <4>1 DEF MatchInv, People, Store
      <4>3. Distinct(ps) BY <4>2 DEF Follows
      <4>4. es \in Seq(Event) /\ es # <<>> /\ Head(es) = e BY <1>0, <1>2, <4>1
      <4>5. /\ Distinct(qs)
            /\ \A p \in Player : p \in ToSet(qs) <=> e = Joined(p) \/ (e # Left(p) /\ p \in ToSet(ps))
        <5>1. CASE e.is = "player_joined"
          <6>1. PICK w : w = e.who OBVIOUS
          <6>2. qs = Append(ps, w) /\ w \in Player /\ e = Joined(w)
                BY <1>0, <1>2, <1>4, <4>1, <5>1, <6>1 DEF Handled, AddPlayer, Store
          <6>3. w \notin ToSet(ps)
            <7>1. 1 \in 1..Len(es) /\ es[1] = e BY <1>1, <4>1, <4>4
            <7>2. ~PresentIn(ps, es, w, 1) BY <4>2, <5>1, <6>1, <7>1 DEF Follows
            <7> QED BY <7>2 DEF PresentIn
          <6>4. \A p : p \in ToSet(qs) <=> p = w \/ p \in ToSet(ps)
                BY <4>2, <6>2 DEF ToSet
          <6>5. Distinct(qs)
            <7>1. \A i \in 1..Len(ps) : ps[i] # w BY <4>2, <6>3 DEF ToSet
            <7> QED BY <4>2, <4>3, <6>2, <7>1 DEF Distinct
          <6>6. \A p : (e = Joined(p) <=> p = w) /\ e # Left(p) BY <6>2 DEF Joined, Left
          <6> QED BY <6>4, <6>5, <6>6
        <5>2. CASE e.is = "player_left"
          <6>1. PICK w : w = e.who OBVIOUS
          <6>2. qs = Filtered(ps, w) /\ e = Left(w)
                BY <1>0, <1>2, <1>4, <4>1, <5>2, <6>1 DEF Handled, RemovePlayer, Store
          <6>3. /\ \A q : q \in ToSet(qs) <=> q \in ToSet(ps) /\ q # w
                /\ Distinct(qs)
                BY <4>2, <4>3, <6>2, FilteredPlayers
          <6>4. \A p : (e = Left(p) <=> p = w) /\ e # Joined(p) BY <6>2 DEF Joined, Left
          <6> QED BY <6>3, <6>4
        <5>3. CASE e.is \notin {"player_joined", "player_left"}
          <6>1. qs = ps
                BY <1>0, <1>2, <1>4, <2>11, <4>1, <5>3
                DEF Handled, SetRoundResults, SetFinalScores, Store
          <6>2. \A p : e # Joined(p) /\ e # Left(p) BY <5>3, EventKinds
          <6> QED BY <4>3, <6>1, <6>2
        <5> QED BY <5>1, <5>2, <5>3
      <4>6. Follows(qs, Tail(es), set) BY <4>2, <4>4, <4>5, FollowsTail
      <4> QED BY <4>1, <4>6
    <3> QED BY <1>0, <1>3, <2>1, <2>2, <2>3, <2>6, <2>7, <2>8, <3>1, <3>2, <3>3, <3>4, StayStep
  <2> QED BY <2>10, <2>11
<1> QED BY <1>5, <1>6

-----------------------------------------------------------------------------
(* The theorems.                                                           *)

LEMMA MatchInvStep == MatchInv /\ [MatchNext]_matchVars => MatchInv'
<1> SUFFICES ASSUME MatchInv, [MatchNext]_matchVars PROVE MatchInv' OBVIOUS
<1>1. MatchTypeOK' BY MatchTypes DEF MatchInv
<1>2. CASE UNCHANGED matchVars
  <2>1. UNCHANGED <<room, store, page, socket, wire, gets, post, missed>>
        BY <1>2 DEF matchVars, browser
  <2>2. Requests' BY <2>1 DEF MatchInv, Requests, Fresh
  <2> QED BY <1>1, <2>1, <2>2, QuietStep
<1> QED BY <1>1, <1>2, HandleEventStep, ServeGetInv, GetAnsweredStep, ServeStep,
           PostAnsweredStep, PlayerActsStep, RoomActsStep, ReloadStep, SocketJoinsStep,
           SocketDropsStep
        DEF MatchNext, Progress

\* Whichever he plays, the other stays at Lobby: both invariants hold throughout.
LEMMA PlayInvariant == PlaySpec => [](MatchInv /\ SoloInv)
<1>1. PlayInit => MatchInv /\ SoloInv BY MatchInvInit, InitInv DEF PlayInit
<1>2. MatchInv /\ SoloInv /\ [PlayNext]_playVars => (MatchInv /\ SoloInv)'
  <2>1. [PlayNext]_playVars => [MatchNext]_matchVars /\ [SoloNext]_soloVars
        BY DEF PlayNext, playVars
  <2> QED BY <2>1, MatchInvStep, NextInv
<1> QED BY <1>1, <1>2, PTL DEF PlaySpec

\* Every variable of the pages, the store and the room keeps its type, and those
\* of a solo session keep theirs.
THEOREM PlayTypeCorrect == PlaySpec => []PlayTypeOK
<1>1. MatchInv /\ SoloInv => PlayTypeOK BY DEF MatchInv, SoloInv, PlayTypeOK
<1> QED BY <1>1, PlayInvariant, PTL

\* The pages Room, Game and GameOver and the round they show keep up with the room,
\* but for the events that went past the page: the navigate effects on
\* gameStore.status, the handlers of useSocket and the load effect of Game.
THEOREM MatchStaysInStep == PlaySpec => []GameInStep
<1> QED BY PlayInvariant, GameInStepFromInv, PTL

\* The waiting room lists the players of the room, each once, unless a change went
\* past it: the load effect of Room with addPlayer and removePlayer of gameStore.
THEOREM PlayersAreListed == PlaySpec => []PlayersShown
<1> QED BY PlayInvariant, PlayersShownFromInv, PTL

\* Guess controls are locked by a guess of this very round, unless its answer came
\* in a later one: submitGuess of Game and the effect on currentRound.
THEOREM OnlyGuessLocks == PlaySpec => []LockedByGuess
<1> QED BY PlayInvariant, LockedByGuessFromInv, PTL

\* What SoloClientProofs shows of PlayGame by itself holds of a player who may play in
\* rooms as well: his page shows the round his guess is counted for, and the time that
\* his clock has stood still does not add up when he leaves or reloads it.
THEOREM SoloStaysInStepInPlay == PlaySpec => [](SoloInStep /\ ClockNotExtended)
<1>1. SoloInv => SoloInStep /\ ClockNotExtended BY InStepFromInv DEF SoloInv
<1> QED BY <1>1, PlayInvariant, PTL

=============================================================================
