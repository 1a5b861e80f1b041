---------------------------- MODULE PlayClients ----------------------------
(***************************************************************************)
(* What a player does from Lobby on: he plays in rooms or alone.  The two  *)
(* share nothing but Lobby (a solo session has no socket and no store, a   *)
(* room no localStorage), so each behaviour is of one of them and the      *)
(* other stays at Lobby.                                                   *)
(***************************************************************************)
EXTENDS MatchClient, SoloClient

VARIABLE plays  \* "rooms" or "solo"

playVars == <<plays, matchVars, soloVars>>

PlayInit == plays \in {"rooms", "solo"} /\ MatchInit /\ SoloInit

PlayNext ==
  \/ plays = "rooms" /\ MatchNext /\ UNCHANGED <<plays, soloVars>>
  \/ plays = "solo" /\ SoloNext /\ UNCHANGED <<plays, matchVars>>

\* The fairness of either, neither of which asks anything of who stays at Lobby.
PlaySpec ==
  /\ PlayInit /\ [][PlayNext]_playVars
  /\ MatchFairness /\ SettlesDown
  /\ SoloFairness /\ SoloSettles

\* Every variable of either has its type.
PlayTypeOK == MatchTypeOK /\ SoloTypeOK

=============================================================================
