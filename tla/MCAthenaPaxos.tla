--------------------------- MODULE MCAthenaPaxos ---------------------------
(* Instances of AthenaPaxos for TLC.                                       *)
EXTENDS AthenaPaxos, TLC

ASSUME IntersectingAssumption == Intersecting

CONSTANTS s1, s2, s3, v1, v2, v3, v4, c1, c2, c3, c4, r1

OnlyId == c1 :> 1
TwoIds == c1 :> 1 @@ c2 :> 2
OneId == c1 :> 1 @@ c2 :> 1
FourIds == c1 :> 1 @@ c2 :> 2 @@ c3 :> 3 @@ c4 :> 4

RoundOne == [c \in Clients |-> 1]
RoundTwo == [c \in Clients |-> 2]
\* Client c1 outlasts the rounds of c2.
Outlast == c1 :> 6 @@ c2 :> 2

ServersAlike == Permutations(Servers)
ValuesAlike == Permutations(Values)
ServersAndValuesAlike == Permutations(Servers) \union Permutations(Values)

\* Keep to behaviours in which c1 to c4 submit v1 to v4 one after the other
\* (but for the last confirmations), c2 and c4 cannot reach a peer when they
\* propose, c1 and c3 die, and nothing is delivered late.
InTurn ==
  /\ Cardinality({c \in Clients : client'[c].pc \in {"propose", "accept"}}) =< 1
  /\ \A c \in Clients : client'[c].pc # "idle" =>
       <<c, client'[c].value>> \in {<<c1, v1>>, <<c2, v2>>, <<c3, v3>>, <<c4, v4>>}
  /\ \A c \in {c1, c3} : client'[c].unavailable = {}
  /\ submitted' \in {{}, {v1}, {v1, v2}, {v1, v2, v3}, {v1, v2, v3, v4}}
  /\ late \subseteq late'

=============================================================================
