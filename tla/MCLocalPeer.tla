---------------------------- MODULE MCLocalPeer ----------------------------
(* An instance of LocalPeer for TLC.                                       *)
EXTENDS LocalPeer

CONSTANTS me, n1, a1, b1, v1

MCServers == {me, n1}
\* Both blocks are replicated on both nodes; the mutable one may leave this one.
MCQuora == [a \in Addresses |-> {{me, n1}} \cup (IF a \in Mutable THEN {{n1}} ELSE {})]

MCProposal(n, r) == [version |-> n, round |-> r, sender |-> 1]
MCCalls == [a \in Mutable |-> {MCProposal(0, 1)}]

=============================================================================
