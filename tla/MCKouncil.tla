----------------------------- MODULE MCKouncil -----------------------------
(* An instance of Kouncil for TLC.                                         *)
EXTENDS Kouncil

CONSTANTS n1, b1, b2

=============================================================================
