------------------------------ MODULE MCCache ------------------------------
(* An instance of Cache for TLC.                                           *)
EXTENDS Cache

\* A file that fits in the disk cache once, and is counted twice.
MCFileSize == [a \in Immutable |-> 2]

=============================================================================
