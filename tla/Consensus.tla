----------------------------- MODULE Consensus -----------------------------
(***************************************************************************)
(* What choose() promises to its callers ("@returns The value that was     *)
(* chosen if not the one we submitted", Client.hh): a version has one      *)
(* value at most, whatever the calls that return it, and some caller       *)
(* submitted it.                                                           *)
(***************************************************************************)
CONSTANTS
  Submissions,   \* what may be submitted
  Numbers        \* the versions it may be submitted for

VARIABLES
  proposed,   \* what was submitted
  chosen      \* what was returned, and for which version

vars == <<proposed, chosen>>

Init == proposed = {} /\ chosen = {}

Submit(v) ==
  /\ proposed' = proposed \union {v}
  /\ UNCHANGED chosen

\* A version that has a value keeps it.
Decide(n, v) ==
  /\ v \in proposed
  /\ \A ch \in chosen : ch.version = n => ch.value = v
  /\ chosen' = chosen \union {[version |-> n, value |-> v]}
  /\ UNCHANGED proposed

Next ==
  \E v \in Submissions :
    \/ Submit(v)
    \/ \E n \in Numbers : Decide(n, v)

Spec == Init /\ [][Next]_vars

=============================================================================
