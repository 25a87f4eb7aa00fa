----------------------------- MODULE WriteQueue -----------------------------
(***************************************************************************)
(* What the asynchronous write queue promises when nothing is squashed: a  *)
(* queue that survives everything.  What is pushed is played on the        *)
(* backend in the order of the pushes, each push at least once, and again  *)
(* only before the next one.  Crashes, restarts, failures, and what is in  *)
(* memory or on disk do not show.                                          *)
(***************************************************************************)
EXTENDS Naturals

CONSTANT Pushes   \* the numbers of the pushes, 1, 2, ...

VARIABLES
  pending,   \* pushes to process
  done,      \* pushes processed
  applied    \* the push whose effect reached the backend last, 0 at first

vars == <<pending, done, applied>>

Init == pending = {} /\ done = {} /\ applied = 0

Oldest(n) == n \in pending /\ \A m \in pending : n <= m

Push(n) ==
  /\ \A m \in pending \cup done \cup {applied} : m < n
  /\ pending' = pending \cup {n}
  /\ UNCHANGED <<done, applied>>

\* The effect of a push reaches the backend, and it is not known yet.
Apply(n) ==
  /\ Oldest(n)
  /\ applied' = n
  /\ UNCHANGED <<pending, done>>

\* The effect of the push was the last to reach the backend.
Finish(n) ==
  /\ Oldest(n)
  /\ applied' = n
  /\ pending' = pending \ {n}
  /\ done' = done \cup {n}

Next == \E n \in Pushes : Push(n) \/ Apply(n) \/ Finish(n)

Spec == Init /\ [][Next]_vars

=============================================================================
