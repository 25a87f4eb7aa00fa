------------------------------ MODULE MCAsync ------------------------------
(* Small instances of Async.  With MaxSize 1 the second and third push     *)
(* reach the disk.                                                         *)
EXTENDS Async
CONSTANTS a1, a2

=============================================================================
