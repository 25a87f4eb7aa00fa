---------------------------- MODULE AsyncProofs ----------------------------
(***************************************************************************)
(* What holds of Async for every number of blocks, capacity, push, failure *)
(* and crash.  Ordered is inductive as long as no resolver squashes at the *)
(* last position: nothing that can be read is then ever lost between the   *)
(* queue and the disk, and only a torn file makes _process_loop's          *)
(* assertion fail.                                                         *)
(***************************************************************************)
EXTENDS Async, WellFoundedInduction, TLAPS

\* The provers each leaf is tried with in turn, and the seconds each is given.
USE ZenonT(3), SMTT(30), ZenonT(30)

Invariant == TypeOK /\ Ordered

\* A set of natural numbers has a least element.
LEMMA LeastNatural ==
  ASSUME NEW T, T \subseteq Nat, T # {}
  PROVE  \E x \in T : IsLeast(x, T)
<1>1. PICK x \in T : \A y \in T : ~(<<y, x>> \in OpToRel(<, Nat))
  BY WFMin, NatLessThanWellFounded
<1>2. \A y \in T : ~(y < x)
  BY <1>1 DEF OpToRel
<1>3. \A y \in T : x <= y
  BY <1>2
<1> QED BY <1>3 DEF IsLeast

\* A bounded one has a greatest: its least upper bound.
LEMMA GreatestNatural ==
  ASSUME NEW T, T \subseteq Nat, T # {}, NEW n \in Nat, \A i \in T : i <= n
  PROVE  \E x \in T : IsGreatest(x, T)
<1> DEFINE above == {m \in Nat : \A i \in T : i <= m}
<1>1. PICK x \in above : IsLeast(x, above)
  BY LeastNatural
<1>2. x \in T
  <2> SUFFICES ASSUME x \notin T
               PROVE  FALSE
    OBVIOUS
  <2>1. x \in Nat /\ \A i \in T : i \in Nat /\ i < x
    BY <1>1
  <2>2. x - 1 \in Nat /\ \A i \in T : i <= x - 1
    <3>1. PICK i \in T : i \in Nat /\ i < x
      BY <2>1
    <3> QED BY <2>1, <3>1
  <2>3. x <= x - 1
    BY <1>1, <2>2 DEF IsLeast
  <2> QED BY <2>1, <2>3
<1> QED BY <1>1, <1>2 DEF IsGreatest

\* What putting an index in the channel does.
LEMMA Appended ==
  ASSUME NEW q \in Seq(Nat), NEW x \in Nat
  PROVE  /\ Append(q, x) \in Seq(Nat)
         /\ Len(q) \in Nat /\ Len(Append(q, x)) = Len(q) + 1
         /\ Queued(Append(q, x)) = Queued(q) \cup {x}
         /\ Increasing(q) /\ (\A i \in Queued(q) : i < x) => Increasing(Append(q, x))
<1>1. /\ Len(Append(q, x)) = Len(q) + 1 /\ Len(q) \in Nat
      /\ \A n \in 1..Len(q) : Append(q, x)[n] = q[n]
      /\ Append(q, x)[Len(q) + 1] = x
      /\ \A n \in 1..Len(q) + 1 : n \in 1..Len(q) \/ n = Len(q) + 1
  OBVIOUS
<1>2. Queued(Append(q, x)) = Queued(q) \cup {x}
  BY <1>1 DEF Queued
<1>3. ASSUME Increasing(q), \A i \in Queued(q) : i < x
      PROVE  Increasing(Append(q, x))
  BY <1>1, <1>3 DEF Queued, Increasing
<1> QED BY <1>1, <1>2, <1>3

\* What taking an index from the channel does.
LEMMA Taken ==
  ASSUME NEW q \in Seq(Nat), q # << >>, Increasing(q)
  PROVE  /\ Tail(q) \in Seq(Nat) /\ Head(q) \in Nat
         /\ Increasing(Tail(q))
         /\ Queued(q) = Queued(Tail(q)) \cup {Head(q)}
         /\ \A i \in Queued(Tail(q)) : Head(q) < i
<1>1. /\ Len(q) \in Nat /\ Len(q) > 0 /\ Len(Tail(q)) = Len(q) - 1
      /\ \A n \in 1..Len(Tail(q)) : n + 1 \in 1..Len(q) /\ Tail(q)[n] = q[n + 1]
      /\ Head(q) = q[1] /\ 1 \in 1..Len(q)
      /\ \A n \in 1..Len(q) : n = 1 \/ (n - 1 \in 1..Len(Tail(q)) /\ (n - 1) + 1 = n)
      /\ \A n \in 1..Len(q) : q[n] \in Nat
  OBVIOUS
<1>2. Queued(q) = Queued(Tail(q)) \cup {Head(q)}
  BY <1>1 DEF Queued
<1>3. Increasing(Tail(q)) /\ \A i \in Queued(Tail(q)) : Head(q) < i
  BY <1>1 DEF Queued, Increasing
<1> QED BY <1>1, <1>2, <1>3

\* Starting: the journal, the queue and the memory are empty.
LEMMA InitInvariant == Init => Invariant
  BY NoneAssumption
  DEF Init, Invariant, TypeOK, Ordered, Placed, IsLeast, Op, Queued, Increasing

\* A request is an operation.
LEMMA RequestType ==
  ASSUME TypeOK, NEW op \in Requests
  PROVE  op \in Op
<1>1. \A a \in Addresses, mode \in {"insert", "update", None}, resolver \in BOOLEAN :
        NewOp(a, mode, resolver) \in Op
  BY DEF TypeOK, NewOp, Op
<1>2. \E a \in Addresses, mode \in {"insert", "update", None}, resolver \in BOOLEAN :
        op = NewOp(a, mode, resolver)
  BY DEF Requests
<1> QED BY <1>1, <1>2

\* An operation restored past the queue's capacity still is one.
LEMMA AddressOnlyType ==
  ASSUME NEW op \in Op
  PROVE  /\ AddressOnly(op) \in Op /\ AddressOnly(op).carries = op.carries
         /\ AddressOnly(op).id = op.id /\ AddressOnly(op).address = op.address
         /\ AddressOnly(op).block = None /\ ~AddressOnly(op).resolver
         /\ AddressOnly(AddressOnly(op)) = AddressOnly(op)
  BY DEF AddressOnly, Op

\* _init restores one entry: it comes after those restored before.
LEMMA RestoreStep ==
  ASSUME Invariant, NEW i \in DOMAIN journal \cup DOMAIN torn, Restore(i)
  PROVE  /\ Invariant'
         /\ i \in Nat /\ i \notin DOMAIN operations
         /\ DOMAIN operations' = DOMAIN operations \cup {i}
         /\ \A j \in DOMAIN operations : operations'[j] = operations[j]
         /\ i \in DOMAIN journal =>
              /\ operations'[i].id = journal[i].id
              /\ operations'[i].address = journal[i].address
              /\ operations'[i].block \in {None, journal[i].block}
         /\ \/ queue' = queue
            \/ /\ queue' = Append(queue, i)
               /\ i \in DOMAIN journal /\ operations'[i].mode = journal[i].mode
         /\ UNCHANGED <<files, hand, backend, foreign, history>>
<1> USE DEF Invariant
<1>1. /\ i \in Nat /\ i \notin DOMAIN operations /\ File(i) \in Op
      /\ \A j \in DOMAIN operations : j < i
      /\ \A j \in DOMAIN journal \ DOMAIN operations : i <= j
      /\ i \in DOMAIN torn => ~(Len(queue) < MaxSize) /\ i \notin DOMAIN journal
      /\ hand = None /\ pc = "init"
  <2>1. i \in Nat /\ File(i) \in Op
    BY DEF TypeOK, File
  <2>2. i \in Unread /\ (\A j \in Unread : i <= j) /\ pc = "init"
    BY DEF Restore, IsLeast
  <2>3. \A j \in DOMAIN operations : j \in Nat /\ j < i
    BY <2>2 DEF Unread, TypeOK
  <2>4. DOMAIN journal \ DOMAIN operations \subseteq Unread
    BY <2>2 DEF Ordered, Unread
  <2>5. i \in DOMAIN torn => ~(Len(queue) < MaxSize) /\ i \notin DOMAIN journal
    BY <2>2, SizeAssumption DEF Unread, Ordered, TypeOK
  <2>6. hand = None
    BY <2>2 DEF Ordered
  <2> QED BY <2>1, <2>2, <2>3, <2>4, <2>5, <2>6
<1>2. /\ operations' = With(operations, i, operations'[i])
      /\ DOMAIN operations' = DOMAIN operations \cup {i}
      /\ \A j \in DOMAIN operations : operations'[j] = operations[j]
      /\ Len(queue) < MaxSize => operations'[i] = journal[i]
      /\ ~(Len(queue) < MaxSize) => operations'[i] = AddressOnly(File(i))
  BY <1>1 DEF With, Restore
<1>3. /\ next_index' \in Nat /\ next_index' >= i /\ next_index' >= next_index
      /\ UNCHANGED <<files, last_processed, pc, hand, sync, backend, foreign, history, bounds>>
  BY <1>1 DEF TypeOK, Restore
<1>4. /\ operations'[i] \in Op
      /\ i \in DOMAIN journal =>
           /\ operations'[i].id = journal[i].id /\ operations'[i].carries = journal[i].carries
           /\ operations'[i].address = journal[i].address
           /\ operations'[i].block \in {None, journal[i].block}
      /\ i \in DOMAIN torn => operations'[i] = torn[i]
  <2>1. CASE Len(queue) < MaxSize
    BY <1>1, <1>2, <2>1 DEF TypeOK
  <2>2. CASE ~(Len(queue) < MaxSize)
    BY <1>1, <1>2, <2>2, AddressOnlyType DEF File, Ordered
  <2> QED BY <2>1, <2>2
<1>5. operations' \in [DOMAIN operations' -> Op] /\ DOMAIN operations' \subseteq Nat
  BY <1>1, <1>2, <1>4 DEF TypeOK, With
<1>6. /\ queue' \in Seq(Nat) /\ first_disk' \in Nat \cup {None}
      /\ Placed' /\ Queued(queue') \subseteq DOMAIN operations' \cap DOMAIN journal
      /\ first_disk' # None => first_disk' \in DOMAIN operations' /\ Len(queue') >= MaxSize
      /\ \/ queue' = queue
         \/ /\ queue' = Append(queue, i)
            /\ i \in DOMAIN journal /\ operations'[i].mode = journal[i].mode
  <2>0. /\ Placed /\ Queued(queue) \subseteq DOMAIN operations \cap DOMAIN journal
        /\ first_disk # None => first_disk \in DOMAIN operations /\ Len(queue) >= MaxSize
        /\ torn' = torn
    BY <1>1, <1>3 DEF Ordered, files
  <2>1. CASE Len(queue) < MaxSize
    <3>1. /\ queue' = Append(queue, i) /\ first_disk' = first_disk
          /\ i \in DOMAIN journal /\ operations'[i].mode = journal[i].mode
      BY <1>1, <1>2, <2>1 DEF Restore
    <3>2. first_disk = None
      BY <2>0, <2>1, SizeAssumption DEF TypeOK
    <3> QED BY <1>1, <1>2, <1>3, <2>0, <3>1, <3>2, Appended DEF TypeOK, Placed
  <2>2. CASE ~(Len(queue) < MaxSize)
    <3>1. queue' = queue /\ first_disk' = IF first_disk = None THEN i ELSE first_disk
      BY <2>2 DEF Restore
    <3>2. Len(queue) >= MaxSize
      BY <2>2, SizeAssumption DEF TypeOK
    <3> QED BY <1>1, <1>2, <1>3, <2>0, <3>1, <3>2, NoneAssumption DEF TypeOK, Placed
  <2> QED BY <2>1, <2>2
<1>7. TypeOK'
  BY <1>3, <1>5, <1>6 DEF TypeOK, files, history, bounds
<1>8. /\ \A j \in DOMAIN operations' :
           j <= next_index' /\ (j \in DOMAIN journal' => operations'[j].carries = journal'[j].carries)
      /\ \A j \in DOMAIN operations', k \in DOMAIN journal' \ DOMAIN operations' : j < k
      /\ \A j \in DOMAIN torn' :
           /\ j \notin DOMAIN journal' /\ torn'[j] = AddressOnly(torn'[j])
           /\ j \in DOMAIN operations' => operations'[j] = torn'[j]
      /\ DOMAIN operations' \subseteq DOMAIN journal' \cup DOMAIN torn'
  <2>1. journal' = journal /\ torn' = torn
    BY <1>3 DEF files
  <2>2. \A j \in DOMAIN operations' :
          j <= next_index' /\ (j \in DOMAIN journal' => operations'[j].carries = journal'[j].carries)
    BY <1>1, <1>2, <1>3, <1>4, <2>1 DEF TypeOK, Ordered
  <2>3. \A j \in DOMAIN operations', k \in DOMAIN journal' \ DOMAIN operations' : j < k
    BY <1>1, <1>2, <2>1 DEF TypeOK, Ordered
  <2>4. /\ \A j \in DOMAIN torn' :
             /\ j \notin DOMAIN journal' /\ torn'[j] = AddressOnly(torn'[j])
             /\ j \in DOMAIN operations' => operations'[j] = torn'[j]
        /\ DOMAIN operations' \subseteq DOMAIN journal' \cup DOMAIN torn'
    BY <1>2, <1>4, <2>1 DEF Ordered
  <2> QED BY <2>2, <2>3, <2>4
<1>9. Ordered'
  BY <1>1, <1>2, <1>3, <1>6, <1>8 DEF Ordered, files
<1> QED BY <1>1, <1>2, <1>3, <1>4, <1>6, <1>7, <1>9

\* _init is over: what can be read of the journal is in memory.
LEMMA RestoredStep ==
  ASSUME Invariant, Restored
  PROVE  Invariant'
<1>1. pc = "init" /\ Unread = {} /\ pc' \in {"load", "get"}
  BY DEF Restored, LoopHead
<1>2. DOMAIN journal \subseteq DOMAIN operations
  BY <1>1 DEF Invariant, Ordered, Unread
<1> QED BY <1>1, <1>2 DEF Invariant, TypeOK, Ordered, Placed, Restored, files, history, bounds

\* _load_operations queues the operation at first_disk if it can be read, and moves on.
LEMMA ReloadStep ==
  ASSUME Invariant, NEW i \in DOMAIN operations, Reload(i)
  PROVE  /\ Invariant' /\ DOMAIN operations' = DOMAIN operations
         /\ \A j \in DOMAIN operations \ {i} : operations'[j] = operations[j]
         /\ operations'[i].id = operations[i].id
         /\ operations'[i].address = operations[i].address
         /\ \/ UNCHANGED <<operations, queue>>
            \/ /\ i \in DOMAIN journal /\ i \in Nat /\ queue' = Append(queue, i)
               /\ operations'[i].block = journal[i].block
               /\ operations'[i].mode = journal[i].mode
         /\ UNCHANGED <<files, hand, backend, foreign, history>>
<1> USE DEF Invariant
<1>1. /\ i \in Nat /\ operations[i] \in Op
      /\ hand = None /\ pc = "load" /\ first_disk = i /\ first_disk # None
      /\ UNCHANGED <<files, next_index, last_processed, pc, hand, sync, backend,
                     foreign, history, bounds>>
      /\ i \in DOMAIN journal => journal[i] \in Op /\ i \notin DOMAIN torn
      /\ Placed
  BY NoneAssumption DEF TypeOK, Ordered, Reload
<1>2. /\ first_disk' \in Nat \cup {None}
      /\ first_disk' # None => first_disk' \in DOMAIN operations /\ i < first_disk'
      /\ \A j \in DOMAIN operations : i < j => first_disk' # None /\ first_disk' <= j
  BY <1>1, NoneAssumption DEF TypeOK, Reload, IsLeast
<1>5. /\ \A j \in DOMAIN operations :
           j = i \/ j \in Queued(queue) \/ j \in DOMAIN torn \/ (first_disk' # None /\ first_disk' <= j)
      /\ first_disk' # None => \A j \in Queued(queue) \cup {i} : j < first_disk'
  <2>1. /\ \A j \in DOMAIN operations : j \in Nat
        /\ Queued(queue) \subseteq DOMAIN operations
    BY DEF TypeOK, Ordered
  <2>2. \A j \in DOMAIN operations : j \in Queued(queue) \/ i <= j \/ j \in DOMAIN torn
    BY <1>1 DEF Placed
  <2>3. \A j \in Queued(queue) : j < i
    BY <1>1 DEF Placed
  <2> QED BY <1>1, <1>2, <2>1, <2>2, <2>3
<1>3. CASE i \in DOMAIN journal
  <2>1. /\ queue' = Append(queue, i)
        /\ operations' = [operations EXCEPT ![i].block = journal[i].block,
                                            ![i].mode = journal[i].mode,
                                            ![i].resolver = journal[i].resolver]
    BY <1>1, <1>3 DEF Reload
  <2>2. /\ DOMAIN operations' = DOMAIN operations
        /\ \A j \in DOMAIN operations \ {i} : operations'[j] = operations[j]
        /\ operations'[i].id = operations[i].id
        /\ operations'[i].address = operations[i].address
        /\ operations'[i].carries = operations[i].carries
        /\ operations'[i].block = journal[i].block /\ operations'[i].mode = journal[i].mode
        /\ operations' \in [DOMAIN operations -> Op]
    BY <1>1, <1>3, <2>1 DEF TypeOK, Op
  <2>3. queue' \in Seq(Nat) /\ Queued(queue') = Queued(queue) \cup {i} /\ Increasing(queue')
    BY <1>1, <2>1, Appended DEF TypeOK, Placed
  <2>4. Placed'
    BY <1>1, <1>5, <2>2, <2>3 DEF Placed, files
  <2>5. TypeOK'
    BY <1>1, <1>2, <2>2, <2>3 DEF TypeOK, files, history, bounds
  <2>6. Ordered'
    BY <1>1, <1>2, <1>3, <2>2, <2>3, <2>4 DEF Ordered, files
  <2> QED BY <1>1, <1>3, <2>1, <2>2, <2>5, <2>6
<1>4. CASE i \notin DOMAIN journal
  <2>1. UNCHANGED <<operations, queue>> /\ i \in DOMAIN torn
    BY <1>4 DEF Reload
  <2>2. Placed'
    BY <1>1, <1>5, <2>1 DEF Placed, files, Queued
  <2>3. TypeOK'
    BY <1>1, <1>2, <2>1 DEF TypeOK, files, history, bounds
  <2>4. Ordered'
    BY <1>1, <1>2, <2>1, <2>2 DEF Ordered, files
  <2> QED BY <1>1, <2>1, <2>3, <2>4
<1> QED BY <1>3, <1>4

\* _load_operations ends: at the queue's capacity, as first_disk always is an operation.
LEMMA ReloadedStep ==
  ASSUME Invariant, Reloaded
  PROVE  Invariant'
<1>1. CASE first_disk \notin DOMAIN operations
  BY <1>1 DEF Invariant, TypeOK, Ordered, Placed, Reloaded, files, history, bounds
<1>2. CASE first_disk \in DOMAIN operations
  BY <1>2 DEF Invariant, TypeOK, Ordered, Placed, Reloaded, files, history, bounds
<1> QED BY <1>1, <1>2

\* _process_loop takes the first index: it is the first operation, a torn file aside.
LEMMA GetStep ==
  ASSUME Invariant, Get
  PROVE  /\ Invariant' /\ DOMAIN operations' = DOMAIN operations
         /\ \A i \in DOMAIN operations :
              /\ operations'[i].id = operations[i].id
              /\ operations'[i].address = operations[i].address
              /\ operations'[i].block \in {None, operations[i].block}
         /\ UNCHANGED <<files, backend, foreign, history>>
         /\ Queued(queue') \subseteq Queued(queue)
         /\ \/ hand' = None /\ UNCHANGED operations
            \/ /\ hand' # None /\ hand'.index \in DOMAIN operations \cap DOMAIN journal
               /\ hand'.op = operations[hand'.index] /\ hand'.index \in Queued(queue)
               /\ hand'.index \notin Queued(queue')
               /\ \A i \in DOMAIN operations \ {hand'.index} : operations'[i] = operations[i]
<1> USE DEF Invariant
<1> DEFINE index == Head(queue)
<1>1. /\ queue' \in Seq(Nat) /\ index \in Nat /\ Increasing(queue')
      /\ Queued(queue) = Queued(queue') \cup {index}
      /\ \A i \in Queued(queue') : index < i
      /\ hand = None /\ pc = "get" /\ Placed
      /\ UNCHANGED <<files, next_index, last_processed, first_disk, sync, backend,
                     foreign, history, bounds>>
  BY Taken DEF TypeOK, Ordered, Placed, Get
<1>2. /\ index \in DOMAIN operations /\ index \in DOMAIN journal /\ operations[index] \in Op
      /\ first_disk # None => index < first_disk
      /\ \A i \in DOMAIN operations : i \in DOMAIN torn \/ index <= i
      /\ \A i \in DOMAIN operations :
           \/ i = index \/ i \in Queued(queue') \/ i \in DOMAIN torn
           \/ first_disk # None /\ first_disk <= i
      /\ \A i \in DOMAIN operations : i \in Nat
  <2> HIDE DEF index
  <2>1. /\ index \in DOMAIN operations /\ index \in DOMAIN journal /\ operations[index] \in Op
        /\ first_disk # None => index < first_disk /\ first_disk \in Nat
    BY <1>1 DEF TypeOK, Ordered, Placed
  <2>2. \A i \in DOMAIN operations :
          \/ i = index \/ i \in Queued(queue') \/ i \in DOMAIN torn
          \/ first_disk # None /\ first_disk <= i
    BY <1>1 DEF Placed
  <2>3. \A i \in DOMAIN operations : i \in Nat
    BY DEF TypeOK
  <2>4. \A i \in DOMAIN operations : i \in DOMAIN torn \/ index <= i
    BY <1>1, <2>1, <2>2, <2>3
  <2> QED BY <2>1, <2>2, <2>3, <2>4
<1>3. CASE IsLeast(index, DOMAIN operations)
  <2>1. /\ pc' = "store"
        /\ hand' = [index |-> index, op |-> operations[index]]
        /\ operations' = IF operations[index].mode = None THEN operations
                         ELSE [operations EXCEPT ![index].block = None,
                                                 ![index].resolver = FALSE]
    BY <1>1, <1>2, <1>3 DEF TypeOK, Get, IsLeast
  <2>2. /\ DOMAIN operations' = DOMAIN operations
        /\ \A i \in DOMAIN operations :
             /\ operations'[i].carries = operations[i].carries
             /\ operations'[i].id = operations[i].id
             /\ operations'[i].address = operations[i].address
             /\ operations'[i].block \in {None, operations[i].block}
             /\ i # index => operations'[i] = operations[i]
        /\ operations' \in [DOMAIN operations -> Op]
    BY <1>2, <2>1 DEF TypeOK, Op
  <2>3. hand' # None /\ hand'.index = index /\ hand'.op = operations[index] /\ hand' \in Hand
    BY <1>1, <1>2, <2>1, NoneAssumption DEF Hand
  <2>4. TypeOK'
    BY <1>1, <2>1, <2>2, <2>3 DEF TypeOK, files, history, bounds
  <2>5. Placed'
    BY <1>1, <1>2, <2>2, <2>3 DEF TypeOK, Placed, files
  <2>6. journal' = journal /\ torn' = torn /\ index \notin DOMAIN torn
    BY <1>1, <1>2 DEF files, Ordered
  <2> HIDE DEF index
  <2>7. Ordered'
    BY <1>1, <1>2, <1>3, <2>1, <2>2, <2>3, <2>5, <2>6 DEF Ordered, IsLeast
  <2>8. index \notin Queued(queue')
    BY <1>1
  <2> QED BY <1>1, <1>2, <2>2, <2>3, <2>4, <2>7, <2>8
<1>4. CASE ~IsLeast(index, DOMAIN operations)
  <2>1. pc' = "aborted" /\ UNCHANGED <<operations, hand>>
    BY <1>1, <1>2, <1>4 DEF Get
  <2>2. \E i \in DOMAIN torn : IsLeast(i, DOMAIN operations)
    <3>1. PICK i \in DOMAIN operations : IsLeast(i, DOMAIN operations)
      BY <1>2, LeastNatural DEF TypeOK
    <3>2. i \in DOMAIN torn
      BY <1>1, <1>2, <1>4, <3>1 DEF IsLeast
    <3> QED BY <3>1, <3>2
  <2>3. TypeOK'
    BY <1>1, <2>1 DEF TypeOK, files, history, bounds
  <2>4. Ordered'
    BY <1>1, <2>1, <2>2 DEF Ordered, files
  <2> QED BY <1>1, <1>2, <2>1, <2>3, <2>4
<1> QED BY <1>3, <1>4

\* _process_loop forgets the operation it processed, in memory and in the journal.
LEMMA ProcessedStep ==
  ASSUME Invariant, pc = "store", Processed,
         backend' \in [Addresses -> Nat], foreign' \subseteq Addresses, applied' \in Nat
  PROVE  Invariant'
<1> USE DEF Invariant
<1>1. /\ hand # None /\ hand \in Hand /\ hand.index \in Nat /\ hand.op \in Op
      /\ hand.op.carries \subseteq Nat
      /\ hand.index \in DOMAIN journal
      /\ IsLeast(hand.index, DOMAIN operations)
  BY DEF TypeOK, Ordered, Hand, Op
<1>2. /\ pc' \in {"load", "get"} /\ hand' = None
      /\ UNCHANGED <<torn, queue, next_index, first_disk, sync, pushed, acked, latest, bounds>>
      /\ last_processed' = hand.index /\ done' = done \cup hand.op.carries
      /\ journal' = Without(journal, hand.index)
      /\ operations' = Without(operations, hand.index)
  BY DEF Processed, LoopHead
<1>3. /\ DOMAIN operations' = DOMAIN operations \ {hand.index}
      /\ DOMAIN journal' = DOMAIN journal \ {hand.index}
      /\ \A i \in DOMAIN operations' : operations'[i] = operations[i]
      /\ \A i \in DOMAIN journal' : journal'[i] = journal[i]
      /\ journal' \in [DOMAIN journal' -> Op] /\ operations' \in [DOMAIN operations' -> Op]
  BY <1>2 DEF TypeOK, Without
<1>4. TypeOK'
  BY <1>1, <1>2, <1>3 DEF TypeOK, bounds
<1>5. Placed'
  BY <1>1, <1>2, <1>3 DEF TypeOK, Ordered, Placed
<1>6. /\ Queued(queue) \subseteq DOMAIN operations' \cap DOMAIN journal'
      /\ first_disk # None => first_disk \in DOMAIN operations'
  BY <1>1, <1>3 DEF TypeOK, Ordered
<1>7. Ordered'
  BY <1>1, <1>2, <1>3, <1>5, <1>6 DEF Ordered
<1> QED BY <1>4, <1>7

\* What an operation does to the blocks keeps their type.
LEMMA EffectType ==
  ASSUME TypeOK, NEW op \in Op, Effect(op)
  PROVE  backend' \in [Addresses -> Nat] /\ foreign' \subseteq Addresses /\ applied' \in Nat
  BY DEF TypeOK, Effect, Op

\* A failed attempt reloads the operation from the journal.
LEMMA RetryStep ==
  ASSUME Invariant, pc = "store", Retry, UNCHANGED <<crashes, writes>>, failures' \in Nat,
         backend' \in [Addresses -> Nat], foreign' \subseteq Addresses, applied' \in Nat
  PROVE  Invariant'
<1> USE DEF Invariant
<1>1. /\ hand # None /\ hand \in Hand /\ IsLeast(hand.index, DOMAIN operations)
      /\ hand.index \in DOMAIN journal /\ journal[hand.index] \in Op
  BY DEF TypeOK, Ordered, IsLeast
<1>2. /\ hand' \in Hand /\ hand'.index = hand.index /\ hand'.op = journal[hand.index]
      /\ UNCHANGED <<files, operations, queue, next_index, last_processed, first_disk,
                     pc, sync, pushed, acked, done, latest>>
  BY <1>1 DEF Retry, Hand
<1>3. hand' # None
  BY <1>2, NoneAssumption
<1>4. TypeOK'
  BY <1>2 DEF TypeOK, files
<1>5. Ordered'
  BY <1>1, <1>2, <1>3 DEF Ordered, Placed, IsLeast, files
<1> QED BY <1>4, <1>5

\* An attempt on the backend, whatever comes of it.
LEMMA StoreStep ==
  ASSUME Invariant, StoreOk \/ StoreCollision \/ StoreFails \/ StoreRefused
  PROVE  Invariant'
<1>1. pc = "store" /\ hand.op \in Op /\ TypeOK
  BY DEF Invariant, TypeOK, Ordered, Hand, StoreOk, StoreCollision, StoreFails, StoreRefused
<1>2. CASE StoreOk
  BY <1>1, <1>2, EffectType, ProcessedStep DEF StoreOk
<1>3. CASE StoreCollision
  BY <1>1, <1>3, ProcessedStep DEF StoreCollision, TypeOK
<1>4. CASE StoreFails
  <2>1. Retry /\ UNCHANGED <<crashes, writes>> /\ failures' \in Nat
    BY <1>1, <1>4 DEF StoreFails, TypeOK
  <2>2. backend' \in [Addresses -> Nat] /\ foreign' \subseteq Addresses /\ applied' \in Nat
    <3>1. CASE UNCHANGED <<backend, foreign, applied>>
      BY <1>1, <3>1 DEF TypeOK
    <3>2. CASE Effect(hand.op)
      BY <1>1, <3>2, EffectType
    <3> QED BY <1>4, <3>1, <3>2 DEF StoreFails
  <2> QED BY <1>1, <2>1, <2>2, RetryStep
<1>5. CASE StoreRefused
  BY <1>1, <1>5, RetryStep DEF StoreRefused, TypeOK, bounds
<1> QED BY <1>2, <1>3, <1>4, <1>5

\* What a push leaves alone, whichever way the operation goes.
Pushing ==
  /\ pc \in {"get", "store"}
  /\ pushed' \in Nat /\ acked' \subseteq Nat /\ latest' \in [Addresses -> Nat]
  /\ UNCHANGED <<last_processed, pc, hand, sync, backend, foreign, done, applied, bounds>>

\* A new operation goes after all others, in the queue or on disk.
LEMMA EnqueueStep ==
  ASSUME Invariant, NEW op \in Op, Enqueue(op, operations, journal, first_disk), Pushing
  PROVE  Invariant'
<1> USE DEF Invariant
<1> DEFINE index == next_index + 1
           stays == first_disk # None \/ Len(queue) >= MaxSize
           kept == IF stays /\ op.mode # None THEN [op EXCEPT !.block = None, !.version = None]
                   ELSE op
<1>1. /\ next_index' = index
      /\ journal' = With(journal, index, OnDisk(op))
      /\ torn' = Without(torn, index)
      /\ operations' = With(operations, index, kept)
      /\ queue' = IF stays THEN queue ELSE Append(queue, index)
      /\ first_disk' = IF stays /\ first_disk = None THEN index ELSE first_disk
  BY DEF Enqueue
<1>2. /\ index \in Nat
      /\ \A i \in DOMAIN operations : i \in Nat /\ i < index
      /\ \A i \in DOMAIN journal : i \in DOMAIN operations
      /\ hand # None =>
           hand \in Hand /\ hand.index \in DOMAIN operations /\ hand.index \in DOMAIN journal
  BY DEF TypeOK, Ordered, Pushing, IsLeast
<1>3. /\ OnDisk(op) \in Op /\ OnDisk(op).carries = op.carries
      /\ kept \in Op /\ kept.carries = op.carries
  BY DEF OnDisk, Op
<1> HIDE DEF index, kept, stays
<1>4. /\ DOMAIN operations' = DOMAIN operations \cup {index}
      /\ DOMAIN journal' = DOMAIN journal \cup {index}
      /\ \A i \in DOMAIN operations : operations'[i] = operations[i]
      /\ \A i \in DOMAIN journal : journal'[i] = journal[i]
      /\ operations'[index].carries = journal'[index].carries
      /\ operations' \in [DOMAIN operations' -> Op] /\ journal' \in [DOMAIN journal' -> Op]
      /\ DOMAIN torn' = DOMAIN torn \ {index}
      /\ \A i \in DOMAIN torn' : torn'[i] = torn[i]
      /\ torn' \in [DOMAIN torn' -> Op]
  BY <1>1, <1>2, <1>3 DEF TypeOK, Ordered, With, Without
<1>5. /\ queue' \in Seq(Nat) /\ first_disk' \in Nat \cup {None}
      /\ Increasing(queue')
      /\ Queued(queue') \subseteq Queued(queue) \cup {index}
      /\ Queued(queue) \subseteq Queued(queue')
      /\ index \in Queued(queue') \/ (first_disk' # None /\ first_disk' <= index)
      /\ first_disk' # None => first_disk' \in DOMAIN operations'
                               /\ \A i \in Queued(queue') : i < first_disk'
      /\ first_disk # None => first_disk' = first_disk
      /\ first_disk' # None => first_disk' = first_disk \/ first_disk' = index
  <2>0. /\ Queued(queue) \subseteq DOMAIN operations /\ Increasing(queue) /\ queue \in Seq(Nat)
        /\ first_disk # None => first_disk \in DOMAIN operations
                                /\ \A i \in Queued(queue) : i < first_disk
    BY DEF TypeOK, Ordered, Placed, Pushing
  <2>1. CASE stays
    BY <2>0, <2>1, <1>1, <1>2, <1>4, NoneAssumption DEF TypeOK
  <2>2. CASE ~stays
    <3>1. queue' = Append(queue, index) /\ first_disk = None /\ first_disk' = None
      BY <2>2, <1>1 DEF stays
    <3> QED BY <2>0, <3>1, <1>2, Appended
  <2> QED BY <2>1, <2>2
<1>6. TypeOK'
  BY <1>1, <1>2, <1>4, <1>5 DEF TypeOK, Pushing, bounds
<1>7. Placed'
  BY <1>2, <1>4, <1>5 DEF TypeOK, Ordered, Placed, Pushing
<1>8. /\ \A i \in DOMAIN operations' :
           i <= next_index' /\ (i \in DOMAIN journal' => operations'[i].carries = journal'[i].carries)
      /\ DOMAIN operations' \subseteq DOMAIN journal' \cup DOMAIN torn'
      /\ DOMAIN journal' \subseteq DOMAIN operations'
      /\ \A i \in DOMAIN torn' :
           /\ i \notin DOMAIN journal' /\ torn'[i] = AddressOnly(torn'[i])
           /\ i \in DOMAIN operations' => operations'[i] = torn'[i]
      /\ Queued(queue') \subseteq DOMAIN operations' \cap DOMAIN journal'
  BY <1>1, <1>2, <1>4, <1>5 DEF TypeOK, Ordered
<1>9. ASSUME hand # None
      PROVE  /\ IsLeast(hand.index, DOMAIN operations')
             /\ hand.op.carries = journal'[hand.index].carries
             /\ \A i \in Queued(queue') : hand.index < i
             /\ first_disk' # None => hand.index < first_disk'
  BY <1>2, <1>4, <1>5, <1>9 DEF Ordered, IsLeast
<1>10. Ordered'
  BY <1>2, <1>4, <1>5, <1>7, <1>8, <1>9 DEF Ordered, Pushing
<1> QED BY <1>6, <1>10

\* A squashed operation takes the place of another, never of the one being processed.
LEMMA SquashAtFirstStep ==
  ASSUME Invariant, NEW op \in Op, NEW c \in Candidates(op), SquashAtFirst(op, c), Pushing
  PROVE  Invariant'
<1> USE DEF Invariant
<1>1. PICK v \in SquashVersions(operations[c]) :
        LET cop == operations[c]
            squashed == [op EXCEPT !.block = v, !.version = cop.version,
                                   !.carries = cop.carries \cup op.carries]
        IN  /\ operations' = [operations EXCEPT ![c] = squashed]
            /\ journal' = [journal EXCEPT ![c] = OnDisk(squashed)]
            /\ UNCHANGED <<torn, next_index, queue, first_disk>>
  BY DEF SquashAtFirst
<1> DEFINE squashed == [op EXCEPT !.block = v, !.version = operations[c].version,
                                  !.carries = operations[c].carries \cup op.carries]
<1>2. /\ c \in DOMAIN operations /\ c \in DOMAIN journal /\ operations[c] \in Op
      /\ c \notin DOMAIN torn
      /\ hand # None => hand.index # c
  <2>1. c \in DOMAIN operations /\ operations[c].resolver /\ operations[c] \in Op
    BY DEF TypeOK, Candidates
  <2>2. c \notin DOMAIN torn
    BY <2>1, AddressOnlyType DEF TypeOK, Ordered
  <2> QED BY <2>1, <2>2 DEF TypeOK, Ordered, Candidates, IsLeast
<1>3. v \in Nat
  BY <1>2, SizeAssumption DEF SquashVersions, Op
<1>4. /\ squashed \in Op
      /\ OnDisk(squashed) \in Op /\ OnDisk(squashed).carries = squashed.carries
  BY <1>2, <1>3 DEF OnDisk, Op
<1> HIDE DEF squashed
<1>5. /\ operations' = [operations EXCEPT ![c] = squashed]
      /\ journal' = [journal EXCEPT ![c] = OnDisk(squashed)]
      /\ UNCHANGED <<torn, next_index, queue, first_disk>>
  BY <1>1 DEF squashed
<1>6. TypeOK'
  BY <1>2, <1>4, <1>5 DEF TypeOK, Pushing, bounds
<1>7. Placed'
  BY <1>2, <1>5 DEF Ordered, Placed, Pushing
<1>8. \A i \in DOMAIN operations' :
        i <= next_index' /\ (i \in DOMAIN journal' => operations'[i].carries = journal'[i].carries)
  BY <1>2, <1>4, <1>5 DEF TypeOK, Ordered
<1>9. Ordered'
  BY <1>2, <1>5, <1>7, <1>8 DEF TypeOK, Ordered, Pushing, IsLeast
<1> QED BY <1>6, <1>9

\* _push_op, when no resolver squashes at the last position.
LEMMA PushStep ==
  ASSUME Squashes \cap AtLast = {}, Invariant, NEW op \in Requests, Push(op)
  PROVE  Invariant'
<1>1. op \in Op /\ TypeOK
  BY RequestType DEF Invariant
<1>2. Pushing
  BY <1>1 DEF Push, Pushing, TypeOK, Op
<1>3. PICK answer \in [Candidates(op) -> Squashes] :
        \/ Enqueue(op, operations, journal, first_disk)
        \/ \E c \in DOMAIN answer :
             \/ answer[c] \in AtFirst /\ SquashAtFirst(op, c)
             \/ answer[c] \in AtLast
  BY DEF Push, PushOp
<1>4. CASE Enqueue(op, operations, journal, first_disk)
  BY <1>1, <1>2, <1>4, EnqueueStep
<1>5. CASE \E c \in DOMAIN answer : SquashAtFirst(op, c)
  <2>1. PICK c \in Candidates(op) : SquashAtFirst(op, c)
    BY <1>5
  <2> QED BY <1>1, <1>2, <2>1, SquashAtFirstStep
<1>6. \A c \in DOMAIN answer : answer[c] \notin AtLast
  OBVIOUS
<1> QED BY <1>3, <1>4, <1>5, <1>6

\* The files: no torn one can be read, and its address is all it has.
FilesOK ==
  /\ DOMAIN journal \subseteq Nat /\ journal \in [DOMAIN journal -> Op]
  /\ DOMAIN torn \subseteq Nat /\ torn \in [DOMAIN torn -> Op]
  /\ \A i \in DOMAIN torn : i \notin DOMAIN journal /\ torn[i] = AddressOnly(torn[i])

\* A push cut short leaves the file it was writing torn, if not unreadable.
LEMMA TornStep ==
  ASSUME Invariant, NEW op \in Op, CrashInPush(op)
  PROVE  FilesOK'
<1>1. /\ next_index + 1 \in Nat
      /\ \A i \in DOMAIN journal : i \in Nat /\ i # next_index + 1
      /\ journal \in [DOMAIN journal -> Op]
      /\ torn \in [DOMAIN torn -> Op] /\ DOMAIN torn \subseteq Nat
      /\ \A i \in DOMAIN torn : i \notin DOMAIN journal /\ torn[i] = AddressOnly(torn[i])
  BY DEF CrashInPush, Invariant, TypeOK, Ordered
<1>2. ASSUME NEW i \in Nat, TearFile(op, i), i \notin DOMAIN journal',
             journal' \in [DOMAIN journal' -> Op], DOMAIN journal' \subseteq DOMAIN journal
      PROVE  FilesOK'
  <2>1. AddressOnly(op) \in Op /\ AddressOnly(AddressOnly(op)) = AddressOnly(op)
    BY AddressOnlyType
  <2>2. /\ DOMAIN torn' \subseteq DOMAIN torn \cup {i}
        /\ torn' \in [DOMAIN torn' -> Op]
        /\ \A j \in DOMAIN torn' : torn'[j] = AddressOnly(op) \/ (j \in DOMAIN torn /\ torn'[j] = torn[j])
    BY <1>1, <1>2, <2>1 DEF TearFile, With, Without
  <2> QED BY <1>1, <1>2, <2>1, <2>2 DEF FilesOK
<1>3. CASE UNCHANGED journal /\ TearFile(op, next_index + 1)
  BY <1>1, <1>2, <1>3
<1>4. ASSUME NEW c \in DOMAIN operations, journal' = Without(journal, c),
             \/ TearFile(op, c) \/ UNCHANGED torn \/ TearFile(op, next_index + 1)
      PROVE  FilesOK'
  <2>1. /\ c \in Nat /\ DOMAIN journal' = DOMAIN journal \ {c}
        /\ journal' \in [DOMAIN journal' -> Op]
    BY <1>1, <1>4 DEF Without, Invariant, TypeOK
  <2>2. CASE UNCHANGED torn
    BY <1>1, <2>1, <2>2 DEF FilesOK
  <2> QED BY <1>1, <1>2, <1>4, <2>1, <2>2
<1> QED BY <1>3, <1>4 DEF CrashInPush, Candidates

\* After a crash the files alone are left, and restoring starts afresh.
LEMMA CrashStep ==
  ASSUME Invariant, Starts, FilesOK', pushed' \in Nat, crashes' \in Nat,
         UNCHANGED <<backend, foreign, acked, done, latest, applied, failures, writes>>
  PROVE  Invariant'
<1>1. /\ operations' = << >> /\ queue' = << >> /\ first_disk' = None /\ hand' = None
      /\ pc' = "init" /\ next_index' = 1 /\ last_processed' = 0 /\ sync' = None
  BY DEF Starts
<1>2. TypeOK'
  BY <1>1 DEF Invariant, TypeOK, FilesOK
<1>3. Ordered'
  BY <1>1 DEF Ordered, Placed, Queued, Increasing, FilesOK
<1> QED BY <1>2, <1>3 DEF Invariant

\* A step of any thread keeps the invariant.
LEMMA NextInvariant ==
  ASSUME Squashes \cap AtLast = {}, Invariant, [Next]_vars
  PROVE  Invariant'
<1>1. CASE Loop
  BY <1>1, RestoreStep, RestoredStep, ReloadStep, ReloadedStep, GetStep, StoreStep DEF Loop
<1>2. ASSUME NEW op \in Requests, Push(op) PROVE Invariant'
  BY <1>2, PushStep
<1>3. ASSUME NEW op \in Requests, CrashInPush(op) PROVE Invariant'
  <2>1. FilesOK'
    BY <1>3, RequestType, TornStep DEF Invariant
  <2>2. /\ Starts /\ pushed' \in Nat /\ crashes' \in Nat
        /\ UNCHANGED <<backend, foreign, acked, done, latest, applied, failures, writes>>
    BY <1>3 DEF CrashInPush, Lost, Invariant, TypeOK
  <2> QED BY <2>1, <2>2, CrashStep
<1>4. CASE Crash \/ Restart
  <2>1. UNCHANGED <<journal, torn, pushed>> /\ Starts /\ crashes' \in Nat
    BY <1>4 DEF Crash, Restart, Lost, Invariant, TypeOK, files, history, bounds
  <2>2. FilesOK' /\ pushed' \in Nat
    BY <2>1 DEF Invariant, TypeOK, Ordered, FilesOK
  <2>3. UNCHANGED <<backend, foreign, acked, done, latest, applied, failures, writes>>
    BY <1>4 DEF Crash, Restart, history, bounds
  <2> QED BY <2>1, <2>2, <2>3, CrashStep
<1>5. ASSUME NEW a \in Addresses, ForeignUpdate(a) PROVE Invariant'
  <2>1. /\ UNCHANGED <<files, memory, backend, history, failures, crashes>>
        /\ foreign' = foreign \cup {a} /\ writes' = writes + 1
    BY <1>5 DEF ForeignUpdate
  <2>2. TypeOK'
    <3>1. foreign' \subseteq Addresses /\ writes' \in Nat
      BY <2>1 DEF Invariant, TypeOK
    <3>2. /\ UNCHANGED <<journal, torn, operations, queue, next_index, last_processed, first_disk>>
          /\ UNCHANGED <<pc, hand, sync, backend, pushed, acked, done, latest, applied>>
          /\ UNCHANGED <<failures, crashes>>
      BY <2>1 DEF files, memory, history
    <3> QED BY <3>1, <3>2 DEF Invariant, TypeOK
  <2>3. Ordered'
    BY <2>1 DEF Invariant, Ordered, Placed, files, memory
  <2> QED BY <2>2, <2>3 DEF Invariant
<1>6. CASE Sync
  BY <1>6 DEF Sync, Invariant, TypeOK, Ordered, Placed, files, history, bounds
<1>7. CASE SyncReturn
  BY <1>7 DEF SyncReturn, Invariant, TypeOK, Ordered, Placed, files, history, bounds
<1>8. CASE UNCHANGED vars
  BY <1>8 DEF vars, Invariant, TypeOK, Ordered, Placed, files, memory, history, bounds
<1> QED BY <1>1, <1>2, <1>3, <1>4, <1>5, <1>6, <1>7, <1>8 DEF Next

\* Unless a resolver squashes at the last position, every variable keeps its type.
THEOREM TypesHold ==
  ASSUME Squashes \cap AtLast = {}
  PROVE  Spec => []TypeOK
<1>1. Init => Invariant
  BY InitInvariant
<1>2. Invariant /\ [Next]_vars => Invariant'
  BY NextInvariant
<1>3. Invariant => TypeOK
  BY DEF Invariant
<1> QED BY <1>1, <1>2, <1>3, PTL DEF Spec

\* Unless a resolver squashes at the last position, the queue, the memory and the journal
\* agree whatever the pushes, failures and crashes: what can be read is queued or left on
\* disk, in order, and the assertion of _process_loop fails only on a torn file.
THEOREM OrderedHolds ==
  ASSUME Squashes \cap AtLast = {}
  PROVE  Spec => []Ordered
<1>1. Init => Invariant
  BY InitInvariant
<1>2. Invariant /\ [Next]_vars => Invariant'
  BY NextInvariant
<1>3. Invariant => Ordered
  BY DEF Invariant
<1> QED BY <1>1, <1>2, <1>3, PTL DEF Spec

\* Steps that touch neither the journal nor what was acknowledged and processed.
LEMMA DurableUnchanged ==
  ASSUME Durable, UNCHANGED <<journal, acked, done>>
  PROVE  Durable'
  BY DEF Durable, Journaled

\* A step of any thread keeps every acknowledged push in the journal until processed.
LEMMA NextDurable ==
  ASSUME Squashes \cap (AtFirst \cup AtLast) = {}, Invariant, Durable, [Next]_vars
  PROVE  Durable'
<1>0. ASSUME NEW op, NEW answer \in [Candidates(op) -> Squashes], NEW c \in DOMAIN answer
      PROVE  ~IsSquashed(c, answer)
  BY DEF IsSquashed, IsLeast, Searched
<1>1. ASSUME pc = "store", Processed PROVE Durable'
  <2>1. /\ hand # None /\ hand.index \in DOMAIN journal
        /\ hand.op.carries = journal[hand.index].carries
    BY <1>1 DEF Invariant, Ordered, IsLeast
  <2>2. /\ DOMAIN journal' = DOMAIN journal \ {hand.index}
        /\ \A i \in DOMAIN journal' : journal'[i] = journal[i]
        /\ done' = done \cup hand.op.carries /\ acked' = acked
    BY <1>1 DEF Processed, Without
  <2>3. Journaled' \cup hand.op.carries = Journaled
    BY <2>1, <2>2 DEF Journaled
  <2> QED BY <2>2, <2>3 DEF Durable
<1>2. CASE Loop
  <2>1. CASE StoreOk \/ StoreCollision
    BY <2>1, <1>1 DEF StoreOk, StoreCollision
  <2>2. CASE StoreFails \/ StoreRefused
    BY <2>2, DurableUnchanged DEF StoreFails, StoreRefused, Retry, files
  <2>3. CASE Restored \/ Reloaded \/ Get
    BY <2>3, DurableUnchanged DEF Restored, Reloaded, Get, files, history
  <2>4. ASSUME NEW i \in DOMAIN journal \cup DOMAIN torn, Restore(i) PROVE Durable'
    BY <2>4, DurableUnchanged DEF Restore, files, history
  <2>5. ASSUME NEW i \in DOMAIN operations, Reload(i) PROVE Durable'
    BY <2>5, DurableUnchanged DEF Reload, files, history
  <2> QED BY <1>2, <2>1, <2>2, <2>3, <2>4, <2>5 DEF Loop
<1>3. ASSUME NEW op \in Requests, Push(op) PROVE Durable'
  <2>1. Enqueue(op, operations, journal, first_disk)
    BY <1>3, <1>0 DEF Push, PushOp
  <2>2. op.carries = {op.id} /\ OnDisk(op).carries = {op.id}
    BY DEF Requests, NewOp, OnDisk
  <2>3. next_index + 1 \notin DOMAIN journal
    BY <1>3 DEF Push, Invariant, TypeOK, Ordered
  <2>4. /\ DOMAIN journal' = DOMAIN journal \cup {next_index + 1}
        /\ journal'[next_index + 1].carries = {op.id}
        /\ \A i \in DOMAIN journal : journal'[i] = journal[i]
    BY <2>1, <2>2, <2>3 DEF Enqueue, With
  <2>5. Journaled' = Journaled \cup {op.id}
    BY <2>4 DEF Journaled
  <2> QED BY <1>3, <2>5 DEF Push, Durable
<1>4. ASSUME NEW op \in Requests, CrashInPush(op) PROVE Durable'
  BY <1>4, <1>0, DurableUnchanged DEF CrashInPush
<1>5. ASSUME NEW a \in Addresses, ForeignUpdate(a) PROVE Durable'
  BY <1>5, DurableUnchanged DEF ForeignUpdate, files, history
<1>6. CASE Crash \/ Restart \/ Sync \/ SyncReturn \/ UNCHANGED vars
  BY <1>6, DurableUnchanged DEF Crash, Restart, Sync, SyncReturn, vars, files, history
<1> QED BY <1>2, <1>3, <1>4, <1>5, <1>6 DEF Next

\* Unless a resolver squashes, a push that returned is in a readable journal file until it
\* is processed, whenever the process dies.
THEOREM DurableHolds ==
  ASSUME Squashes \cap (AtFirst \cup AtLast) = {}
  PROVE  Spec => []Durable
<1>0. Squashes \cap AtLast = {}
  OBVIOUS
<1>1. Init => Invariant /\ Durable
  BY InitInvariant DEF Init, Durable
<1>2. Invariant /\ Durable /\ [Next]_vars => (Invariant /\ Durable)'
  BY <1>0, NextInvariant, NextDurable
<1> QED BY <1>1, <1>2, PTL DEF Spec

-----------------------------------------------------------------------------
(* Async implements WriteQueue when nothing is squashed: the journal is    *)
(* the abstract queue, and memory does not show.                           *)

\* The journal has the pushes that are not done, one by file, in the order of
\* the indexes; only the oldest may have reached the backend.
Numbered ==
  /\ pushed <= MaxPushes /\ applied <= pushed /\ done \subseteq 1..pushed
  /\ \A i \in DOMAIN journal :
       /\ journal[i].carries = {journal[i].id} /\ journal[i].id \in 1..pushed
       /\ applied <= journal[i].id
       /\ \A n \in done : n < journal[i].id
       /\ \A j \in DOMAIN journal : i < j => journal[i].id < journal[j].id
  /\ \A i \in DOMAIN operations \cap DOMAIN journal : operations[i].id = journal[i].id
  /\ hand # None => hand.op.id = journal[hand.index].id
  /\ \A a \in Addresses : backend[a] <= applied

\* The pushes in the journal, when each file has one.
LEMMA JournaledIds ==
  ASSUME \A i \in DOMAIN journal : journal[i].carries = {journal[i].id}
  PROVE  Journaled = {journal[i].id : i \in DOMAIN journal}
  BY DEF Journaled

\* Memory comes and goes, the journal and the backend stay.
LEMMA MemoryNumbered ==
  ASSUME Invariant, Numbered, Invariant',
         UNCHANGED <<journal, pushed, done, applied, backend>>,
         \A i \in DOMAIN operations' \cap DOMAIN journal : operations'[i].id = journal[i].id,
         hand' # None => hand'.op.id = journal[hand'.index].id
  PROVE  Numbered' /\ UNCHANGED Promise!vars
<1>1. Numbered'
  BY DEF Numbered
<1>2. UNCHANGED Promise!vars
  BY DEF Promise!vars, Journaled
<1> QED BY <1>1, <1>2

\* The operation being processed is the oldest of the journal.
LEMMA HandOldest ==
  ASSUME Invariant, Numbered, pc = "store"
  PROVE  /\ hand.index \in DOMAIN journal /\ hand.op.id = journal[hand.index].id
         /\ hand.op.carries = {hand.op.id}
         /\ Promise!Oldest(hand.op.id) /\ hand.op.id \in Pushes
         /\ \A i \in DOMAIN journal \ {hand.index} : hand.op.id < journal[i].id
<1>1. /\ hand # None /\ hand.index \in DOMAIN journal
      /\ hand.op.carries = journal[hand.index].carries
      /\ \A i \in DOMAIN journal : hand.index <= i
      /\ \A i \in DOMAIN journal : i \in Nat
  BY DEF Invariant, TypeOK, Ordered, IsLeast
<1>2. hand.op.id = journal[hand.index].id /\ hand.op.carries = {hand.op.id}
  BY <1>1 DEF Numbered
<1>3. \A i \in DOMAIN journal \ {hand.index} : hand.op.id < journal[i].id
  BY <1>1, <1>2 DEF Numbered
<1>4. hand.op.id \in Pushes
  BY <1>1, <1>2, SizeAssumption DEF Numbered, Pushes, Invariant, TypeOK
<1>5. Promise!Oldest(hand.op.id)
  <2>1. Journaled = {journal[i].id : i \in DOMAIN journal}
    BY JournaledIds DEF Numbered
  <2>2. hand.op.id \in Nat /\ \A i \in DOMAIN journal : journal[i].id \in Nat
    BY <1>1, <1>2 DEF Invariant, TypeOK, Op
  <2> QED BY <1>1, <1>2, <1>3, <2>1, <2>2 DEF Promise!Oldest
<1> QED BY <1>1, <1>2, <1>3, <1>4, <1>5

\* The effect of the operation is on the backend, and is the last.
LEMMA AppliedNumbered ==
  ASSUME Invariant, Numbered, pc = "store",
         Effect(hand.op) \/ (UNCHANGED <<backend, applied>> /\ applied = hand.op.id)
  PROVE  /\ applied' = hand.op.id
         /\ \A a \in Addresses : backend'[a] <= applied'
<1>1. /\ hand.op.id \in Nat /\ applied <= hand.op.id /\ applied \in Nat
      /\ backend \in [Addresses -> Nat] /\ \A a \in Addresses : backend[a] <= applied
  BY HandOldest DEF Numbered, Invariant, TypeOK, Op
<1> QED BY <1>1 DEF Effect

\* The operation is processed: a step of the abstract queue.
LEMMA ProcessedPromise ==
  ASSUME Invariant, Numbered, pc = "store", Processed, Invariant',
         Effect(hand.op) \/ (UNCHANGED <<backend, applied>> /\ applied = hand.op.id)
  PROVE  Numbered' /\ Promise!Finish(hand.op.id)
<1> DEFINE n == hand.op.id
<1>1. /\ hand.index \in DOMAIN journal /\ n = journal[hand.index].id
      /\ hand.op.carries = {n} /\ Promise!Oldest(n) /\ n \in Pushes
      /\ \A i \in DOMAIN journal \ {hand.index} : n < journal[i].id
  BY HandOldest
<1>2. applied' = n /\ \A a \in Addresses : backend'[a] <= applied'
  BY AppliedNumbered
<1>3. /\ DOMAIN journal' = DOMAIN journal \ {hand.index}
      /\ \A i \in DOMAIN journal' : journal'[i] = journal[i]
      /\ DOMAIN operations' = DOMAIN operations \ {hand.index}
      /\ \A i \in DOMAIN operations' : operations'[i] = operations[i]
      /\ done' = done \cup {n} /\ hand' = None /\ pushed' = pushed
  BY <1>1 DEF Processed, Without
<1>4. n \in 1..pushed /\ pushed \in Nat /\ \A i \in DOMAIN journal : journal[i].id \in Nat
  BY <1>1 DEF Numbered, Invariant, TypeOK, Op
<1> HIDE DEF n
<1>5. Numbered'
  <2>1. \A i \in DOMAIN journal' :
          /\ journal'[i].carries = {journal'[i].id} /\ journal'[i].id \in 1..pushed'
          /\ applied' <= journal'[i].id
          /\ \A m \in done' : m < journal'[i].id
          /\ \A j \in DOMAIN journal' : i < j => journal'[i].id < journal'[j].id
    <3> SUFFICES ASSUME NEW i \in DOMAIN journal'
                 PROVE  /\ journal'[i].carries = {journal'[i].id} /\ journal'[i].id \in 1..pushed'
                        /\ applied' <= journal'[i].id
                        /\ \A m \in done' : m < journal'[i].id
                        /\ \A j \in DOMAIN journal' : i < j => journal'[i].id < journal'[j].id
      OBVIOUS
    <3>1. i \in DOMAIN journal /\ journal'[i] = journal[i] /\ n < journal[i].id
      BY <1>1, <1>3
    <3>2. /\ journal[i].carries = {journal[i].id} /\ journal[i].id \in 1..pushed
          /\ \A m \in done : m < journal[i].id
          /\ \A j \in DOMAIN journal : i < j => journal[i].id < journal[j].id
      BY <3>1 DEF Numbered
    <3>3. \A j \in DOMAIN journal' : i < j => journal'[i].id < journal'[j].id
      BY <1>3, <3>1, <3>2
    <3>4. \A m \in done' : m < journal'[i].id
      BY <1>3, <3>1, <3>2
    <3>5. applied' <= journal'[i].id
      BY <1>2, <1>4, <3>1
    <3> QED BY <1>3, <3>1, <3>2, <3>3, <3>4, <3>5
  <2>2. \A i \in DOMAIN operations' \cap DOMAIN journal' : operations'[i].id = journal'[i].id
    BY <1>3 DEF Numbered
  <2>3. pushed' <= MaxPushes /\ applied' <= pushed' /\ done' \subseteq 1..pushed'
    BY <1>2, <1>3, <1>4 DEF Numbered
  <2> QED BY <1>2, <1>3, <2>1, <2>2, <2>3 DEF Numbered
<1>6. Journaled' = Journaled \ {n}
  <2>1. Journaled = {journal[i].id : i \in DOMAIN journal}
    BY JournaledIds DEF Numbered
  <2>2. Journaled' = {journal'[i].id : i \in DOMAIN journal'}
    BY <1>5 DEF Numbered, Journaled
  <2> QED BY <1>1, <1>3, <1>4, <2>1, <2>2
<1>7. Promise!Finish(n)
  BY <1>1, <1>2, <1>3, <1>6 DEF Promise!Finish
<1> QED BY <1>5, <1>7 DEF n

\* An attempt that fails, before or after its effect.
LEMMA FailsPromise ==
  ASSUME Invariant, Numbered, StoreFails \/ StoreRefused, Invariant'
  PROVE  Numbered' /\ [Promise!Next]_(Promise!vars)
<1>1. /\ pc = "store" /\ Retry /\ hand # None
      /\ UNCHANGED <<backend, foreign, applied>> \/ Effect(hand.op)
  BY DEF StoreFails, StoreRefused, Invariant, Ordered
<1>2. /\ hand'.op.id = journal[hand'.index].id
      /\ UNCHANGED <<journal, operations, pushed, done>>
  BY <1>1 DEF Retry, Invariant, TypeOK, Hand, files
<1>3. CASE UNCHANGED <<backend, foreign, applied>>
  BY <1>2, <1>3, MemoryNumbered DEF Numbered
<1>4. CASE Effect(hand.op)
  <2> DEFINE n == hand.op.id
  <2>1. applied' = n /\ \A a \in Addresses : backend'[a] <= applied'
    BY <1>1, <1>4, AppliedNumbered
  <2>2. /\ hand.index \in DOMAIN journal /\ n = journal[hand.index].id
        /\ Promise!Oldest(n) /\ n \in Pushes
        /\ \A i \in DOMAIN journal \ {hand.index} : n < journal[i].id
    BY <1>1, HandOldest
  <2>3. n \in 1..pushed /\ pushed \in Nat
    BY <2>2 DEF Numbered, Invariant, TypeOK
  <2> HIDE DEF n
  <2>4. Numbered'
    BY <1>2, <2>1, <2>2, <2>3 DEF Numbered
  <2>5. Journaled' = Journaled
    BY <1>2 DEF Journaled
  <2>6. Promise!Apply(n)
    BY <1>2, <2>1, <2>2, <2>5 DEF Promise!Apply
  <2> QED BY <2>2, <2>4, <2>6 DEF Promise!Next
<1> QED BY <1>1, <1>3, <1>4

\* A push is a push.
LEMMA PushPromise ==
  ASSUME Invariant, Numbered, NEW op \in Requests,
         Enqueue(op, operations, journal, first_disk), Push(op), Invariant'
  PROVE  Numbered' /\ Promise!Push(op.id) /\ op.id \in Pushes
<1> DEFINE index == next_index + 1
<1>1. op.id = pushed + 1 /\ op.carries = {op.id}
  BY DEF Requests, NewOp
<1>2. /\ \A i \in DOMAIN journal : i \in DOMAIN operations /\ i \in Nat /\ i < index
      /\ index \notin DOMAIN journal /\ index \notin DOMAIN operations
      /\ pushed \in Nat
      /\ (hand # None => hand.index \in DOMAIN journal)
  <2> HIDE DEF index
  <2>1. /\ DOMAIN journal \subseteq DOMAIN operations /\ DOMAIN operations \subseteq Nat
        /\ \A i \in DOMAIN operations : i <= next_index
    BY DEF Push, Invariant, TypeOK, Ordered
  <2>2. pushed \in Nat /\ next_index \in Nat
    BY DEF Invariant, TypeOK
  <2>3. (hand # None => hand.index \in DOMAIN journal)
    BY DEF Invariant, Ordered, IsLeast
  <2>4. \A i \in DOMAIN operations : i < index
    BY <2>1, <2>2 DEF index
  <2> QED BY <2>1, <2>2, <2>3, <2>4
<1>3. op \in Op
  BY RequestType DEF Invariant
<1>4. /\ DOMAIN journal' = DOMAIN journal \cup {index}
      /\ journal'[index].id = op.id /\ journal'[index].carries = {op.id}
      /\ \A i \in DOMAIN journal : journal'[i] = journal[i]
      /\ DOMAIN operations' = DOMAIN operations \cup {index}
      /\ operations'[index].id = op.id
      /\ \A i \in DOMAIN operations : operations'[i] = operations[i]
  BY <1>1, <1>2, <1>3 DEF Enqueue, With, OnDisk, Op
<1>5. /\ pushed' = pushed + 1 /\ pushed' <= MaxPushes /\ pushed < MaxPushes
      /\ UNCHANGED <<hand, backend, done, applied>>
  BY <1>2, SizeAssumption DEF Push
<1> HIDE DEF index
<1>6. Numbered'
  <2>1. \A i \in DOMAIN journal : journal[i].id \in 1..pushed /\ journal[i].id < op.id
    BY <1>1, <1>2 DEF Numbered
  <2>2. \A i \in DOMAIN journal' :
          /\ journal'[i].carries = {journal'[i].id} /\ journal'[i].id \in 1..pushed'
          /\ applied' <= journal'[i].id
          /\ \A m \in done' : m < journal'[i].id
    <3>1. op.id = pushed' /\ op.id \in 1..pushed' /\ 1..pushed \subseteq 1..pushed'
      BY <1>1, <1>2, <1>5
    <3>2. applied <= op.id /\ \A m \in done : m < op.id
      BY <1>1, <1>2 DEF Numbered, Invariant, TypeOK
    <3>3. \A i \in DOMAIN journal :
            /\ journal'[i].carries = {journal'[i].id} /\ journal'[i].id \in 1..pushed
            /\ applied <= journal'[i].id
            /\ \A m \in done : m < journal'[i].id
      BY <1>4 DEF Numbered
    <3> QED BY <1>4, <1>5, <3>1, <3>2, <3>3
  <2>3. \A i, j \in DOMAIN journal' : i < j => journal'[i].id < journal'[j].id
    <3>1. index \in Nat
      BY DEF index, Invariant, TypeOK
    <3> QED BY <1>2, <1>4, <2>1, <3>1 DEF Numbered
  <2>4. \A i \in DOMAIN operations' \cap DOMAIN journal' : operations'[i].id = journal'[i].id
    BY <1>2, <1>4 DEF Numbered
  <2>5. hand' # None => hand'.op.id = journal'[hand'.index].id
    BY <1>2, <1>4, <1>5 DEF Numbered
  <2>6. applied' <= pushed' /\ done' \subseteq 1..pushed'
    BY <1>2, <1>5 DEF Numbered, Invariant, TypeOK
  <2> QED BY <1>5, <2>2, <2>3, <2>4, <2>5, <2>6 DEF Numbered
<1>7. Journaled' = Journaled \cup {op.id}
  <2>1. Journaled = {journal[i].id : i \in DOMAIN journal}
    BY JournaledIds DEF Numbered
  <2>2. Journaled' = {journal'[i].id : i \in DOMAIN journal'}
    BY <1>6 DEF Numbered, Journaled
  <2> QED BY <1>4, <2>1, <2>2
<1>8. \A m \in Journaled \cup done \cup {applied} : m < op.id
  <2>1. Journaled = {journal[i].id : i \in DOMAIN journal}
    BY JournaledIds DEF Numbered
  <2>2. \A m \in done \cup {applied} : m < op.id
    BY <1>1, <1>2 DEF Numbered, Invariant, TypeOK
  <2>3. \A i \in DOMAIN journal : journal[i].id < op.id
    BY <1>1, <1>2 DEF Numbered
  <2> QED BY <2>1, <2>2, <2>3
<1>9. op.id \in Pushes
  BY <1>1, <1>2, <1>5, SizeAssumption DEF Pushes
<1> QED BY <1>5, <1>6, <1>7, <1>8, <1>9 DEF Promise!Push

\* Every step is a step of the abstract queue, or does not show.
LEMMA NextPromise ==
  ASSUME Squashes \cap (AtFirst \cup AtLast) = {}, Invariant, Numbered, [Next]_vars, Invariant'
  PROVE  Numbered' /\ [Promise!Next]_(Promise!vars)
<1>0. ASSUME NEW op, NEW answer \in [Candidates(op) -> Squashes], NEW c \in DOMAIN answer
      PROVE  ~IsSquashed(c, answer)
  BY DEF IsSquashed, IsLeast, Searched
<1>1. CASE StoreOk
  <2>1. Numbered' /\ Promise!Finish(hand.op.id) /\ hand.op.id \in Pushes
    BY <1>1, ProcessedPromise, HandOldest DEF StoreOk
  <2> QED BY <2>1 DEF Promise!Next
<1>2. CASE StoreCollision
  <2>1. pc = "store" /\ Processed /\ UNCHANGED <<backend, applied>>
    BY <1>2 DEF StoreCollision
  <2>2. /\ hand.op.id = journal[hand.index].id /\ hand.index \in DOMAIN journal
        /\ hand.op.id \in Pushes
    BY <2>1, HandOldest
  <2>3. hand.op.address \in Addresses /\ backend[hand.op.address] = hand.op.id
    BY <1>2, <2>1, <2>2 DEF StoreCollision, Invariant, TypeOK, Ordered, Hand, Op
  <2>4. applied = hand.op.id
    <3>1. backend[hand.op.address] <= applied /\ applied <= journal[hand.index].id
      BY <2>2, <2>3 DEF Numbered
    <3>2. applied \in Nat /\ hand.op.id \in Nat
      BY <2>2 DEF Invariant, TypeOK, Op
    <3> QED BY <2>2, <2>3, <3>1, <3>2
  <2>5. Numbered' /\ Promise!Finish(hand.op.id)
    BY <2>1, <2>4, ProcessedPromise
  <2> QED BY <2>2, <2>5 DEF Promise!Next
<1>3. CASE StoreFails \/ StoreRefused
  BY <1>3, FailsPromise
<1>4. ASSUME NEW op \in Requests, Push(op)
      PROVE  Numbered' /\ [Promise!Next]_(Promise!vars)
  <2>1. Enqueue(op, operations, journal, first_disk)
    BY <1>4, <1>0 DEF Push, PushOp
  <2>2. Numbered' /\ Promise!Push(op.id) /\ op.id \in Pushes
    BY <1>4, <2>1, PushPromise
  <2> QED BY <2>2 DEF Promise!Next
<1>5. ASSUME NEW op \in Requests, CrashInPush(op)
      PROVE  Numbered' /\ [Promise!Next]_(Promise!vars)
  <2>1. /\ UNCHANGED <<journal, done, applied, backend>> /\ operations' = << >> /\ hand' = None
        /\ pushed' = pushed + 1 /\ pushed < MaxPushes
    BY <1>5, <1>0 DEF CrashInPush, Lost, Starts
  <2>2. pushed \in Nat /\ pushed' <= MaxPushes /\ 1..pushed \subseteq 1..pushed'
    <3>1. pushed \in Nat
      BY DEF Invariant, TypeOK
    <3> QED BY <2>1, <3>1, SizeAssumption
  <2>3. Numbered'
    BY <2>1, <2>2 DEF Numbered, Invariant, TypeOK
  <2>4. UNCHANGED Promise!vars
    BY <2>1 DEF Promise!vars, Journaled
  <2> QED BY <2>3, <2>4
<1>6. ASSUME NEW i \in DOMAIN journal \cup DOMAIN torn, Restore(i)
      PROVE  Numbered' /\ [Promise!Next]_(Promise!vars)
  <2>1. /\ UNCHANGED <<journal, pushed, done, applied, backend, hand>>
        /\ \A j \in DOMAIN operations' \cap DOMAIN journal : operations'[j].id = journal[j].id
    <3>1. /\ UNCHANGED <<files, hand, backend, foreign, history>>
          /\ DOMAIN operations' = DOMAIN operations \cup {i}
          /\ \A j \in DOMAIN operations : operations'[j] = operations[j]
          /\ i \in DOMAIN journal => operations'[i].id = journal[i].id
      BY <1>6, RestoreStep
    <3> QED BY <3>1 DEF Numbered, files, history
  <2> QED BY <2>1, MemoryNumbered DEF Numbered
<1>7. ASSUME NEW i \in DOMAIN operations, Reload(i)
      PROVE  Numbered' /\ [Promise!Next]_(Promise!vars)
  <2>1. /\ UNCHANGED <<journal, pushed, done, applied, backend, hand>>
        /\ \A j \in DOMAIN operations' \cap DOMAIN journal : operations'[j].id = journal[j].id
    BY <1>7, ReloadStep DEF Numbered, files, history
  <2> QED BY <2>1, MemoryNumbered DEF Numbered
<1>8. CASE Get
  <2>1. /\ UNCHANGED <<journal, pushed, done, applied, backend>>
        /\ \A j \in DOMAIN operations' \cap DOMAIN journal : operations'[j].id = journal[j].id
    BY <1>8, GetStep DEF Numbered, files, history
  <2>2. hand' # None => hand'.op.id = journal[hand'.index].id
    BY <1>8, GetStep DEF Numbered
  <2> QED BY <2>1, <2>2, MemoryNumbered
<1>9. CASE Restored \/ Reloaded \/ Sync \/ SyncReturn
  BY <1>9, MemoryNumbered DEF Restored, Reloaded, Sync, SyncReturn, files, history, Numbered
<1>10. CASE Crash \/ Restart
  <2>1. /\ UNCHANGED <<journal, pushed, done, applied, backend>> /\ hand' = None
        /\ operations' = << >>
    BY <1>10 DEF Crash, Restart, Lost, Starts, files, history
  <2>2. \A j \in DOMAIN operations' : operations'[j].id = journal[j].id
    BY <2>1
  <2> QED BY <2>1, <2>2, MemoryNumbered
<1>11. ASSUME NEW a \in Addresses, ForeignUpdate(a)
       PROVE  Numbered' /\ [Promise!Next]_(Promise!vars)
  BY <1>11, MemoryNumbered DEF ForeignUpdate, files, memory, history, Numbered
<1>12. CASE UNCHANGED vars
  BY <1>12, MemoryNumbered DEF vars, files, memory, history, Numbered
<1> QED BY <1>1, <1>2, <1>3, <1>4, <1>5, <1>6, <1>7, <1>8, <1>9, <1>10, <1>11, <1>12
        DEF Next, Loop

\* Unless a resolver squashes, whatever the capacity, the failures and the crashes, the
\* pushes are played on the backend in their order, and none is left out.
THEOREM ImplementsWriteQueue ==
  ASSUME Squashes \cap (AtFirst \cup AtLast) = {}
  PROVE  Spec => PlaysInOrder
<1>0. Squashes \cap AtLast = {}
  OBVIOUS
<1>1. Init => Invariant /\ Numbered /\ Promise!Init
  <2>1. Init => Numbered /\ Promise!Init
    <3>1. Init => Numbered
      BY SizeAssumption DEF Init, Numbered
    <3>2. Init => Promise!Init
      BY DEF Init, Promise!Init, Journaled
    <3> QED BY <3>1, <3>2
  <2> QED BY <2>1, InitInvariant
<1>2. Invariant /\ Numbered /\ [Next]_vars =>
        (Invariant /\ Numbered)' /\ [Promise!Next]_(Promise!vars)
  BY <1>0, NextInvariant, NextPromise
<1> QED BY <1>1, <1>2, PTL DEF Spec, PlaysInOrder, Promise!Spec

-----------------------------------------------------------------------------
(* A client reads its writes when nothing is squashed.                     *)

\* What a fetch returns of an operation, and the operations of an address.
Value(op) == IF op.mode = None THEN 0 ELSE op.id
OfAddress(a) == {i \in DOMAIN journal : journal[i].address = a}

\* The last operation of the address has the last block pushed or, once there is none,
\* the backend does.
Current(a) ==
  \/ OfAddress(a) = {} /\ (a \in foreign \/ backend[a] = latest[a])
  \/ \E i \in OfAddress(a) : IsGreatest(i, OfAddress(a)) /\ latest[a] = Value(journal[i])

\* Memory has the block of the journal or none; the mode too once queued or processed.
Content ==
  /\ \A i \in DOMAIN journal : journal[i].block = None <=> journal[i].mode = None
  /\ \A i \in DOMAIN operations \cap DOMAIN journal :
       /\ operations[i].address = journal[i].address
       /\ operations[i].block \in {None, journal[i].block}
  /\ \A i \in Queued(queue) : operations[i].mode = journal[i].mode
  /\ hand # None => /\ hand.op.address = journal[hand.index].address
                    /\ hand.op.mode = journal[hand.index].mode

\* The backend is updated by another client, or by a processed operation that is still
\* in the journal: what is current still is.
LEMMA CurrentKept ==
  ASSUME NEW a, Current(a), UNCHANGED <<journal, latest>>,
         OfAddress(a) # {} \/ (backend'[a] = backend[a] /\ (a \in foreign => a \in foreign'))
  PROVE  Current(a)'
<1>1. OfAddress(a)' = OfAddress(a)
  BY DEF OfAddress
<1> QED BY <1>1 DEF Current

\* What is in memory answers as the journal does, unless its file is torn.
LEMMA FetchReads ==
  ASSUME Invariant, Numbered, Content, pc \in {"get", "store"},
         NEW a \in Addresses \ foreign, Current(a)
  PROVE  \/ Fetch(a) = latest[a]
         \/ Fetch(a) = None /\ \E i \in DOMAIN torn : IsGreatest(i, Pending(a))
<1>1. /\ DOMAIN journal \subseteq DOMAIN operations /\ DOMAIN operations \subseteq Nat
      /\ DOMAIN operations \subseteq DOMAIN journal \cup DOMAIN torn
      /\ \A i \in DOMAIN operations : i <= next_index
      /\ next_index \in Nat
      /\ \A i \in DOMAIN torn \cap DOMAIN operations : operations[i].block = None
  <2>1. ASSUME NEW i \in DOMAIN torn \cap DOMAIN operations
        PROVE  operations[i].block = None
    <3>1. torn[i] \in Op /\ operations[i] = AddressOnly(torn[i])
      BY <2>1 DEF Invariant, TypeOK, Ordered
    <3> QED BY <3>1, AddressOnlyType
  <2> QED BY <2>1 DEF Invariant, TypeOK, Ordered
<1>2. OfAddress(a) = Pending(a) \cap DOMAIN journal
  BY <1>1 DEF Content, OfAddress, Pending
<1>3. \A i \in DOMAIN journal : FetchCache(i) = Value(journal[i])
  <2>1. DOMAIN torn \cap DOMAIN journal = {}
    BY DEF Invariant, Ordered
  <2> QED BY <1>1, <2>1 DEF Content, Numbered, FetchCache, Value
<1>4. CASE Pending(a) = {}
  BY <1>2, <1>4 DEF Fetch, Current
<1>5. CASE Pending(a) # {}
  <2>1. PICK i \in Pending(a) : IsGreatest(i, Pending(a))
    <3>1. Pending(a) \subseteq Nat /\ \A i \in Pending(a) : i <= next_index
      BY <1>1 DEF Pending
    <3> QED BY <1>1, <1>5, <3>1, GreatestNatural
  <2>2. \A j \in Pending(a) : IsGreatest(j, Pending(a)) => j = i
    BY <1>1, <2>1 DEF IsGreatest, Pending
  <2>3. (CHOOSE j \in Pending(a) : IsGreatest(j, Pending(a))) = i
    BY <2>1, <2>2
  <2>4. Fetch(a) = FetchCache(i)
    BY <1>5, <2>3 DEF Fetch
  <2>5. CASE i \in DOMAIN journal
    <3>1. i \in OfAddress(a) /\ IsGreatest(i, OfAddress(a))
      BY <1>2, <2>1, <2>5 DEF IsGreatest
    <3>2. PICK j \in OfAddress(a) : IsGreatest(j, OfAddress(a)) /\ latest[a] = Value(journal[j])
      BY <3>1 DEF Current
    <3>3. j = i
      BY <1>1, <3>1, <3>2 DEF IsGreatest, OfAddress
    <3> QED BY <1>3, <2>4, <2>5, <3>2, <3>3
  <2>6. CASE i \notin DOMAIN journal
    <3>1. i \in DOMAIN torn \cap DOMAIN operations
      BY <1>1, <2>1, <2>6 DEF Pending
    <3> QED BY <1>1, <2>1, <2>4, <3>1 DEF FetchCache
  <2> QED BY <2>5, <2>6
<1> QED BY <1>4, <1>5

\* The operation is on the backend when it leaves the journal.
LEMMA ProcessedReads ==
  ASSUME Invariant, Numbered, Content, \A a \in Addresses : Current(a), pc = "store", Processed,
         \/ Effect(hand.op)
         \/ /\ UNCHANGED <<backend, foreign>>
            /\ backend[hand.op.address] = Value(hand.op)
  PROVE  Content' /\ \A a \in Addresses : Current(a)'
<1>1. /\ hand.index \in DOMAIN journal /\ hand.op.id = journal[hand.index].id
      /\ hand.op.address = journal[hand.index].address
      /\ hand.op.mode = journal[hand.index].mode
      /\ hand.index \in Nat /\ hand.op \in Op /\ hand # None
  <2>1. hand # None /\ hand \in Hand
    BY DEF Invariant, TypeOK, Ordered
  <2> QED BY <2>1, HandOldest DEF Content, Hand
<1>2. \A i \in DOMAIN journal : i \in Nat /\ hand.index <= i
  BY <1>1 DEF Invariant, TypeOK, Ordered, IsLeast
<1>3. /\ DOMAIN journal' = DOMAIN journal \ {hand.index}
      /\ \A i \in DOMAIN journal' : journal'[i] = journal[i]
      /\ DOMAIN operations' = DOMAIN operations \ {hand.index}
      /\ \A i \in DOMAIN operations' : operations'[i] = operations[i]
      /\ hand' = None /\ UNCHANGED <<latest, queue>>
  BY DEF Processed, Without
<1>4. Content'
  <2>1. Queued(queue') = Queued(queue) /\ hand.index \notin Queued(queue)
    <3>1. \A i \in Queued(queue) : hand.index < i
      BY <1>1 DEF Invariant, Ordered
    <3> QED BY <1>1, <1>3, <3>1
  <2>2. Queued(queue) \subseteq DOMAIN operations \cap DOMAIN journal
    BY DEF Invariant, Ordered
  <2>3. \A i \in DOMAIN operations' \cap DOMAIN journal' :
          /\ operations'[i].address = journal'[i].address
          /\ operations'[i].block \in {None, journal'[i].block}
    BY <1>3 DEF Content
  <2>4. \A i \in Queued(queue') : operations'[i].mode = journal'[i].mode
    BY <1>3, <2>1, <2>2 DEF Content
  <2> QED BY <1>3, <2>3, <2>4 DEF Content
<1>5. ASSUME NEW a \in Addresses
      PROVE  Current(a)'
  <2>1. OfAddress(a)' = OfAddress(a) \ {hand.index}
    BY <1>3 DEF OfAddress
  <2>2. CASE a # hand.op.address
    <3>1. hand.index \notin OfAddress(a)
      BY <1>1, <2>2 DEF OfAddress
    <3>2. backend'[a] = backend[a] /\ (a \in foreign => a \in foreign')
      BY <2>2 DEF Effect, Invariant, TypeOK
    <3> QED BY <1>3, <2>1, <3>1, <3>2, <1>5 DEF Current, OfAddress
  <2>3. CASE a = hand.op.address
    <3>1. PICK i \in OfAddress(a) : IsGreatest(i, OfAddress(a)) /\ latest[a] = Value(journal[i])
      BY <1>1, <1>5, <2>3 DEF Current, OfAddress
    <3>2. CASE i = hand.index
      <4>1. \A j \in OfAddress(a) : j = hand.index
        BY <1>1, <1>2, <3>1, <3>2 DEF IsGreatest, OfAddress
      <4>2. backend'[a] = Value(hand.op)
        BY <1>1, <2>3 DEF Effect, Value, Invariant, TypeOK, Op
      <4>3. Value(hand.op) = Value(journal[i])
        BY <1>1, <3>2 DEF Value
      <4> QED BY <1>3, <2>1, <3>1, <4>1, <4>2, <4>3 DEF Current
    <3>3. CASE i # hand.index
      <4>1. i \in OfAddress(a)' /\ IsGreatest(i, OfAddress(a)')
        BY <2>1, <3>1, <3>3 DEF IsGreatest
      <4>2. journal'[i] = journal[i] /\ latest' = latest
        BY <1>3, <4>1 DEF OfAddress
      <4>3. latest'[a] = Value(journal'[i])
        BY <3>1, <4>2
      <4> QED BY <4>1, <4>3 DEF Current, IsGreatest, Value
    <3> QED BY <3>2, <3>3
  <2> QED BY <2>2, <2>3
<1> QED BY <1>4, <1>5

\* A push is the last of its address.
LEMMA PushReads ==
  ASSUME Invariant, Numbered, Content, \A a \in Addresses : Current(a), NEW op \in Requests,
         Enqueue(op, operations, journal, first_disk), Push(op)
  PROVE  Content' /\ \A a \in Addresses : Current(a)'
<1> DEFINE index == next_index + 1
<1>1. op \in Op /\ (op.block = None <=> op.mode = None)
  <2>1. PICK a \in Addresses, mode \in {"insert", "update", None}, resolver \in BOOLEAN :
          op = NewOp(a, mode, resolver)
    BY DEF Requests
  <2>2. pushed + 1 # None
    BY NoneAssumption DEF Invariant, TypeOK
  <2> QED BY <2>1, <2>2, RequestType DEF NewOp, Invariant
<1>2. /\ \A i \in DOMAIN operations : i \in Nat /\ i < index
      /\ DOMAIN journal \subseteq DOMAIN operations /\ index \in Nat
      /\ Queued(queue) \subseteq DOMAIN operations \cap DOMAIN journal /\ queue \in Seq(Nat)
      /\ (hand # None => hand.index \in DOMAIN journal)
  <2> HIDE DEF index
  <2>1. /\ DOMAIN journal \subseteq DOMAIN operations /\ DOMAIN operations \subseteq Nat
        /\ \A i \in DOMAIN operations : i <= next_index
        /\ Queued(queue) \subseteq DOMAIN operations \cap DOMAIN journal
    BY DEF Push, Invariant, TypeOK, Ordered
  <2>2. next_index \in Nat /\ queue \in Seq(Nat)
    BY DEF Invariant, TypeOK
  <2>3. (hand # None => hand.index \in DOMAIN journal)
    BY DEF Invariant, Ordered, IsLeast
  <2>4. \A i \in DOMAIN operations : i < index
    BY <2>1, <2>2 DEF index
  <2>5. index \in Nat
    BY <2>2 DEF index
  <2> QED BY <2>1, <2>2, <2>3, <2>4, <2>5
<1>3. /\ DOMAIN journal' = DOMAIN journal \cup {index}
      /\ journal'[index].address = op.address /\ journal'[index].mode = op.mode
      /\ journal'[index].id = op.id /\ journal'[index].block = op.block
      /\ \A i \in DOMAIN journal : journal'[i] = journal[i]
  <2>1. /\ OnDisk(op).address = op.address /\ OnDisk(op).mode = op.mode
        /\ OnDisk(op).id = op.id /\ OnDisk(op).block = op.block
    BY <1>1 DEF OnDisk, Op
  <2>2. journal' = With(journal, index, OnDisk(op))
    BY DEF Enqueue
  <2> HIDE DEF index
  <2> QED BY <1>2, <2>1, <2>2 DEF With
<1>4. /\ DOMAIN operations' = DOMAIN operations \cup {index}
      /\ operations'[index].address = op.address /\ operations'[index].mode = op.mode
      /\ operations'[index].block \in {None, op.block}
      /\ \A i \in DOMAIN operations : operations'[i] = operations[i]
  <2> DEFINE stays == first_disk # None \/ Len(queue) >= MaxSize
             kept == IF stays /\ op.mode # None
                     THEN [op EXCEPT !.block = None, !.version = None] ELSE op
  <2>1. kept.address = op.address /\ kept.mode = op.mode /\ kept.block \in {None, op.block}
    BY <1>1 DEF Op
  <2>2. operations' = With(operations, index, kept)
    BY DEF Enqueue
  <2> HIDE DEF kept, index
  <2> QED BY <1>2, <2>1, <2>2 DEF With
<1>5. Queued(queue') \subseteq Queued(queue) \cup {index}
  BY <1>2, Appended DEF Enqueue
<1>6. /\ hand' = hand /\ UNCHANGED <<backend, foreign>>
      /\ latest' = [latest EXCEPT ![op.address] = Value(op)]
      /\ latest \in [Addresses -> Nat]
  BY DEF Push, Value, Invariant, TypeOK
<1> HIDE DEF index
<1>7. Content'
  <2>1. \A i \in DOMAIN journal' : journal'[i].block = None <=> journal'[i].mode = None
    BY <1>1, <1>3 DEF Content
  <2>2. \A i \in DOMAIN operations' \cap DOMAIN journal' :
          /\ operations'[i].address = journal'[i].address
          /\ operations'[i].block \in {None, journal'[i].block}
    BY <1>2, <1>3, <1>4 DEF Content
  <2>3. \A i \in Queued(queue') : operations'[i].mode = journal'[i].mode
    BY <1>2, <1>3, <1>4, <1>5 DEF Content
  <2>4. hand' # None => /\ hand'.op.address = journal'[hand'.index].address
                        /\ hand'.op.mode = journal'[hand'.index].mode
    BY <1>2, <1>3, <1>6 DEF Content
  <2> QED BY <2>1, <2>2, <2>3, <2>4 DEF Content
<1>8. ASSUME NEW a \in Addresses
      PROVE  Current(a)'
  <2>1. CASE a = op.address
    <3>1. OfAddress(a)' = OfAddress(a) \cup {index}
      BY <1>3, <2>1 DEF OfAddress
    <3>2. IsGreatest(index, OfAddress(a)')
      BY <1>2, <3>1 DEF IsGreatest, OfAddress
    <3>3. latest'[a] = Value(journal'[index])
      BY <1>3, <1>6, <2>1 DEF Value
    <3> QED BY <3>1, <3>2, <3>3 DEF Current
  <2>2. CASE a # op.address
    <3>1. OfAddress(a)' = OfAddress(a)
      BY <1>2, <1>3, <2>2 DEF OfAddress
    <3>2. latest'[a] = latest[a]
      BY <1>6, <2>2
    <3> QED BY <1>3, <1>6, <1>8, <3>1, <3>2 DEF Current, OfAddress, Value
  <2> QED BY <2>1, <2>2
<1> QED BY <1>7, <1>8

\* Every step keeps what a client reads.
LEMMA NextReads ==
  ASSUME Squashes \cap (AtFirst \cup AtLast) = {}, Invariant, Numbered, Content,
         \A a \in Addresses : Current(a), [Next]_vars
  PROVE  Content' /\ \A a \in Addresses : Current(a)'
<1>0. ASSUME NEW op, NEW answer \in [Candidates(op) -> Squashes], NEW c \in DOMAIN answer
      PROVE  ~IsSquashed(c, answer)
  BY DEF IsSquashed, IsLeast, Searched
<1>1. CASE StoreOk
  BY <1>1, ProcessedReads DEF StoreOk
<1>2. CASE StoreCollision
  <2>1. /\ pc = "store" /\ Processed /\ UNCHANGED <<backend, foreign>>
        /\ backend[hand.op.address] = journal[hand.index].id /\ Backend(hand.op) = "collision"
    BY <1>2 DEF StoreCollision
  <2>2. hand.op.mode # None
    <3>1. ASSUME hand.op.mode = None PROVE Backend(hand.op) = "ok"
      BY <3>1, NoneAssumption DEF Backend
    <3> QED BY <2>1, <3>1
  <2>3. backend[hand.op.address] = Value(hand.op)
    BY <2>1, <2>2, HandOldest DEF Value
  <2> QED BY <2>1, <2>3, ProcessedReads
<1>3. CASE StoreFails \/ StoreRefused
  <2>1. /\ pc = "store" /\ Retry /\ hand # None
        /\ UNCHANGED <<backend, foreign>> \/ Effect(hand.op)
    BY <1>3 DEF StoreFails, StoreRefused, Invariant, Ordered
  <2>2. /\ hand'.index = hand.index /\ hand'.op = journal[hand.index]
        /\ UNCHANGED <<journal, operations, queue, latest>>
    BY <2>1 DEF Retry, Invariant, TypeOK, Hand, files
  <2>3. Content'
    BY <2>2 DEF Content, Queued
  <2>4. OfAddress(hand.op.address) # {}
    BY <2>1, HandOldest DEF Content, OfAddress
  <2>5. \A a \in Addresses :
          OfAddress(a) # {} \/ (backend'[a] = backend[a] /\ (a \in foreign => a \in foreign'))
    BY <2>1, <2>4 DEF Effect, Invariant, TypeOK
  <2> QED BY <2>2, <2>3, <2>5, CurrentKept
<1>4. ASSUME NEW op \in Requests, Push(op)
      PROVE  Content' /\ \A a \in Addresses : Current(a)'
  <2>1. Enqueue(op, operations, journal, first_disk)
    BY <1>4, <1>0 DEF Push, PushOp
  <2> QED BY <1>4, <2>1, PushReads
<1>5. ASSUME UNCHANGED <<journal, latest, backend>>, foreign \subseteq foreign'
      PROVE  \A a \in Addresses : Current(a)'
  BY <1>5, CurrentKept
<1>6. ASSUME UNCHANGED journal, operations' = << >>, queue' = << >>, hand' = None
      PROVE  Content'
  <2>1. DOMAIN operations' = {} /\ Queued(queue') = {}
    BY <1>6 DEF Queued
  <2> QED BY <1>6, <2>1 DEF Content
<1>7. ASSUME NEW op \in Requests, CrashInPush(op)
      PROVE  Content' /\ \A a \in Addresses : Current(a)'
  BY <1>7, <1>0, <1>5, <1>6 DEF CrashInPush, Lost, Starts
<1>8. CASE Crash \/ Restart
  BY <1>8, <1>5, <1>6 DEF Crash, Restart, Lost, Starts, files, history
<1>9. ASSUME NEW i \in DOMAIN journal \cup DOMAIN torn, Restore(i)
      PROVE  Content' /\ \A a \in Addresses : Current(a)'
  <2>1. /\ queue \in Seq(Nat) /\ i \in Nat /\ i \notin DOMAIN operations
        /\ Queued(queue) \subseteq DOMAIN operations \cap DOMAIN journal
    BY <1>9, RestoreStep DEF Invariant, TypeOK, Ordered
  <2>2. UNCHANGED <<journal, latest, backend, foreign, hand>>
    BY <1>9, RestoreStep DEF files, history
  <2>3. /\ DOMAIN operations' = DOMAIN operations \cup {i}
        /\ \A j \in DOMAIN operations : operations'[j] = operations[j]
        /\ i \in DOMAIN journal =>
             /\ operations'[i].address = journal[i].address
             /\ operations'[i].block \in {None, journal[i].block}
    BY <1>9, RestoreStep
  <2>4. \A j \in Queued(queue') : operations'[j].mode = journal[j].mode
    <3>1. CASE queue' = queue
      BY <2>1, <2>3, <3>1 DEF Content
    <3>2. CASE queue' = Append(queue, i) /\ operations'[i].mode = journal[i].mode
      BY <2>1, <2>3, <3>2, Appended DEF Content
    <3> QED BY <1>9, <3>1, <3>2, RestoreStep
  <2>5. Content'
    BY <2>2, <2>3, <2>4 DEF Content
  <2> QED BY <2>2, <2>5, <1>5
<1>10. ASSUME NEW i \in DOMAIN operations, Reload(i)
       PROVE  Content' /\ \A a \in Addresses : Current(a)'
  <2>1. /\ queue \in Seq(Nat) /\ Queued(queue) \subseteq DOMAIN operations
        /\ UNCHANGED <<journal, latest, backend, foreign, hand>>
    BY <1>10, ReloadStep DEF Invariant, TypeOK, Ordered, files, history
  <2>2. CASE UNCHANGED <<operations, queue>>
    BY <2>1, <2>2, <1>5 DEF Content, Queued
  <2>3. CASE /\ i \in DOMAIN journal /\ i \in Nat /\ queue' = Append(queue, i)
             /\ operations'[i].block = journal[i].block /\ operations'[i].mode = journal[i].mode
    <3>1. /\ DOMAIN operations' = DOMAIN operations
          /\ \A j \in DOMAIN operations \ {i} : operations'[j] = operations[j]
          /\ operations'[i].address = operations[i].address
      BY <1>10, ReloadStep
    <3>2. \A j \in Queued(queue') : operations'[j].mode = journal[j].mode
      BY <2>1, <2>3, <3>1, Appended DEF Content
    <3>3. Content'
      BY <2>1, <2>3, <3>1, <3>2 DEF Content
    <3> QED BY <2>1, <3>3, <1>5
  <2> QED BY <1>10, <2>2, <2>3, ReloadStep
<1>11. CASE Get
  <2>1. UNCHANGED <<journal, latest, backend, foreign>>
    BY <1>11, GetStep DEF files, history
  <2>2. Queued(queue) \subseteq DOMAIN operations \cap DOMAIN journal
    BY DEF Invariant, Ordered
  <2>3. Content'
    <3>1. \A j \in DOMAIN operations' \cap DOMAIN journal' :
            /\ operations'[j].address = journal'[j].address
            /\ operations'[j].block \in {None, journal'[j].block}
      BY <1>11, <2>1, GetStep DEF Content
    <3>2. \A j \in Queued(queue') : operations'[j].mode = journal'[j].mode
      BY <1>11, <2>1, <2>2, GetStep DEF Content
    <3>3. hand' # None => /\ hand'.op.address = journal'[hand'.index].address
                          /\ hand'.op.mode = journal'[hand'.index].mode
      BY <1>11, <2>1, GetStep DEF Content
    <3> QED BY <2>1, <3>1, <3>2, <3>3 DEF Content
  <2> QED BY <2>1, <2>3, <1>5
<1>12. CASE Restored \/ Reloaded \/ Sync \/ SyncReturn \/ UNCHANGED vars
  <2>1. UNCHANGED <<journal, operations, queue, hand, latest, backend, foreign>>
    BY <1>12 DEF Restored, Reloaded, Sync, SyncReturn, vars, files, memory, history
  <2>2. Content'
    BY <2>1 DEF Content, Queued
  <2> QED BY <2>1, <2>2, <1>5
<1>13. ASSUME NEW a \in Addresses, ForeignUpdate(a)
       PROVE  Content' /\ \A b \in Addresses : Current(b)'
  <2>1. /\ UNCHANGED <<journal, operations, queue, hand, latest, backend>>
        /\ foreign \subseteq foreign'
    BY <1>13 DEF ForeignUpdate, files, memory, history
  <2>2. Content'
    BY <2>1 DEF Content, Queued
  <2> QED BY <2>1, <2>2, <1>5
<1> QED BY <1>1, <1>2, <1>3, <1>4, <1>7, <1>8, <1>9, <1>10, <1>11, <1>12, <1>13
        DEF Next, Loop

\* Unless a resolver squashes, a client reads the last block it pushed, whatever the
\* capacity, the failures and the crashes, until another client updates the block; the
\* one thing that makes the fetch fail is a torn file taken for the block's last operation.
THEOREM ReadsItsWrites ==
  ASSUME Squashes \cap (AtFirst \cup AtLast) = {}
  PROVE  Spec => []ReadYourWrites
<1> DEFINE Reads == Content /\ \A a \in Addresses : Current(a)
<1>0. Squashes \cap AtLast = {}
  OBVIOUS
<1>1. Init => Invariant /\ Numbered /\ Reads
  <2>1. Init => Numbered
    BY SizeAssumption DEF Init, Numbered
  <2>2. Init => Content
    BY DEF Init, Content, Queued
  <2>3. ASSUME Init, NEW a \in Addresses
        PROVE  Current(a)
    BY <2>3 DEF Init, Current, OfAddress
  <2> QED BY <2>1, <2>2, <2>3, InitInvariant
<1>2. Invariant /\ Numbered /\ Reads /\ [Next]_vars => (Invariant /\ Numbered /\ Reads)'
  BY <1>0, NextInvariant, NextPromise, NextReads
<1>3. Invariant /\ Numbered /\ Reads => ReadYourWrites
  BY FetchReads DEF ReadYourWrites
<1> QED BY <1>1, <1>2, <1>3, PTL DEF Spec
=============================================================================
