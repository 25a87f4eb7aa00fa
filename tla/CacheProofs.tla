---------------------------- MODULE CacheProofs ----------------------------
(***************************************************************************)
(* Proofs about Cache, for any blocks, threads and sizes: it only holds    *)
(* what the backend held (Genuine), a block is fetched once for all who    *)
(* wait for it (WaitsForOne), and the disk cache fits (DiskFits).          *)
(*                                                                         *)
(* Held says of every place a version is kept in that the backend has had  *)
(* it, Orderly that whoever waits for a block has one thread to wait for,  *)
(* Room that the space counted covers the files, by no more than the size  *)
(* of the disk cache.                                                      *)
(***************************************************************************)
EXTENDS Cache, FiniteSetTheorems, TLAPS

\* The provers each leaf is tried with in turn, and the seconds each is given.
USE ZenonT(3), SMTT(30), ZenonT(30)

Marks == {Unanswered, Failed, Same, Unheard}

\* What the disk cache may hold.
Files == [address : Immutable, size : Nat]

\* The backend: it holds the latest version it ever had, or an earlier one.
BackendOK ==
  /\ backend \in [Addresses -> Nat] /\ top \in [Addresses -> Nat]
  /\ \A a \in Addresses : backend[a] <= top[a]

Ops == {"idle", "fetch", "batch", "wait", "again", "store", "remove"}
Calls == [op : Ops, address : Addresses, version : Nat, answer : Nat \cup {Unanswered, Failed}]

ThreadsOK ==
  /\ thread \in [Threads -> Calls]
  /\ \A t \in Threads : thread[t].answer \in Nat => thread[t].answer <= top[thread[t].address]

CacheOK ==
  /\ DOMAIN cache \subseteq Mutable
  /\ cache = [a \in DOMAIN cache |-> cache[a]]
  /\ \A a \in DOMAIN cache : cache[a].version \in Nat /\ cache[a].version <= top[a]

RefreshOK ==
  /\ DOMAIN refresh \subseteq Mutable
  /\ refresh \in [DOMAIN refresh -> [version : Nat, answer : Nat \cup Marks]]
  /\ \A a \in DOMAIN refresh : refresh[a].answer \in Nat => refresh[a].answer <= top[a]

DiskOK ==
  /\ disk \in Seq(Files)
  /\ \A k \in DOMAIN disk : top[disk[k].address] # 0

\* A store that ends stored something.
StoresOK == \A t \in Threads : thread[t].op = "store" => thread[t].answer # 0

Held == BackendOK /\ ThreadsOK /\ CacheOK /\ RefreshOK /\ DiskOK

-----------------------------------------------------------------------------
(* Induction over the natural numbers.                                    *)

\* A set of natural numbers has a least element.
LEMMA LeastNatural ==
  ASSUME NEW T, T \subseteq Nat, T # {}
  PROVE  \E x \in T : \A y \in T : x <= y
<1>1. PICK x \in T : \A y \in T : ~(<<y, x>> \in OpToRel(<, Nat))
  BY WFMin, NatLessThanWellFounded
<1>2. \A y \in T : ~(y < x)
  BY <1>1 DEF OpToRel
<1>3. \A y \in T : x <= y
  BY <1>2
<1> QED BY <1>3

\* What holds of 0, and of a number when it holds of the one before, holds of all.
LEMMA AllNaturals ==
  ASSUME NEW N, N \subseteq Nat, 0 \in N, \A n \in N : n + 1 \in N
  PROVE  N = Nat
<1> SUFFICES ASSUME Nat \ N # {}
             PROVE  FALSE
  OBVIOUS
<1>1. PICK x \in Nat \ N : \A y \in Nat \ N : x <= y
  <2>1. Nat \ N \subseteq Nat
    OBVIOUS
  <2> QED BY <2>1, LeastNatural
<1>2. x # 0 /\ x - 1 \in Nat
  BY <1>1
<1>3. x - 1 \in N
  BY <1>1, <1>2
<1>4. (x - 1) + 1 = x
  BY <1>1
<1> QED BY <1>1, <1>3, <1>4

-----------------------------------------------------------------------------
(* The operators                                                           *)

\* A sequence of files of s.
From(x, s) == x \in Seq(Files) /\ \A k \in DOMAIN x : \E j \in DOMAIN s : x[k] = s[j]

LEMMA FromSub ==
  ASSUME NEW s \in Seq(Files), NEW m \in Nat \ {0}, NEW n \in 0..Len(s)
  PROVE  From(SubSeq(s, m, n), s)
<1> DEFINE x == SubSeq(s, m, n)
<1>1. Len(s) \in Nat /\ DOMAIN s = 1..Len(s) OBVIOUS
<1>2. \A i \in m..n : s[i] \in Files
  BY <1>1
<1>3. /\ x \in Seq(Files)
      /\ Len(x) = IF m <= n THEN n - m + 1 ELSE 0
      /\ \A i \in 1..(n - m + 1) : x[i] = s[m + i - 1]
  BY <1>1, <1>2
<1> HIDE DEF x
<1>4. ASSUME NEW k \in DOMAIN x
      PROVE  \E j \in DOMAIN s : x[k] = s[j]
  <2>1. k \in 1..Len(x)
    BY <1>3
  <2>2. k \in 1..(n - m + 1) /\ m + k - 1 \in 1..Len(s)
    BY <1>1, <1>3, <2>1
  <2> QED BY <1>1, <1>3, <2>2
<1>5. From(x, s)
  BY <1>3, <1>4 DEF From
<1> QED BY <1>5 DEF x

LEMMA FromConcat ==
  ASSUME NEW s, NEW x, NEW y, From(x, s), From(y, s)
  PROVE  From(x \o y, s)
<1>1. x \in Seq(Files) /\ y \in Seq(Files)
  BY DEF From
<1>2. /\ x \o y \in Seq(Files)
      /\ Len(x \o y) = Len(x) + Len(y)
      /\ \A i \in 1..(Len(x) + Len(y)) :
           (x \o y)[i] = IF i <= Len(x) THEN x[i] ELSE y[i - Len(x)]
  BY <1>1
<1>3. ASSUME NEW k \in DOMAIN (x \o y)
      PROVE  \E j \in DOMAIN s : (x \o y)[k] = s[j]
  <2>1. k \in 1..(Len(x) + Len(y)) /\ Len(x) \in Nat /\ Len(y) \in Nat
    BY <1>1, <1>2
  <2>2. CASE k <= Len(x)
    <3>1. k \in DOMAIN x /\ (x \o y)[k] = x[k]
      BY <1>1, <1>2, <2>1, <2>2
    <3> QED BY <3>1 DEF From
  <2>3. CASE ~(k <= Len(x))
    <3>1. k - Len(x) \in DOMAIN y /\ (x \o y)[k] = y[k - Len(x)]
      BY <1>1, <1>2, <2>1, <2>3
    <3> QED BY <3>1 DEF From
  <2> QED BY <2>2, <2>3
<1> QED BY <1>2, <1>3 DEF From

\* Pruning keeps files of those given.
LEMMA PruneKeeps ==
  ASSUME NEW s \in Seq(Files), NEW used, Prune(s, used)
  PROVE  From(disk', s)
<1>1. PICK gone \in 0..Len(s) : disk' = SubSeq(s, gone + 1, Len(s))
  BY DEF Prune
<1>2. gone + 1 \in Nat \ {0} /\ Len(s) \in 0..Len(s)
  OBVIOUS
<1> QED BY <1>1, <1>2, FromSub

\* So does dropping one, and there is one to drop.
LEMMA DropKeeps ==
  ASSUME disk \in Seq(Files), NEW a
  PROVE  /\ From(Drop(a), disk)
         /\ a \in OnDisk => Entry(a) \in Files /\ From(<<Entry(a)>>, disk)
<1>1. Len(disk) \in Nat /\ DOMAIN disk = 1..Len(disk) OBVIOUS
<1>2. CASE a \notin OnDisk
  BY <1>1, <1>2 DEF Drop, From
<1>3. CASE a \in OnDisk
  <2>1. Place(a) \in 1..Len(disk)
    BY <1>1, <1>3 DEF OnDisk, Place
  <2>2. Drop(a) = SubSeq(disk, 1, Place(a) - 1) \o SubSeq(disk, Place(a) + 1, Len(disk))
    BY <1>3 DEF Drop
  <2>3. /\ 1 \in Nat \ {0} /\ Place(a) - 1 \in 0..Len(disk)
        /\ Place(a) + 1 \in Nat \ {0} /\ Len(disk) \in 0..Len(disk)
    BY <1>1, <2>1
  <2>4. From(SubSeq(disk, 1, Place(a) - 1), disk)
    BY <2>3, FromSub
  <2>5. From(SubSeq(disk, Place(a) + 1, Len(disk)), disk)
    BY <2>3, FromSub
  <2>6. From(Drop(a), disk)
    BY <2>2, <2>4, <2>5, FromConcat
  <2>7. Entry(a) \in Files
    BY <1>1, <2>1 DEF Entry
  <2>8. From(<<Entry(a)>>, disk)
    BY <1>1, <2>1, <2>7 DEF Entry, From
  <2> QED BY <2>6, <2>7, <2>8
<1> QED BY <1>2, <1>3


\* The disk cache keeps blocks the backend held.
LEMMA DiskKept ==
  ASSUME DiskOK, top' \in [Addresses -> Nat], top \in [Addresses -> Nat],
         \A a \in Addresses : top[a] <= top'[a], From(disk', disk)
  PROVE  DiskOK'
<1>1. disk' \in Seq(Files)
  BY DEF From
<1>2. ASSUME NEW k \in DOMAIN disk'
      PROVE  top'[disk'[k].address] # 0
  <2>1. PICK j \in DOMAIN disk : disk'[k] = disk[j]
    BY <1>2 DEF From
  <2>2. disk[j] \in Files /\ top[disk[j].address] # 0
    BY DEF DiskOK
  <2>3. disk[j].address \in Addresses
    BY <2>2 DEF Files, Addresses
  <2>4. top[disk[j].address] \in Nat /\ top'[disk[j].address] \in Nat
    BY <2>3
  <2> QED BY <2>1, <2>2, <2>3, <2>4
<1> QED BY <1>1, <1>2 DEF DiskOK

LEMMA SelfFrom ==
  ASSUME disk \in Seq(Files), disk' = disk
  PROVE  From(disk', disk)
BY DEF From

LEMMA PushKept ==
  ASSUME DiskOK, NEW a \in Immutable, top[a] # 0, top' = top, DiskPush(a)
  PROVE  DiskOK'
<1>0. disk \in Seq(Files) /\ File(a) \in Files /\ File(a).address = a
  BY CacheAssumption DEF DiskOK, File, Files
<1> DEFINE s == Listed(a)
<1>1. s \in Seq(Files) /\ \A k \in DOMAIN s : top[s[k].address] # 0
  <2>1. CASE a \in OnDisk
    BY <2>1 DEF Listed, DiskOK
  <2>2. CASE a \notin OnDisk
    <3>1. s = Append(disk, File(a))
      BY <2>2 DEF Listed
    <3>2. /\ s \in Seq(Files) /\ Len(s) = Len(disk) + 1
          /\ \A i \in 1..Len(disk) : s[i] = disk[i]
          /\ s[Len(disk) + 1] = File(a)
      BY <1>0, <3>1
    <3> HIDE DEF s
    <3>3. ASSUME NEW k \in DOMAIN s PROVE top[s[k].address] # 0
      <4>1. k \in 1..(Len(disk) + 1) /\ Len(disk) \in Nat
        BY <1>0, <3>2
      <4>2. CASE k = Len(disk) + 1
        BY <1>0, <3>2, <4>2
      <4>3. CASE k # Len(disk) + 1
        <5>1. k \in 1..Len(disk) BY <4>1, <4>3
        <5>2. k \in DOMAIN disk BY <5>1, <1>0
        <5> QED BY <3>2, <5>1, <5>2 DEF DiskOK
      <4> QED BY <4>2, <4>3
    <3> QED BY <3>2, <3>3
  <2> QED BY <2>1, <2>2
<1>2. From(disk', s)
  BY <1>1, PruneKeeps DEF DiskPush
<1> HIDE DEF s
<1>3. ASSUME NEW k \in DOMAIN disk' PROVE top'[disk'[k].address] # 0
  BY <1>1, <1>2, <1>3 DEF From
<1> QED BY <1>2, <1>3 DEF From, DiskOK

LEMMA DoingCall ==
  ASSUME NEW op \in Ops, NEW a \in Addresses, NEW n \in Nat
  PROVE  Doing(op, a, n) \in Calls /\ Doing(op, a, n).answer \notin Nat
BY CacheAssumption DEF Doing, Calls

LEMMA IdleCall == Idle \in Calls /\ Idle.answer \notin Nat
<1> DEFINE first == CHOOSE a \in Addresses : TRUE
<1>1. first \in Addresses
  BY CacheAssumption
<1>2. Idle = Doing("idle", first, 0)
  BY DEF Idle, Doing
<1> HIDE DEF first
<1>3. "idle" \in Ops /\ 0 \in Nat
  BY DEF Ops
<1>4. Doing("idle", first, 0) \in Calls /\ Doing("idle", first, 0).answer \notin Nat
  BY <1>1, <1>3, DoingCall
<1> QED BY <1>2, <1>4

\* A thread that goes on with an answer the backend could give.
LEMMA ThreadKept ==
  ASSUME BackendOK, ThreadsOK, top' \in [Addresses -> Nat],
         \A a \in Addresses : top[a] <= top'[a],
         NEW t \in Threads, NEW x \in Calls, Does(t, x),
         x.answer \in Nat => x.answer <= top'[x.address]
  PROVE  ThreadsOK'
<1>1. thread' \in [Threads -> Calls] /\ \A u \in Threads : thread'[u] = IF u = t THEN x ELSE thread[u]
  BY DEF ThreadsOK, Does
<1>2. ASSUME NEW u \in Threads, thread'[u].answer \in Nat
      PROVE  thread'[u].answer <= top'[thread'[u].address]
  <2>1. CASE u = t
    BY <1>1, <1>2, <2>1
  <2>2. CASE u # t
    <3>1. thread'[u] = thread[u] /\ thread[u] \in Calls
      BY <1>1, <2>2 DEF ThreadsOK
    <3>2. thread[u].address \in Addresses
      BY <3>1 DEF Calls
    <3>3. thread[u].answer <= top[thread[u].address]
      BY <1>2, <3>1 DEF ThreadsOK
    <3>4. top[thread[u].address] \in Nat /\ top'[thread[u].address] \in Nat
      BY <3>2 DEF BackendOK
    <3> QED BY <1>2, <3>1, <3>2, <3>3, <3>4
  <2> QED BY <2>1, <2>2
<1> QED BY <1>1, <1>2 DEF ThreadsOK

-----------------------------------------------------------------------------
(* The steps                                                               *)

\* The parts of the state a step leaves alone.
LEMMA RestKept ==
  ASSUME Held, top' \in [Addresses -> Nat], \A a \in Addresses : top[a] <= top'[a]
  PROVE  /\ thread' = thread => ThreadsOK'
         /\ cache' = cache => CacheOK'
         /\ refresh' = refresh => RefreshOK'
         /\ disk' = disk => DiskOK'
<1>1. top \in [Addresses -> Nat] /\ Mutable \subseteq Addresses
  BY DEF Held, BackendOK, Addresses
<1>2. ASSUME thread' = thread PROVE ThreadsOK'
  <2>1. ASSUME NEW t \in Threads, thread[t].answer \in Nat
        PROVE  thread[t].answer <= top'[thread[t].address]
    <3>1. thread[t].address \in Addresses /\ thread[t].answer <= top[thread[t].address]
      BY <2>1 DEF Held, ThreadsOK, Calls
    <3>2. top[thread[t].address] \in Nat /\ top'[thread[t].address] \in Nat
      BY <1>1, <3>1
    <3> QED BY <2>1, <3>1, <3>2
  <2> QED BY <1>2, <2>1 DEF Held, ThreadsOK
<1>3. ASSUME cache' = cache PROVE CacheOK'
  <2>1. ASSUME NEW a \in DOMAIN cache PROVE cache[a].version <= top'[a]
    <3>1. cache[a].version \in Nat /\ cache[a].version <= top[a] /\ a \in Addresses
      BY <1>1, <2>1 DEF Held, CacheOK
    <3>2. top[a] \in Nat /\ top'[a] \in Nat
      BY <1>1, <3>1
    <3> QED BY <3>1, <3>2
  <2> QED BY <1>3, <2>1 DEF Held, CacheOK
<1>4. ASSUME refresh' = refresh PROVE RefreshOK'
  <2>1. ASSUME NEW a \in DOMAIN refresh, refresh[a].answer \in Nat
        PROVE  refresh[a].answer <= top'[a]
    <3>1. refresh[a].answer <= top[a] /\ a \in Addresses
      BY <1>1, <2>1 DEF Held, RefreshOK
    <3>2. top[a] \in Nat /\ top'[a] \in Nat
      BY <1>1, <3>1
    <3> QED BY <2>1, <3>1, <3>2
  <2> QED BY <1>4, <2>1 DEF Held, RefreshOK
<1>5. ASSUME disk' = disk PROVE DiskOK'
  <2>1. From(disk', disk)
    BY <1>5, SelfFrom DEF Held, DiskOK
  <2> QED BY <1>1, <2>1, DiskKept DEF Held
<1> QED BY <1>2, <1>3, <1>4, <1>5

\* A step that leaves the backend alone.
LEMMA SameBackend ==
  ASSUME Held, UNCHANGED blocks
  PROVE  /\ BackendOK' /\ top' = top
         /\ top' \in [Addresses -> Nat] /\ \A a \in Addresses : top[a] <= top'[a]
BY DEF Held, BackendOK, blocks

\* The backend takes a version.
LEMMA HoldsGrows ==
  ASSUME Held, NEW a \in Addresses, NEW n \in Nat, Holds(a, n)
  PROVE  /\ BackendOK' /\ n <= top'[a]
         /\ top' \in [Addresses -> Nat] /\ \A b \in Addresses : top[b] <= top'[b]
<1> DEFINE m == IF n > top[a] THEN n ELSE top[a]
<1>1. backend \in [Addresses -> Nat] /\ top \in [Addresses -> Nat]
  BY DEF Held, BackendOK
<1>2. m \in Nat /\ n <= m /\ top[a] <= m
  BY <1>1
<1>3. top' = [top EXCEPT ![a] = m] /\ backend' = [backend EXCEPT ![a] = n]
  BY <1>1 DEF Holds
<1> HIDE DEF m
<1>4. /\ \A b \in Addresses : top'[b] = IF b = a THEN m ELSE top[b]
      /\ \A b \in Addresses : backend'[b] = IF b = a THEN n ELSE backend[b]
      /\ backend' \in [Addresses -> Nat] /\ top' \in [Addresses -> Nat]
  BY <1>1, <1>2, <1>3
<1>5. \A b \in Addresses : top[b] <= top'[b] /\ backend'[b] <= top'[b]
  BY <1>1, <1>2, <1>4 DEF Held, BackendOK
<1> QED BY <1>2, <1>4, <1>5 DEF BackendOK

LEMMA AnswerKept ==
  ASSUME Held, top' \in [Addresses -> Nat], \A a \in Addresses : top[a] <= top'[a],
         NEW t \in Threads, NEW x \in Nat \cup {Unanswered, Failed}, Answer(t, x),
         x \in Nat => x <= top'[thread[t].address]
  PROVE  ThreadsOK'
<1> DEFINE y == [op |-> thread[t].op, address |-> thread[t].address,
                 version |-> thread[t].version, answer |-> x]
<1>1. thread[t] \in Calls
  BY DEF Held, ThreadsOK
<1>2. y = [thread[t] EXCEPT !.answer = x] /\ y \in Calls
  BY <1>1 DEF Calls
<1>3. Does(t, y) /\ y.answer = x /\ y.address = thread[t].address
  BY <1>2 DEF Answer
<1> HIDE DEF y
<1> QED BY <1>2, <1>3, ThreadKept DEF Held

\* What a thread inserts in the cache when its fetch is answered.
LEMMA Inserted ==
  ASSUME Held, UNCHANGED blocks, NEW t \in Threads, thread[t].answer # Unanswered,
         Insertion(t)
  PROVE  CacheOK' /\ DiskOK'
<1> DEFINE a == thread[t].address
           n == thread[t].answer
<1>1. /\ a \in Addresses /\ n \in Nat \cup {Failed}
      /\ n \in Nat => n <= top[a]
  BY DEF Held, ThreadsOK, Calls
<1>2. /\ BackendOK' /\ top' = top
      /\ top' \in [Addresses -> Nat] /\ \A b \in Addresses : top[b] <= top'[b]
  BY SameBackend
<1>3. CASE n \in {0, Failed}
  <2>1. cache' = cache /\ disk' = disk
    BY <1>3 DEF Insertion, disks
  <2> QED BY <1>2, <2>1, RestKept
<1>4. CASE n \notin {0, Failed}
  <2>1. InsertCache(a, n) /\ n \in Nat /\ n # 0 /\ n <= top[a] /\ top[a] \in Nat
    BY <1>1, <1>2, <1>4 DEF Insertion
  <2> HIDE DEF a, n
  <2>2. CASE a \in Immutable
    <3>1. DiskPush(a) /\ cache' = cache /\ top[a] # 0
      BY <2>1, <2>2 DEF InsertCache
    <3>2. DiskOK'
      BY <1>2, <2>2, <3>1, PushKept DEF Held
    <3> QED BY <1>2, <3>1, <3>2, RestKept
  <2>3. CASE a \notin Immutable
    <3>1. a \in Mutable /\ disk' = disk
      BY <1>1, <2>1, <2>3 DEF InsertCache, Addresses, disks
    <3>2. CASE a \in DOMAIN cache
      <4>1. cache' = cache
        BY <2>1, <2>3, <3>2 DEF InsertCache
      <4> QED BY <1>2, <3>1, <4>1, RestKept
    <3>3. CASE a \notin DOMAIN cache
      <4>1. cache' = With(cache, a, Cached(n))
        BY <2>1, <2>3, <3>3 DEF InsertCache
      <4>2. CacheOK'
        BY <1>2, <2>1, <3>1, <4>1 DEF Held, CacheOK, With, Cached
      <4> QED BY <1>2, <3>1, <4>2, RestKept
    <3> QED BY <3>2, <3>3
  <2> QED BY <2>2, <2>3
<1> QED BY <1>3, <1>4

\* A block of the cache is replaced by a version the backend held.
LEMMA WithKept ==
  ASSUME CacheOK, top' = top, NEW a \in Mutable, NEW n \in Nat, n <= top[a],
         cache' = With(cache, a, Cached(n))
  PROVE  CacheOK'
BY DEF CacheOK, With, Cached

LEMMA WithoutKept ==
  ASSUME CacheOK, top' = top, NEW S, cache' = Without(cache, S)
  PROVE  CacheOK'
BY DEF CacheOK, Without

LEMMA NoBlocksKept ==
  /\ cache' = NoBlocks => CacheOK'
  /\ refresh' = NoBlocks => RefreshOK'
BY DEF NoBlocks, CacheOK, RefreshOK

\* The calls: they touch the threads and, for a removal, the cache.
LEMMA CallsHeld ==
  ASSUME Held, NEW t \in Threads, NEW a \in Addresses, NEW n \in Nat,
         Fetch(t, a) \/ FetchMany(t, a) \/ RemoveBlock(t, a) \/ Store(t, a, n)
  PROVE  Held'
<1>1. UNCHANGED blocks /\ refresh' = refresh
  BY DEF Fetch, FetchMany, RemoveBlock, Store
<1>2. /\ BackendOK' /\ top' = top
      /\ top' \in [Addresses -> Nat] /\ \A b \in Addresses : top[b] <= top'[b]
  BY <1>1, SameBackend
<1>3. \E op \in Ops, m \in Nat : Does(t, Doing(op, a, m))
  <2>1. CASE Fetch(t, a)
    BY <2>1 DEF Fetch, FetchMiss, Ops
  <2>2. CASE FetchMany(t, a)
    BY <2>2 DEF FetchMany, Ops
  <2>3. CASE RemoveBlock(t, a)
    BY <2>3 DEF RemoveBlock, Ops
  <2>4. CASE Store(t, a, n)
    BY <2>4 DEF Store, Ops
  <2> QED BY <2>1, <2>2, <2>3, <2>4
<1>4. ThreadsOK'
  BY <1>2, <1>3, DoingCall, ThreadKept DEF Held
<1>5. CacheOK' /\ DiskOK'
  <2>1. CASE RemoveBlock(t, a)
    <3>1. cache' = Without(cache, {a}) /\ disk' = Drop(a)
      BY <2>1 DEF RemoveBlock
    <3>2. CacheOK'
      BY <1>2, <3>1, WithoutKept DEF Held
    <3>3. From(disk', disk)
      BY <3>1, DropKeeps DEF Held, DiskOK
    <3> QED BY <1>2, <3>2, <3>3, DiskKept DEF Held, BackendOK
  <2>2. CASE ~RemoveBlock(t, a)
    <3>1. cache' = cache /\ disk' = disk
      BY <2>2 DEF Fetch, FetchMany, Store, disks
    <3> QED BY <1>2, <3>1, RestKept
  <2> QED BY <2>1, <2>2
<1> QED BY <1>1, <1>2, <1>4, <1>5, RestKept DEF Held

\* The least recently used order.
LEMMA TouchedFrom ==
  ASSUME DiskOK, NEW a, disk' = Touched(a)
  PROVE  From(disk', disk)
<1>1. disk \in Seq(Files)
  BY DEF DiskOK
<1>2. CASE a \in OnDisk /\ Entry(a).size = FileSize[a]
  <2>1. From(Drop(a), disk) /\ Entry(a) \in Files /\ From(<<Entry(a)>>, disk)
    BY <1>1, <1>2, DropKeeps
  <2>2. disk' = Drop(a) \o <<Entry(a)>>
    BY <1>2, <2>1 DEF Touched, From
  <2> QED BY <2>1, <2>2, FromConcat
<1>3. CASE ~(a \in OnDisk /\ Entry(a).size = FileSize[a])
  BY <1>1, <1>3, SelfFrom DEF Touched
<1> QED BY <1>2, <1>3

LEMMA FetchDiskHeld ==
  ASSUME Held, NEW a \in Addresses, FetchDisk(a)
  PROVE  Held'
<1>1. UNCHANGED blocks /\ refresh' = refresh /\ thread' = thread /\ cache' = cache
      /\ disk' = Touched(a)
  BY DEF FetchDisk
<1>2. /\ BackendOK' /\ top' = top
      /\ top' \in [Addresses -> Nat] /\ \A b \in Addresses : top[b] <= top'[b]
  BY <1>1, SameBackend
<1>3. DiskOK'
  BY <1>1, <1>2, TouchedFrom, DiskKept DEF Held, BackendOK
<1> QED BY <1>1, <1>2, <1>3, RestKept DEF Held

LEMMA FetchAgainHeld ==
  ASSUME Held, NEW t \in Threads, FetchAgain(t)
  PROVE  Held'
<1>1. UNCHANGED blocks /\ refresh' = refresh /\ cache' = cache
      /\ disk' = Touched(thread[t].address)
  BY DEF FetchAgain
<1>2. /\ BackendOK' /\ top' = top
      /\ top' \in [Addresses -> Nat] /\ \A b \in Addresses : top[b] <= top'[b]
  BY <1>1, SameBackend
<1>3. DiskOK'
  BY <1>1, <1>2, TouchedFrom, DiskKept DEF Held, BackendOK
<1>4. thread[t].address \in Addresses
  BY DEF Held, ThreadsOK, Calls
<1>5. \E x \in Calls : x.answer \notin Nat /\ Does(t, x)
  <2>1. CASE Miss(thread[t].address)
    <3>1. \E op \in Ops : Does(t, Doing(op, thread[t].address, 0))
      BY <2>1 DEF FetchAgain, FetchMiss, Ops
    <3> QED BY <1>4, <3>1, DoingCall
  <2>2. CASE ~Miss(thread[t].address)
    BY <2>2, IdleCall DEF FetchAgain
  <2> QED BY <2>1, <2>2
<1>6. ThreadsOK'
  BY <1>2, <1>5, ThreadKept DEF Held
<1> QED BY <1>1, <1>2, <1>3, <1>6, RestKept DEF Held

\* The answers of the backend.
LEMMA AnswerFetchHeld ==
  ASSUME Held, NEW t \in Threads, AnswerFetch(t)
  PROVE  Held'
<1>1. UNCHANGED blocks /\ cache' = cache /\ refresh' = refresh /\ disk' = disk
  BY DEF AnswerFetch, disks
<1>2. /\ BackendOK' /\ top' = top
      /\ top' \in [Addresses -> Nat] /\ \A b \in Addresses : top[b] <= top'[b]
  BY <1>1, SameBackend
<1>3. thread[t].address \in Addresses
  BY DEF Held, ThreadsOK, Calls
<1>4. PICK x \in {backend[thread[t].address], Failed} : Answer(t, x)
  BY DEF AnswerFetch
<1>5. x \in Nat \cup {Unanswered, Failed} /\ (x \in Nat => x <= top'[thread[t].address])
  BY <1>2, <1>3, <1>4, CacheAssumption DEF Held, BackendOK
<1>6. ThreadsOK'
  BY <1>2, <1>4, <1>5, AnswerKept
<1> QED BY <1>1, <1>2, <1>6, RestKept DEF Held

LEMMA AnswerStoreHeld ==
  ASSUME Held, NEW t \in Threads, AnswerStore(t)
  PROVE  Held'
<1> DEFINE a == thread[t].address
<1>1. cache' = cache /\ refresh' = refresh /\ disk' = disk
  BY DEF AnswerStore, disks
<1>2. a \in Addresses /\ Failed \notin Nat
  BY CacheAssumption DEF Held, ThreadsOK, Calls
<1>3. CASE \E m \in Outcomes(a, thread[t].version) :
             Holds(a, m) /\ (Answer(t, m) \/ Answer(t, Failed))
  <2>1. PICK m \in Outcomes(a, thread[t].version) :
               Holds(a, m) /\ (Answer(t, m) \/ Answer(t, Failed))
    BY <1>3
  <2>2. m \in Nat
    BY <1>2, <2>1 DEF Outcomes, Held, BackendOK
  <2>3. /\ BackendOK' /\ m <= top'[a]
        /\ top' \in [Addresses -> Nat] /\ \A b \in Addresses : top[b] <= top'[b]
    BY <1>2, <2>1, <2>2, HoldsGrows
  <2>4. ThreadsOK'
    BY <1>2, <2>1, <2>2, <2>3, AnswerKept
  <2> QED BY <1>1, <2>3, <2>4, RestKept DEF Held
<1>4. CASE Answer(t, Failed) /\ UNCHANGED blocks
  <2>1. /\ BackendOK' /\ top' = top
        /\ top' \in [Addresses -> Nat] /\ \A b \in Addresses : top[b] <= top'[b]
    BY <1>4, SameBackend
  <2>2. ThreadsOK'
    BY <1>2, <1>4, <2>1, AnswerKept
  <2> QED BY <1>1, <2>1, <2>2, RestKept DEF Held
<1> QED BY <1>3, <1>4 DEF AnswerStore

LEMMA AnswerRemoveHeld ==
  ASSUME Held, NEW t \in Threads, AnswerRemove(t)
  PROVE  Held'
<1> DEFINE a == thread[t].address
<1>1. cache' = cache /\ refresh' = refresh /\ disk' = disk
  BY DEF AnswerRemove, disks
<1>2. a \in Addresses /\ Failed \notin Nat
  BY CacheAssumption DEF Held, ThreadsOK, Calls
<1>3. CASE Holds(a, 0) /\ (Answer(t, 0) \/ Answer(t, Failed))
  <2>1. /\ BackendOK' /\ 0 <= top'[a]
        /\ top' \in [Addresses -> Nat] /\ \A b \in Addresses : top[b] <= top'[b]
    BY <1>2, <1>3, HoldsGrows
  <2>2. ThreadsOK'
    BY <1>2, <1>3, <2>1, AnswerKept
  <2> QED BY <1>1, <2>1, <2>2, RestKept DEF Held
<1>4. CASE Answer(t, Failed) /\ UNCHANGED blocks
  <2>1. /\ BackendOK' /\ top' = top
        /\ top' \in [Addresses -> Nat] /\ \A b \in Addresses : top[b] <= top'[b]
    BY <1>4, SameBackend
  <2>2. ThreadsOK'
    BY <1>2, <1>4, <2>1, AnswerKept
  <2> QED BY <1>1, <2>1, <2>2, RestKept DEF Held
<1> QED BY <1>3, <1>4 DEF AnswerRemove

LEMMA ForeignHeld ==
  ASSUME Held, NEW a \in Addresses, Foreign(a)
  PROVE  Held'
<1>1. cache' = cache /\ refresh' = refresh /\ disk' = disk /\ thread' = thread
  BY DEF Foreign, disks
<1>2. \E n \in Nat : Holds(a, n)
  BY DEF Foreign, Held, BackendOK
<1>3. /\ BackendOK'
      /\ top' \in [Addresses -> Nat] /\ \A b \in Addresses : top[b] <= top'[b]
  BY <1>2, HoldsGrows
<1> QED BY <1>1, <1>3, RestKept DEF Held

\* The barrier of a fetch that ends.
LEMMA OpenKept ==
  ASSUME Held, top' = top, NEW t \in Threads, Open(t)
  PROVE  ThreadsOK'
<1>1. ASSUME NEW u \in Threads
      PROVE  /\ thread'[u] \in Calls
             /\ thread'[u].answer \in Nat => thread'[u].answer <= top[thread'[u].address]
  <2> DEFINE y == [op |-> "again", address |-> thread[u].address,
                   version |-> thread[u].version, answer |-> thread[u].answer]
  <2>1. /\ thread[u] \in Calls
        /\ thread[u].answer \in Nat => thread[u].answer <= top[thread[u].address]
    BY DEF Held, ThreadsOK
  <2>2. y = [thread[u] EXCEPT !.op = "again"] /\ y \in Calls
    BY <2>1 DEF Calls, Ops
  <2>3. y.answer = thread[u].answer /\ y.address = thread[u].address
    OBVIOUS
  <2> HIDE DEF y
  <2>4. thread'[u] = Idle \/ thread'[u] = y \/ thread'[u] = thread[u]
    BY <2>2 DEF Open
  <2> QED BY <2>1, <2>2, <2>3, <2>4, IdleCall
<1>2. thread' = [u \in Threads |-> thread'[u]]
  BY DEF Open
<1>3. thread' \in [Threads -> Calls]
  BY <1>1, <1>2
<1> QED BY <1>1, <1>3 DEF ThreadsOK

\* The answers, handled.
LEMMA FetchReturnHeld ==
  ASSUME Held, NEW t \in Threads, FetchReturn(t) \/ FetchManyReturn(t)
  PROVE  Held'
<1>1. UNCHANGED blocks /\ refresh' = refresh /\ Insertion(t) /\ thread[t].answer # Unanswered
  BY DEF FetchReturn, FetchManyReturn, Answered
<1>2. /\ BackendOK' /\ top' = top
      /\ top' \in [Addresses -> Nat] /\ \A b \in Addresses : top[b] <= top'[b]
  BY <1>1, SameBackend
<1>3. CacheOK' /\ DiskOK'
  BY <1>1, Inserted
<1>4. CASE FetchReturn(t)
  <2>1. ThreadsOK'
    BY <1>2, <1>4, OpenKept DEF FetchReturn
  <2> QED BY <1>1, <1>2, <1>3, <2>1, RestKept DEF Held
<1>5. CASE FetchManyReturn(t)
  <2>1. ThreadsOK'
    BY <1>2, <1>5, IdleCall, ThreadKept DEF FetchManyReturn, Held
  <2> QED BY <1>1, <1>2, <1>3, <2>1, RestKept DEF Held
<1> QED BY <1>4, <1>5

LEMMA StoreReturnHeld ==
  ASSUME Held, StoresOK, NEW t \in Threads, StoreReturn(t) \/ RemoveReturn(t)
  PROVE  Held'
<1> DEFINE a == thread[t].address
           n == thread[t].answer
<1>1. UNCHANGED blocks /\ refresh' = refresh /\ Does(t, Idle) /\ n # Unanswered
  BY DEF StoreReturn, RemoveReturn, Answered
<1>2. /\ BackendOK' /\ top' = top
      /\ top' \in [Addresses -> Nat] /\ \A b \in Addresses : top[b] <= top'[b]
  BY <1>1, SameBackend
<1>3. ThreadsOK'
  BY <1>1, <1>2, IdleCall, ThreadKept DEF Held
<1>4. /\ a \in Addresses /\ n \in Nat \cup {Failed}
      /\ n \in Nat => n <= top[a]
  BY <1>1 DEF Held, ThreadsOK, Calls
<1>5. CASE RemoveReturn(t) \/ n = Failed
  <2>1. cache' = cache /\ disk' = disk
    BY <1>5 DEF RemoveReturn, StoreReturn, disks
  <2> QED BY <1>1, <1>2, <1>3, <2>1, RestKept DEF Held
<1>6. CASE StoreReturn(t) /\ n # Failed
  <2>1. n \in Nat /\ n <= top[a]
    BY <1>4, <1>6
  <2>2. CASE a \in Immutable
    <3>1. DiskPush(a) /\ cache' = cache
      BY <1>6, <2>2 DEF StoreReturn
    <3>2. n # 0
      BY <1>6 DEF StoreReturn, Answered, StoresOK
    <3>3. DiskOK'
      BY <1>2, <1>4, <2>1, <2>2, <3>1, <3>2, PushKept DEF Held, BackendOK
    <3> QED BY <1>1, <1>2, <1>3, <3>1, <3>3, RestKept DEF Held
  <2>3. CASE a \notin Immutable
    <3>1. a \in Mutable /\ cache' = With(cache, a, Cached(n)) /\ disk' = disk
      BY <1>4, <1>6, <2>3 DEF StoreReturn, disks, Addresses
    <3>2. CacheOK'
      BY <1>2, <2>1, <3>1, WithKept DEF Held
    <3> QED BY <1>1, <1>2, <1>3, <3>1, <3>2, RestKept DEF Held
  <2> QED BY <2>2, <2>3
<1> QED BY <1>5, <1>6

\* The cleanup thread.
LEMMA CleanupHeld ==
  ASSUME Held, NEW S, Cleanup(S)
  PROVE  Held'
<1>1. UNCHANGED blocks /\ thread' = thread /\ disk' = disk /\ cache' = Without(cache, S)
  BY DEF Cleanup, disks
<1>2. /\ BackendOK' /\ top' = top
      /\ top' \in [Addresses -> Nat] /\ \A b \in Addresses : top[b] <= top'[b]
  BY <1>1, SameBackend
<1>3. CacheOK'
  BY <1>1, <1>2, WithoutKept DEF Held
<1>4. DOMAIN cache' \subseteq DOMAIN cache /\ DOMAIN cache \subseteq Mutable
  BY <1>1 DEF Without, Held, CacheOK
<1>5. refresh' = [a \in {b \in DOMAIN cache' : ~cache'[b].fresh} |->
                    [version |-> cache[a].version, answer |-> Unanswered]]
  BY DEF Cleanup
<1>6. RefreshOK'
  BY <1>4, <1>5, CacheAssumption DEF Held, CacheOK, RefreshOK, Marks
<1> QED BY <1>1, <1>2, <1>3, <1>6, RestKept DEF Held

LEMMA ExpireHeld ==
  ASSUME Held, NEW a \in Addresses, Expire(a)
  PROVE  Held'
<1>1. UNCHANGED blocks /\ thread' = thread /\ disk' = disk /\ refresh' = refresh
  BY DEF Expire, disks
<1>2. /\ BackendOK' /\ top' = top
      /\ top' \in [Addresses -> Nat] /\ \A b \in Addresses : top[b] <= top'[b]
  BY <1>1, SameBackend
<1>3. /\ cache' = [cache EXCEPT ![a] = [cache[a] EXCEPT !.fresh = FALSE]]
      /\ DOMAIN cache' = DOMAIN cache
  BY DEF Expire
<1>4. \A b \in DOMAIN cache : cache'[b].version = cache[b].version
  BY <1>3 DEF Held, CacheOK
<1>5. CacheOK'
  BY <1>2, <1>3, <1>4 DEF Held, CacheOK
<1> QED BY <1>1, <1>2, <1>5, RestKept DEF Held

LEMMA AnswerRefreshHeld ==
  ASSUME Held, NEW a \in Addresses, AnswerRefresh(a)
  PROVE  Held'
<1>1. UNCHANGED blocks /\ thread' = thread /\ disk' = disk /\ cache' = cache
      /\ a \in DOMAIN refresh
  BY DEF AnswerRefresh, disks
<1>2. /\ BackendOK' /\ top' = top
      /\ top' \in [Addresses -> Nat] /\ \A b \in Addresses : top[b] <= top'[b]
  BY <1>1, SameBackend
<1>3. PICK x \in {Failed, Unheard, Same, backend[a]} :
             refresh' = [refresh EXCEPT ![a] = [refresh[a] EXCEPT !.answer = x]]
  BY DEF AnswerRefresh
<1> DEFINE y == [version |-> refresh[a].version, answer |-> x]
<1>4. x \in Nat \cup Marks /\ (x \in Nat => x <= top[a])
  BY <1>3, CacheAssumption DEF Held, BackendOK, Marks
<1>5. refresh[a] \in [version : Nat, answer : Nat \cup Marks]
  BY <1>1 DEF Held, RefreshOK
<1>6. /\ y = [refresh[a] EXCEPT !.answer = x]
      /\ y \in [version : Nat, answer : Nat \cup Marks] /\ y.answer = x
  BY <1>4, <1>5
<1>7. refresh' = [refresh EXCEPT ![a] = y]
  BY <1>3, <1>6
<1> HIDE DEF y
<1>8. /\ DOMAIN refresh' = DOMAIN refresh
      /\ \A b \in DOMAIN refresh : refresh'[b] = IF b = a THEN y ELSE refresh[b]
      /\ refresh' \in [DOMAIN refresh -> [version : Nat, answer : Nat \cup Marks]]
  BY <1>6, <1>7 DEF Held, RefreshOK
<1>9. RefreshOK'
  BY <1>2, <1>4, <1>6, <1>8 DEF Held, RefreshOK
<1> QED BY <1>1, <1>2, <1>9, RestKept DEF Held

LEMMA RefreshReturnHeld ==
  ASSUME Held, NEW a \in Addresses, RefreshReturn(a)
  PROVE  Held'
<1> DEFINE x == refresh[a].answer
<1>1. /\ UNCHANGED blocks /\ thread' = thread /\ disk' = disk
      /\ a \in DOMAIN refresh /\ x # Unanswered
      /\ cache' = Refreshed(a, x) /\ refresh' = Without(refresh, {a})
  BY DEF RefreshReturn, disks
<1>2. /\ BackendOK' /\ top' = top
      /\ top' \in [Addresses -> Nat] /\ \A b \in Addresses : top[b] <= top'[b]
  BY <1>1, SameBackend
<1>3. RefreshOK'
  BY <1>1, <1>2 DEF Held, RefreshOK, Without
<1>4. a \in Mutable /\ x \in Nat \cup Marks /\ (x \in Nat => x <= top[a])
  BY <1>1 DEF Held, RefreshOK
<1> HIDE DEF x
<1>5. CASE x = Unheard \/ a \notin DOMAIN cache
  <2>1. cache' = cache
    BY <1>1, <1>5 DEF Refreshed
  <2> QED BY <1>1, <1>2, <1>3, <2>1, RestKept DEF Held
<1>6. CASE ~(x = Unheard \/ a \notin DOMAIN cache) /\ x = Failed
  <2>1. cache' = Without(cache, {a})
    BY <1>1, <1>6, CacheAssumption DEF Refreshed
  <2>2. CacheOK'
    BY <1>2, <2>1, WithoutKept DEF Held
  <2> QED BY <1>1, <1>2, <1>3, <2>2, RestKept DEF Held
<1>7. CASE ~(x = Unheard \/ a \notin DOMAIN cache) /\ x = Same
  <2>1. cache' = With(cache, a, Cached(cache[a].version))
    BY <1>1, <1>7, CacheAssumption DEF Refreshed, Replaced
  <2>2. cache[a].version \in Nat /\ cache[a].version <= top[a]
    BY <1>7 DEF Held, CacheOK
  <2>3. CacheOK'
    BY <1>2, <1>4, <2>1, <2>2, WithKept DEF Held
  <2> QED BY <1>1, <1>2, <1>3, <2>3, RestKept DEF Held
<1>8. CASE ~(x = Unheard \/ a \notin DOMAIN cache) /\ x # Failed /\ x # Same
  <2>1. cache' = With(cache, a, Cached(x))
    BY <1>1, <1>8 DEF Refreshed, Replaced
  <2>2. x \in Nat /\ x <= top[a]
    BY <1>1, <1>4, <1>8 DEF Marks
  <2>3. CacheOK'
    BY <1>2, <1>4, <2>1, <2>2, WithKept DEF Held
  <2> QED BY <1>1, <1>2, <1>3, <2>3, RestKept DEF Held
<1> QED BY <1>5, <1>6, <1>7, <1>8

\* The process.
LEMMA ClearHeld ==
  ASSUME Held, Clear
  PROVE  Held'
<1>1. UNCHANGED blocks /\ thread' = thread /\ disk' = disk /\ refresh' = refresh
      /\ cache' = NoBlocks
  BY DEF Clear, disks
<1>2. /\ BackendOK' /\ top' = top
      /\ top' \in [Addresses -> Nat] /\ \A b \in Addresses : top[b] <= top'[b]
  BY <1>1, SameBackend
<1> QED BY <1>1, <1>2, NoBlocksKept, RestKept DEF Held

\* The files in any order are files.
LEMMA OrderedFiles ==
  ASSUME NEW S, IsFiniteSet(S), NEW s \in Orders(S)
  PROVE  s \in Seq(S) /\ \A k \in DOMAIN s : s[k] \in S
<1>1. Cardinality(S) \in Nat
  BY FS_CardinalityType
<1>2. s \in [1..Cardinality(S) -> S]
  BY DEF Orders, Injection, IsInjective
<1> QED BY <1>1, <1>2

LEMMA FilesFinite ==
  ASSUME NEW s \in Seq(Files)
  PROVE  IsFiniteSet(Range(s))
<1>1. Len(s) \in Nat /\ DOMAIN s = 1..Len(s)
  OBVIOUS
<1>2. IsFiniteSet(1..Len(s))
  BY <1>1, FS_Interval
<1>3. s \in Surjection(1..Len(s), Range(s))
  BY <1>1 DEF Range, Surjection
<1> QED BY <1>2, <1>3, FS_Surjection

LEMMA RestartHeld ==
  ASSUME Held, Restart
  PROVE  Held'
<1>1. /\ UNCHANGED blocks /\ cache' = NoBlocks /\ refresh' = NoBlocks
      /\ thread' = [t \in Threads |-> Idle]
  BY DEF Restart
<1>2. /\ BackendOK' /\ top' = top
      /\ top' \in [Addresses -> Nat] /\ \A b \in Addresses : top[b] <= top'[b]
  BY <1>1, SameBackend
<1>3. ThreadsOK'
  BY <1>1, IdleCall DEF ThreadsOK
<1>4. disk \in Seq(Files) /\ \A k \in DOMAIN disk : disk[k] \in Files /\ top[disk[k].address] # 0
  BY DEF Held, DiskOK
<1>5. ASSUME NEW S, IsFiniteSet(S), \A e \in S : e \in Files /\ top[e.address] # 0,
             disk' \in Orders(S)
      PROVE  DiskOK'
  <2>1. disk' \in Seq(S) /\ \A k \in DOMAIN disk' : disk'[k] \in S
    BY <1>5, OrderedFiles
  <2>2. disk' \in Seq(Files)
    BY <1>5, <2>1
  <2> QED BY <1>2, <1>5, <2>1, <2>2 DEF DiskOK
<1>6. CASE disk' \in Orders(Range(disk))
  <2>1. IsFiniteSet(Range(disk)) /\ \A e \in Range(disk) : e \in Files /\ top[e.address] # 0
    BY <1>4, FilesFinite DEF Range
  <2>2. DiskOK'
    BY <1>5, <1>6, <2>1
  <2> QED BY <1>1, <1>2, <1>3, <2>2, NoBlocksKept DEF Held
<1>7. CASE \E a \in Writing : \E n \in 0..FileSize[a] :
             disk' \in Orders(Range(Drop(a)) \cup {[address |-> a, size |-> n]})
  <2>0. PICK a \in Writing : \E n \in 0..FileSize[a] :
               disk' \in Orders(Range(Drop(a)) \cup {[address |-> a, size |-> n]})
    BY <1>7
  <2>1. PICK n \in 0..FileSize[a] :
               disk' \in Orders(Range(Drop(a)) \cup {[address |-> a, size |-> n]})
    BY <2>0
  <2> DEFINE e == [address |-> a, size |-> n]
  <2>2. PICK t \in Threads :
               /\ thread[t].address = a /\ a \in Immutable
               /\ thread[t].answer # Unanswered /\ thread[t].answer \notin {0, Failed}
    BY <2>1 DEF Writing, Answered
  <2>3. /\ thread[t].answer \in Nat /\ thread[t].answer # 0
        /\ thread[t].answer <= top[a] /\ top[a] \in Nat
    BY <2>2 DEF Held, ThreadsOK, Calls, BackendOK, Addresses
  <2>4. e \in Files /\ top[e.address] # 0
    BY <2>1, <2>2, <2>3, CacheAssumption DEF Files
  <2>5. From(Drop(a), disk)
    BY <1>4, DropKeeps
  <2>6. Drop(a) \in Seq(Files)
    BY <2>5 DEF From
  <2>7. \A f \in Range(Drop(a)) : f \in Files /\ top[f.address] # 0
    BY <1>4, <2>5 DEF Range, From
  <2> HIDE DEF e
  <2>8. IsFiniteSet(Range(Drop(a)) \cup {e})
    BY <2>6, FilesFinite, FS_AddElement
  <2>9. \A f \in Range(Drop(a)) \cup {e} : f \in Files /\ top[f.address] # 0
    BY <2>4, <2>7
  <2>10. disk' \in Orders(Range(Drop(a)) \cup {e})
    BY <2>1 DEF e
  <2>11. DiskOK'
    BY <1>5, <2>8, <2>9, <2>10
  <2> QED BY <1>1, <1>2, <1>3, <2>11, NoBlocksKept DEF Held
<1> QED BY <1>6, <1>7 DEF Restart

-----------------------------------------------------------------------------
(* The threads that wait                                                   *)

Fetching(t, a) == thread[t].op = "fetch" /\ thread[t].address = a

Alone ==
  /\ \A t, u \in Threads : \A a \in Addresses : Fetching(t, a) /\ Fetching(u, a) => t = u
  /\ \A t \in Threads : thread[t].op = "wait" =>
       \E u \in Threads : Fetching(u, thread[t].address)

Orderly == StoresOK /\ Alone

\* A thread goes on: one that fetches still does, one that begins to is the
\* only one, and one that waits has one to wait for.
LEMMA TurnKept ==
  ASSUME ThreadsOK, Orderly, NEW t \in Threads, NEW x, Does(t, x), x.address \in Addresses,
         x.op = "store" => x.answer # 0,
         thread[t].op = "fetch" => x.op = "fetch" /\ x.address = thread[t].address,
         x.op = "fetch" => \/ Fetching(t, x.address)
                           \/ \A u \in Threads : ~Fetching(u, x.address),
         x.op = "wait" => \E u \in Threads : Fetching(u, x.address)
  PROVE  Orderly'
<1>1. \A u \in Threads : thread'[u] = IF u = t THEN x ELSE thread[u]
  BY DEF Does, ThreadsOK
<1>2. StoresOK'
  BY <1>1 DEF StoresOK, Orderly
<1>3. \A u \in Threads, a \in Addresses : u # t => (Fetching(u, a)' <=> Fetching(u, a))
  BY <1>1 DEF Fetching
<1>4. \A a \in Addresses : Fetching(t, a)' <=> x.op = "fetch" /\ x.address = a
  BY <1>1 DEF Fetching
<1>5. \A a \in Addresses : Fetching(t, a) => Fetching(t, a)'
  BY <1>4 DEF Fetching
<1>6. ASSUME NEW u \in Threads, NEW v \in Threads, NEW a \in Addresses,
             Fetching(u, a)', Fetching(v, a)'
      PROVE  u = v
  <2>1. CASE u # t /\ v # t
    BY <1>3, <1>6, <2>1 DEF Orderly, Alone
  <2>2. CASE u = t /\ v # t
    <3>1. x.op = "fetch" /\ x.address = a /\ Fetching(v, a)
      BY <1>3, <1>4, <1>6, <2>2
    <3> QED BY <3>1, <2>2 DEF Orderly, Alone
  <2>3. CASE u # t /\ v = t
    <3>1. x.op = "fetch" /\ x.address = a /\ Fetching(u, a)
      BY <1>3, <1>4, <1>6, <2>3
    <3> QED BY <3>1, <2>3 DEF Orderly, Alone
  <2> QED BY <2>1, <2>2, <2>3
<1>7. ASSUME NEW v \in Threads, thread'[v].op = "wait"
      PROVE  \E u \in Threads : thread'[u].op = "fetch" /\ thread'[u].address = thread'[v].address
  <2>1. thread'[v].address \in Addresses
    BY <1>1 DEF ThreadsOK, Calls
  <2>2. \E u \in Threads : Fetching(u, thread'[v].address)
    BY <1>1, <1>7 DEF Orderly, Alone
  <2>3. PICK u \in Threads : Fetching(u, thread'[v].address)
    BY <2>2
  <2>4. thread'[u].op = "fetch" /\ thread'[u].address = thread'[v].address
    BY <1>1, <2>3 DEF Fetching
  <2> QED BY <2>4
<1>8. Alone'
  BY <1>6, <1>7 DEF Alone, Fetching
<1> QED BY <1>2, <1>8 DEF Orderly

\* A fetch ends: nobody waits for it any more.
LEMMA OpenTurn ==
  ASSUME ThreadsOK, Orderly, NEW t \in Threads, thread[t].op = "fetch", Open(t)
  PROVE  Orderly'
<1> DEFINE a == thread[t].address
           Waits(u) == thread[u].op = "wait" /\ thread[u].address = a
<1>1. /\ thread'[t] = Idle
      /\ \A u \in Threads : u # t /\ Waits(u) => thread'[u] = [thread[u] EXCEPT !.op = "again"]
      /\ \A u \in Threads : u # t /\ ~Waits(u) => thread'[u] = thread[u]
  BY DEF Open
<1>2. Idle.op = "idle" /\ Idle.answer = Unanswered
  BY DEF Idle
<1>3. \A u \in Threads : u # t /\ Waits(u) => thread'[u].op = "again"
  BY <1>1 DEF ThreadsOK, Calls
<1>4. StoresOK'
  BY <1>1, <1>2, <1>3 DEF StoresOK, Orderly
<1>5. \A u \in Threads, b \in Addresses : Fetching(u, b)' => u # t /\ Fetching(u, b)
  BY <1>1, <1>2, <1>3 DEF Fetching
<1>6. ASSUME NEW v \in Threads, thread'[v].op = "wait"
      PROVE  \E u \in Threads : thread'[u].op = "fetch" /\ thread'[u].address = thread'[v].address
  <2>1. v # t /\ ~Waits(v) /\ thread'[v] = thread[v]
    BY <1>1, <1>2, <1>3, <1>6
  <2>2. PICK u \in Threads : Fetching(u, thread[v].address)
    BY <1>6, <2>1 DEF Orderly, Alone
  <2>3. thread[v].address # a
    BY <1>6, <2>1
  <2>4. u # t /\ ~Waits(u)
    BY <2>2, <2>3 DEF Fetching
  <2> QED BY <1>1, <2>1, <2>2, <2>4 DEF Fetching
<1>7. Alone'
  BY <1>5, <1>6 DEF Alone, Orderly, Fetching
<1> QED BY <1>4, <1>7 DEF Orderly

\* A thread that does not fetch begins a call, or ends one.
LEMMA BeginKept ==
  ASSUME ThreadsOK, Orderly, NEW t \in Threads, thread[t].op # "fetch",
         NEW op \in Ops, NEW a \in Addresses, NEW n, Does(t, Doing(op, a, n)),
         op = "fetch" => Pending(a) = {}, op = "wait" => Pending(a) # {}
  PROVE  Orderly'
<1> DEFINE x == Doing(op, a, n)
<1>1. x.op = op /\ x.address = a /\ x.answer = Unanswered
  BY DEF Doing
<1>2. Does(t, x)
  OBVIOUS
<1> HIDE DEF x
<1>3. Pending(a) = {u \in Threads : Fetching(u, a)}
  BY DEF Pending, Fetching
<1>4. Unanswered # 0
  BY CacheAssumption
<1> QED BY <1>1, <1>2, <1>3, <1>4, TurnKept

LEMMA IdleKept ==
  ASSUME ThreadsOK, Orderly, NEW t \in Threads, thread[t].op # "fetch", Does(t, Idle)
  PROVE  Orderly'
<1>1. Idle.op = "idle" /\ Idle.address \in Addresses
  BY IdleCall DEF Idle, Calls
<1> QED BY <1>1, TurnKept

LEMMA MissKept ==
  ASSUME ThreadsOK, Orderly, NEW t \in Threads, thread[t].op # "fetch",
         NEW a \in Addresses, FetchMiss(t, a)
  PROVE  Orderly'
<1>1. CASE Pending(a) = {}
  <2>1. Does(t, Doing("fetch", a, 0)) /\ "fetch" \in Ops
    BY <1>1 DEF FetchMiss, Ops
  <2> QED BY <1>1, <2>1, BeginKept
<1>2. CASE Pending(a) # {}
  <2>1. Does(t, Doing("wait", a, 0)) /\ "wait" \in Ops
    BY <1>2 DEF FetchMiss, Ops
  <2> QED BY <1>2, <2>1, BeginKept
<1> QED BY <1>1, <1>2

LEMMA AnsweredKept ==
  ASSUME ThreadsOK, Orderly, NEW t \in Threads, NEW x, Answer(t, x),
         thread[t].op = "store" => x # 0, thread[t].op # "wait"
  PROVE  Orderly'
<1> DEFINE y == [thread[t] EXCEPT !.answer = x]
<1>1. thread[t] \in Calls
  BY DEF ThreadsOK
<1>2. y.op = thread[t].op /\ y.address = thread[t].address /\ y.answer = x
      /\ y.address \in Addresses
  BY <1>1 DEF Calls
<1>3. Does(t, y)
  BY DEF Answer
<1> HIDE DEF y
<1> QED BY <1>2, <1>3, TurnKept DEF Fetching

\* The steps of the threads.
LEMMA OrderlyStep ==
  ASSUME Held, Orderly, Next
  PROVE  Orderly'
<1>0. ThreadsOK /\ BackendOK /\ Failed # 0
  BY CacheAssumption DEF Held
<1>1. ASSUME NEW t \in Threads, NEW a \in Addresses, NEW n,
             Fetch(t, a) \/ FetchMany(t, a) \/ RemoveBlock(t, a) \/ Store(t, a, n)
      PROVE  Orderly'
  <2>1. thread[t].op # "fetch"
    BY <1>1 DEF Fetch, FetchMany, RemoveBlock, Store, Call
  <2>2. CASE Fetch(t, a)
    BY <1>0, <2>1, <2>2, MissKept DEF Fetch
  <2>3. CASE FetchMany(t, a) \/ RemoveBlock(t, a) \/ Store(t, a, n)
    <3>1. PICK op \in {"batch", "remove", "store"}, m \in {0, n} : Does(t, Doing(op, a, m))
      BY <2>3 DEF FetchMany, RemoveBlock, Store
    <3>2. op \in Ops /\ op # "fetch" /\ op # "wait"
      BY <3>1 DEF Ops
    <3> QED BY <1>0, <2>1, <3>1, <3>2, BeginKept
  <2> QED BY <1>1, <2>2, <2>3
<1>2. ASSUME NEW t \in Threads, FetchAgain(t)
      PROVE  Orderly'
  <2>1. thread[t].op # "fetch" /\ thread[t].address \in Addresses
    BY <1>0, <1>2 DEF FetchAgain, ThreadsOK, Calls
  <2>2. FetchMiss(t, thread[t].address) \/ Does(t, Idle)
    BY <1>2 DEF FetchAgain
  <2> QED BY <1>0, <2>1, <2>2, MissKept, IdleKept
<1>3. ASSUME NEW t \in Threads, FetchReturn(t)
      PROVE  Orderly'
  BY <1>0, <1>3, OpenTurn DEF FetchReturn, Answered
<1>4. ASSUME NEW t \in Threads, FetchManyReturn(t) \/ StoreReturn(t) \/ RemoveReturn(t)
      PROVE  Orderly'
  <2>1. thread[t].op # "fetch" /\ Does(t, Idle)
    BY <1>4 DEF FetchManyReturn, StoreReturn, RemoveReturn, Answered
  <2> QED BY <1>0, <2>1, IdleKept
<1>5. ASSUME NEW t \in Threads, AnswerFetch(t) \/ AnswerRemove(t)
      PROVE  Orderly'
  <2>1. thread[t].op \in {"fetch", "batch", "remove"} /\ \E x : Answer(t, x)
    BY <1>5 DEF AnswerFetch, AnswerRemove, Asked
  <2> QED BY <1>0, <2>1, AnsweredKept
<1>6. ASSUME NEW t \in Threads, AnswerStore(t)
      PROVE  Orderly'
  <2>1. thread[t].op = "store" /\ thread[t].address \in Addresses
    BY <1>0, <1>6 DEF AnswerStore, Asked, ThreadsOK, Calls
  <2>2. \E x : x # 0 /\ Answer(t, x)
    <3>1. \A m \in Outcomes(thread[t].address, thread[t].version) : m # 0
      BY <1>0, <2>1 DEF Outcomes, BackendOK
    <3> QED BY <1>0, <1>6, <3>1 DEF AnswerStore
  <2> QED BY <1>0, <2>1, <2>2, AnsweredKept
<1>7. ASSUME thread' = thread
      PROVE  Orderly'
  BY <1>7 DEF Orderly, StoresOK, Alone, Fetching
<1>8. ASSUME Restart
      PROVE  Orderly'
  <2>1. Idle.op = "idle"
    BY DEF Idle
  <2>2. \A t \in Threads : thread'[t].op = "idle"
    BY <1>8, <2>1 DEF Restart
  <2> QED BY <2>2 DEF Orderly, StoresOK, Alone, Fetching
<1>9. ASSUME NEW a \in Addresses, FetchDisk(a) \/ Foreign(a) \/ Expire(a)
                                  \/ AnswerRefresh(a) \/ RefreshReturn(a)
      PROVE  thread' = thread
  BY <1>9 DEF FetchDisk, Foreign, Expire, AnswerRefresh, RefreshReturn
<1>10. ASSUME NEW S, Cleanup(S) \/ Clear
       PROVE  thread' = thread
  BY <1>10 DEF Cleanup, Clear
<1> QED BY <1>1, <1>2, <1>3, <1>4, <1>5, <1>6, <1>7, <1>8, <1>9, <1>10 DEF Next

-----------------------------------------------------------------------------
(* The theorems                                                            *)

LEMMA CacheInit == Init => Held /\ Orderly
<1> SUFFICES ASSUME Init PROVE Held /\ Orderly
  OBVIOUS
<1>1. Idle.op = "idle" /\ \A t \in Threads : thread[t] = Idle
  BY DEF Init, Idle
<1>2. Orderly
  BY <1>1 DEF Orderly, StoresOK, Alone, Fetching
<1>3. ThreadsOK
  BY IdleCall DEF Init, ThreadsOK
<1>4. BackendOK
  BY DEF Init, BackendOK
<1>5. CacheOK /\ RefreshOK
  BY DEF Init, NoBlocks, CacheOK, RefreshOK
<1>6. DiskOK
  BY DEF Init, DiskOK
<1> QED BY <1>2, <1>3, <1>4, <1>5, <1>6 DEF Held

LEMMA HeldStep ==
  ASSUME Held, Orderly, Next
  PROVE  Held'
<1>1. ASSUME NEW t \in Threads, NEW a \in Addresses,
             Fetch(t, a) \/ FetchMany(t, a) \/ RemoveBlock(t, a)
      PROVE  Held'
  <2>1. 0 \in Nat OBVIOUS
  <2> QED BY <1>1, <2>1, CallsHeld
<1>2. ASSUME NEW t \in Threads, NEW a \in Addresses, NEW n \in Versions, Store(t, a, n)
      PROVE  Held'
  <2>1. n \in Nat
    BY CacheAssumption DEF Versions
  <2> QED BY <1>2, <2>1, CallsHeld
<1>3. StoresOK
  BY DEF Orderly
<1>4. ASSUME NEW t \in Threads,
             \/ FetchAgain(t) \/ FetchReturn(t) \/ FetchManyReturn(t)
             \/ StoreReturn(t) \/ RemoveReturn(t)
             \/ AnswerFetch(t) \/ AnswerStore(t) \/ AnswerRemove(t)
      PROVE  Held'
  BY <1>3, <1>4, FetchAgainHeld, FetchReturnHeld, StoreReturnHeld, AnswerFetchHeld,
     AnswerStoreHeld, AnswerRemoveHeld
<1>5. ASSUME NEW a \in Addresses, FetchDisk(a) \/ Foreign(a) \/ Expire(a)
                                  \/ AnswerRefresh(a) \/ RefreshReturn(a)
      PROVE  Held'
  BY <1>5, FetchDiskHeld, ForeignHeld, ExpireHeld, AnswerRefreshHeld, RefreshReturnHeld
<1>6. ASSUME NEW S \in SUBSET DOMAIN cache, Cleanup(S)
      PROVE  Held'
  BY <1>6, CleanupHeld
<1> QED BY <1>1, <1>2, <1>4, <1>5, <1>6, ClearHeld, RestartHeld DEF Next

LEMMA StutterKept ==
  ASSUME Held, Orderly, UNCHANGED vars
  PROVE  Held' /\ Orderly'
<1>1. /\ UNCHANGED blocks /\ thread' = thread /\ cache' = cache /\ refresh' = refresh
      /\ disk' = disk
  BY DEF vars, blocks
<1>2. Held'
  BY <1>1, SameBackend, RestKept DEF Held
<1>3. Orderly'
  BY <1>1 DEF Orderly, StoresOK, Alone, Fetching
<1> QED BY <1>2, <1>3

LEMMA CacheInvariant == Spec => [](Held /\ Orderly)
<1>1. Held /\ Orderly /\ [Next]_vars => Held' /\ Orderly'
  BY HeldStep, OrderlyStep, StutterKept
<1> QED BY <1>1, CacheInit, PTL DEF Spec

\* Genuine holds whatever the blocks, the threads, the sizes and the faults:
\* an answer of the backend is a version it held, whenever it is handled, and
\* nothing else is inserted in the cache, refreshed or written to disk.
THEOREM CacheIsGenuine == Spec => []Genuine
<1>1. Held => Genuine
  <2> SUFFICES ASSUME Held PROVE Genuine
    OBVIOUS
  <2>1. \A a \in OnDisk : top[a] # 0
    BY DEF Held, DiskOK, OnDisk
  <2> QED BY <2>1 DEF Held, CacheOK, Genuine
<1> QED BY <1>1, CacheInvariant, PTL

\* WaitsForOne holds whatever the number of threads: a thread that misses a
\* block either is the one that fetches it or waits for the one that does,
\* and the barrier is opened in the step that ends the fetch.
THEOREM CacheWaitsForOne == Spec => []WaitsForOne
<1>1. Held /\ Orderly => WaitsForOne
  <2> SUFFICES ASSUME Held, Orderly PROVE WaitsForOne
    OBVIOUS
  <2>1. \A a \in Addresses : \A t \in Threads : t \in Pending(a) <=> Fetching(t, a)
    BY DEF Pending, Fetching
  <2>2. \A a \in Addresses : Pending(a) \subseteq Threads
    BY DEF Pending
  <2>3. \A t \in Threads : thread[t].address \in Addresses
    BY DEF Held, ThreadsOK, Calls
  <2> QED BY <2>1, <2>2, <2>3 DEF Orderly, Alone, WaitsForOne
<1> QED BY <1>1, CacheInvariant, PTL

-----------------------------------------------------------------------------
(* The space of files.                                                     *)

LEMMA SameSequence ==
  ASSUME NEW S, NEW s \in Seq(S), NEW t \in Seq(S), Len(s) = Len(t),
         \A i \in 1..Len(s) : s[i] = t[i]
  PROVE  s = t
OBVIOUS

LEMMA SubSequence ==
  ASSUME NEW S, NEW s \in Seq(S), NEW m \in 1..(Len(s) + 1), NEW n \in (m - 1)..Len(s)
  PROVE  /\ SubSeq(s, m, n) \in Seq(S)
         /\ Len(SubSeq(s, m, n)) = n - m + 1
         /\ \A i \in 1..(n - m + 1) : SubSeq(s, m, n)[i] = s[m + i - 1]
<1>1. Len(s) \in Nat /\ m \in Nat /\ n \in Nat
  OBVIOUS
<1>2. Len(SubSeq(s, m, n)) = n - m + 1
  BY <1>1
<1>3. SubSeq(s, m, n) \in Seq(S)
  BY <1>1
<1>4. \A i \in 1..(n - m + 1) : SubSeq(s, m, n)[i] = s[m + i - 1]
  BY <1>1, <1>2
<1> QED BY <1>2, <1>3, <1>4

\* f is the space of the first files of s, for each number of them.
UpTo(f, s) == f = [n \in 0..Len(s) |-> IF n = 0 THEN 0 ELSE f[n - 1] + s[n].size]

LEMMA UpToAt ==
  ASSUME NEW s \in Seq(Files), NEW f, UpTo(f, s)
  PROVE  f[0] = 0 /\ \A n \in 1..Len(s) : f[n] = f[n - 1] + s[n].size
<1> DEFINE At(n) == IF n = 0 THEN 0 ELSE f[n - 1] + s[n].size
<1>1. f = [n \in 0..Len(s) |-> At(n)]
  BY DEF UpTo
<1> HIDE DEF At
<1>2. \A n \in 0..Len(s) : f[n] = At(n)
  BY <1>1
<1>3. Len(s) \in Nat /\ 0 \in 0..Len(s) /\ \A n \in 1..Len(s) : n \in 0..Len(s) /\ n # 0
  OBVIOUS
<1>4. f[0] = 0
  BY <1>2, <1>3 DEF At
<1>5. ASSUME NEW n \in 1..Len(s) PROVE f[n] = f[n - 1] + s[n].size
  <2>1. f[n] = At(n) /\ n # 0
    BY <1>2, <1>3
  <2> QED BY <2>1 DEF At
<1> QED BY <1>4, <1>5

LEMMA UpToExists ==
  ASSUME NEW s \in Seq(Files)
  PROVE  \E f \in [0..Len(s) -> Nat] : UpTo(f, s)
<1> DEFINE Step(f, k) == f[0] = 0 /\ \A n \in 1..k : f[n] = f[n - 1] + s[n].size
           N == {k \in Nat : k <= Len(s) => \E f \in [0..k -> Nat] : Step(f, k)}
<1>0. Len(s) \in Nat /\ \A n \in 1..Len(s) : s[n] \in Files
  OBVIOUS
<1>1. Len(s) \in Nat /\ \A n \in 1..Len(s) : s[n].size \in Nat
  BY <1>0 DEF Files
<1>2. 0 \in N
  <2> DEFINE f == [n \in 0..0 |-> 0]
  <2>1. f \in [0..0 -> Nat] /\ Step(f, 0)
    OBVIOUS
  <2> HIDE DEF f, Step
  <2> QED BY <2>1
<1>3. ASSUME NEW k \in N PROVE k + 1 \in N
  <2> HIDE DEF Step
  <2>0. k \in Nat
    OBVIOUS
  <2> SUFFICES ASSUME k + 1 <= Len(s) PROVE \E f \in [0..(k + 1) -> Nat] : Step(f, k + 1)
    BY <2>0
  <2>1. PICK g \in [0..k -> Nat] : Step(g, k)
    BY <1>1, <2>0
  <2> DEFINE f == [n \in 0..(k + 1) |-> IF n = k + 1 THEN g[k] + s[k + 1].size ELSE g[n]]
  <2>2. f \in [0..(k + 1) -> Nat]
    BY <1>1, <2>0, <2>1
  <2>3. f[k + 1] = g[k] + s[k + 1].size /\ \A n \in 0..k : f[n] = g[n]
    BY <2>0
  <2> HIDE DEF f
  <2>4. ASSUME NEW n \in 1..(k + 1) PROVE f[n] = f[n - 1] + s[n].size
    <3>1. CASE n = k + 1
      <4>1. f[k] = g[k] /\ n - 1 = k
        BY <2>0, <2>3, <3>1
      <4> QED BY <2>3, <3>1, <4>1
    <3>2. CASE n \in 1..k
      <4>0. n \in 0..k /\ n - 1 \in 0..k
        BY <2>0, <3>2
      <4>1. f[n] = g[n] /\ f[n - 1] = g[n - 1]
        BY <2>3, <4>0
      <4>2. g[n] = g[n - 1] + s[n].size
        BY <2>1, <3>2 DEF Step
      <4> QED BY <4>1, <4>2
    <3> QED BY <2>0, <3>1, <3>2
  <2>5. f[0] = 0
    BY <2>0, <2>1, <2>3 DEF Step
  <2>6. Step(f, k + 1)
    BY <2>4, <2>5 DEF Step
  <2> QED BY <2>2, <2>6
<1>4. N = Nat
  <2> HIDE DEF N
  <2>1. N \subseteq Nat
    BY DEF N
  <2> QED BY <1>2, <1>3, <2>1, AllNaturals
<1>5. PICK f \in [0..Len(s) -> Nat] : Step(f, Len(s))
  <2> HIDE DEF Step
  <2> QED BY <1>1, <1>4
<1>6. f = [n \in 0..Len(s) |-> f[n]]
  OBVIOUS
<1>7. \A n \in 0..Len(s) : f[n] = IF n = 0 THEN 0 ELSE f[n - 1] + s[n].size
  BY <1>1, <1>5
<1>8. UpTo(f, s)
  BY <1>6, <1>7 DEF UpTo
<1> QED BY <1>8

\* The first files are counted alike in two sequences that start with them.
LEMMA UpToSame ==
  ASSUME NEW s \in Seq(Files), NEW t \in Seq(Files), NEW m \in Nat,
         m <= Len(s), m <= Len(t), \A n \in 1..m : s[n] = t[n],
         NEW f, UpTo(f, s), NEW g, UpTo(g, t)
  PROVE  f[m] = g[m]
<1> DEFINE N == {n \in Nat : n <= m => f[n] \in Nat /\ f[n] = g[n]}
<1>0. \A n \in 1..m : s[n].size \in Nat /\ t[n].size = s[n].size
  <2>1. \A n \in 1..m : s[n] \in Files
    OBVIOUS
  <2> QED BY <2>1 DEF Files
<1>1. /\ f[0] = 0 /\ \A n \in 1..m : f[n] = f[n - 1] + s[n].size
      /\ g[0] = 0 /\ \A n \in 1..m : g[n] = g[n - 1] + t[n].size
  <2>1. \A n \in 1..m : n \in 1..Len(s) /\ n \in 1..Len(t)
    OBVIOUS
  <2>2. f[0] = 0 /\ \A n \in 1..Len(s) : f[n] = f[n - 1] + s[n].size
    BY UpToAt
  <2>3. g[0] = 0 /\ \A n \in 1..Len(t) : g[n] = g[n - 1] + t[n].size
    BY UpToAt
  <2> QED BY <2>1, <2>2, <2>3
<1>2. 0 \in N
  BY <1>1
<1>3. ASSUME NEW n \in N PROVE n + 1 \in N
  <2>1. n \in Nat
    OBVIOUS
  <2> SUFFICES ASSUME n + 1 <= m PROVE f[n + 1] \in Nat /\ f[n + 1] = g[n + 1]
    BY <2>1
  <2>2. n + 1 \in 1..m /\ (n + 1) - 1 = n /\ f[n] \in Nat /\ f[n] = g[n]
    BY <2>1
  <2>3. f[n + 1] = f[n] + s[n + 1].size /\ g[n + 1] = g[n] + t[n + 1].size
    BY <1>1, <2>2
  <2> QED BY <1>0, <2>2, <2>3
<1>4. N = Nat
  <2> HIDE DEF N
  <2>1. N \subseteq Nat
    BY DEF N
  <2> QED BY <1>2, <1>3, <2>1, AllNaturals
<1> QED BY <1>4

LEMMA TotalUpTo ==
  ASSUME NEW s \in Seq(Files)
  PROVE  Total(s) \in Nat /\ \E f : UpTo(f, s) /\ Total(s) = f[Len(s)]
<1> DEFINE f == CHOOSE g : UpTo(g, s)
<1>1. Total(s) = f[Len(s)]
  BY DEF Total, UpTo
<1>2. UpTo(f, s)
  BY UpToExists
<1>3. PICK g \in [0..Len(s) -> Nat] : UpTo(g, s)
  BY UpToExists
<1> HIDE DEF f
<1>4. f[Len(s)] = g[Len(s)] /\ g[Len(s)] \in Nat
  BY <1>2, <1>3, UpToSame
<1> QED BY <1>1, <1>2, <1>4

LEMMA TotalEmpty == Total(<<>>) = 0
<1>1. << >> \in Seq(Files) /\ Len(<< >>) = 0
  OBVIOUS
<1>2. PICK f : UpTo(f, << >>) /\ Total(<< >>) = f[0]
  BY <1>1, TotalUpTo
<1> QED BY <1>1, <1>2, UpToAt

\* A file adds its size.
LEMMA TotalAppend ==
  ASSUME NEW s \in Seq(Files), NEW e \in Files
  PROVE  Total(Append(s, e)) = Total(s) + e.size
<1> DEFINE t == Append(s, e)
<1>1. /\ t \in Seq(Files) /\ Len(t) = Len(s) + 1 /\ t[Len(s) + 1] = e /\ Len(s) \in Nat
      /\ \A n \in 1..Len(s) : s[n] = t[n]
  OBVIOUS
<1> HIDE DEF t
<1>2. PICK f : UpTo(f, s) /\ Total(s) = f[Len(s)]
  BY TotalUpTo
<1>3. PICK g : UpTo(g, t) /\ Total(t) = g[Len(t)]
  BY <1>1, TotalUpTo
<1>4. f[Len(s)] = g[Len(s)]
  BY <1>1, <1>2, <1>3, UpToSame
<1>5. g[Len(s) + 1] = g[Len(s)] + e.size
  <2>1. Len(s) + 1 \in 1..Len(t) /\ (Len(s) + 1) - 1 = Len(s)
    BY <1>1
  <2> QED BY <1>1, <1>3, <2>1, UpToAt
<1> QED BY <1>1, <1>2, <1>3, <1>4, <1>5 DEF t

\* The files of two sequences.
LEMMA TotalConcat ==
  ASSUME NEW x \in Seq(Files), NEW y \in Seq(Files)
  PROVE  Total(x \o y) = Total(x) + Total(y)
<1> DEFINE N == {n \in Nat : \A z \in Seq(Files) : Len(z) = n => Total(x \o z) = Total(x) + Total(z)}
<1>1. 0 \in N
  <2>1. ASSUME NEW z \in Seq(Files), Len(z) = 0
        PROVE  Total(x \o z) = Total(x) + Total(z)
    <3>1. z = << >>
      BY <2>1
    <3>2. x \o << >> = x
      OBVIOUS
    <3>3. Total(x) \in Nat
      BY TotalUpTo
    <3> QED BY <3>1, <3>2, <3>3, TotalEmpty
  <2> QED BY <2>1
<1>2. ASSUME NEW n \in N
      PROVE  n + 1 \in N
  <2>1. ASSUME NEW z \in Seq(Files), Len(z) = n + 1
        PROVE  Total(x \o z) = Total(x) + Total(z)
    <3>0. z # << >> /\ n \in Nat
      BY <2>1
    <3>1. PICK w \in Seq(Files), e \in Files : z = Append(w, e)
      <4> DEFINE w == SubSeq(z, 1, n)
                 e == z[n + 1]
      <4>1. w \in Seq(Files) /\ e \in Files /\ Append(w, e) \in Seq(Files)
        BY <2>1, <3>0
      <4>2. Len(Append(w, e)) = Len(z) /\ \A i \in 1..Len(z) : Append(w, e)[i] = z[i]
        BY <2>1, <3>0
      <4> HIDE DEF w, e
      <4>3. z = Append(w, e)
        BY <4>1, <4>2, SameSequence
      <4> QED BY <4>1, <4>3
    <3>2. Len(w) = n
      BY <2>1, <3>0, <3>1
    <3>3. Total(x \o w) = Total(x) + Total(w)
      BY <3>2
    <3>4. x \o Append(w, e) = Append(x \o w, e) /\ x \o w \in Seq(Files)
      OBVIOUS
    <3>5. Total(z) = Total(w) + e.size /\ Total(x \o z) = Total(x \o w) + e.size
      BY <3>1, <3>4, TotalAppend
    <3>6. Total(x) \in Nat /\ Total(w) \in Nat /\ e.size \in Nat
      BY TotalUpTo DEF Files
    <3> QED BY <3>3, <3>5, <3>6
  <2> QED BY <2>1
<1>3. N = Nat
  <2> HIDE DEF N
  <2>1. N \subseteq Nat
    BY DEF N
  <2> QED BY <1>1, <1>2, <2>1, AllNaturals
<1>4. Len(y) \in N
  BY <1>3
<1> QED BY <1>4

\* The files before and after a place.
LEMMA TotalSplit ==
  ASSUME NEW s \in Seq(Files), NEW n \in 0..Len(s)
  PROVE  /\ Total(s) = Total(SubSeq(s, 1, n)) + Total(SubSeq(s, n + 1, Len(s)))
         /\ Total(SubSeq(s, 1, n)) \in Nat /\ Total(SubSeq(s, n + 1, Len(s))) \in Nat
<1> DEFINE x == SubSeq(s, 1, n)
           y == SubSeq(s, n + 1, Len(s))
<1>0. Len(s) \in Nat /\ n \in Nat /\ DOMAIN s = 1..Len(s)
  OBVIOUS
<1>1. x \in Seq(Files) /\ y \in Seq(Files)
  BY <1>0
<1>2. s = x \o y
  <2>1. /\ Len(x) = n /\ \A i \in 1..n : x[i] = s[i]
        /\ Len(y) = Len(s) - n /\ \A i \in 1..(Len(s) - n) : y[i] = s[n + i]
    <3>0. /\ 1 \in 1..(Len(s) + 1) /\ n \in (1 - 1)..Len(s)
          /\ n + 1 \in 1..(Len(s) + 1) /\ Len(s) \in ((n + 1) - 1)..Len(s)
      BY <1>0
    <3>1. Len(x) = n - 1 + 1 /\ \A i \in 1..(n - 1 + 1) : x[i] = s[1 + i - 1]
      BY <3>0, SubSequence
    <3>2. /\ Len(y) = Len(s) - (n + 1) + 1
          /\ \A i \in 1..(Len(s) - (n + 1) + 1) : y[i] = s[(n + 1) + i - 1]
      BY <3>0, SubSequence
    <3> HIDE DEF x, y
    <3>3. /\ n - 1 + 1 = n /\ Len(s) - (n + 1) + 1 = Len(s) - n
          /\ \A i \in Nat : 1 + i - 1 = i /\ (n + 1) + i - 1 = n + i
      BY <1>0
    <3> QED BY <1>0, <3>1, <3>2, <3>3
  <2> HIDE DEF x, y
  <2>0. x \o y \in Seq(Files) /\ Len(x \o y) = Len(x) + Len(y)
    BY <1>1
  <2>2. Len(x \o y) = Len(s)
    BY <1>0, <2>0, <2>1
  <2>3. ASSUME NEW i \in 1..Len(s) PROVE (x \o y)[i] = s[i]
    <3>0. \A k \in 1..(Len(x) + Len(y)) :
            (x \o y)[k] = IF k <= Len(x) THEN x[k] ELSE y[k - Len(x)]
      BY <1>1
    <3>1. CASE i <= n
      <4>1. (x \o y)[i] = x[i] /\ i \in 1..n
        BY <1>0, <2>1, <3>0, <3>1
      <4> QED BY <2>1, <4>1
    <3>2. CASE i > n
      <4>1. (x \o y)[i] = y[i - n] /\ i - n \in 1..(Len(s) - n) /\ n + (i - n) = i
        BY <1>0, <2>1, <3>0, <3>2
      <4> QED BY <2>1, <4>1
    <3>3. i <= n \/ i > n
      BY <1>0
    <3> QED BY <3>1, <3>2, <3>3
  <2> QED BY <2>0, <2>2, <2>3, SameSequence
<1> HIDE DEF x, y
<1>3. Total(s) = Total(x) + Total(y)
  BY <1>1, <1>2, TotalConcat
<1>4. Total(x) \in Nat /\ Total(y) \in Nat
  BY <1>1, TotalUpTo
<1> QED BY <1>3, <1>4 DEF x, y


\* No block is twice on disk.
Distinct(s) == \A i, j \in DOMAIN s : s[i].address = s[j].address => i = j

Listing(s) == {s[k].address : k \in DOMAIN s}

LEMMA DistinctCount ==
  ASSUME NEW s \in Seq(Files), Distinct(s)
  PROVE  Cardinality(Listing(s)) = Len(s)
<1> DEFINE f == [k \in DOMAIN s |-> s[k].address]
<1>1. Len(s) \in Nat /\ DOMAIN s = 1..Len(s)
  OBVIOUS
<1>2. IsFiniteSet(1..Len(s)) /\ Cardinality(1..Len(s)) = Len(s)
  BY <1>1, FS_Interval
<1>3. f \in Surjection(1..Len(s), Listing(s))
  BY <1>1 DEF Surjection, Listing
<1>4. f \in Injection(1..Len(s), Listing(s))
  BY <1>1 DEF Injection, IsInjective, Listing, Distinct
<1> HIDE DEF f
<1> QED BY <1>2, <1>3, <1>4, FS_Surjection

\* Files after a place of a list.
LEMMA DistinctSub ==
  ASSUME NEW s \in Seq(Files), Distinct(s), NEW n \in 0..Len(s)
  PROVE  /\ SubSeq(s, n + 1, Len(s)) \in Seq(Files)
         /\ Distinct(SubSeq(s, n + 1, Len(s)))
<1> DEFINE x == SubSeq(s, n + 1, Len(s))
<1>1. Len(s) \in Nat /\ n \in Nat /\ DOMAIN s = 1..Len(s)
  OBVIOUS
<1>2. \A i \in (n + 1)..Len(s) : s[i] \in Files
  BY <1>1
<1>3. /\ x \in Seq(Files)
      /\ Len(x) = IF n + 1 <= Len(s) THEN Len(s) - (n + 1) + 1 ELSE 0
      /\ \A i \in 1..(Len(s) - (n + 1) + 1) : x[i] = s[n + 1 + i - 1]
  BY <1>1, <1>2
<1> HIDE DEF x
<1>4. DOMAIN x = 1..(Len(s) - n)
  <2>1. Len(x) = Len(s) - n
    <3>1. CASE n + 1 <= Len(s)
      <4>1. Len(x) = Len(s) - (n + 1) + 1
        BY <1>3, <3>1
      <4> QED BY <1>1, <4>1
    <3>2. CASE ~(n + 1 <= Len(s))
      <4>1. Len(x) = 0
        BY <1>3, <3>2
      <4>2. Len(s) = n
        <5>1. n \in Int /\ n <= Len(s) /\ Len(s) \in Int
          BY <1>1
        <5>2. \A m \in Int : n <= m /\ ~(n + 1 <= m) => m = n
          BY <5>1
        <5> QED BY <3>2, <5>1, <5>2
      <4> QED BY <1>1, <4>1, <4>2
    <3> QED BY <3>1, <3>2
  <2> QED BY <1>3, <2>1
<1>5. ASSUME NEW i \in 1..(Len(s) - n)
      PROVE  x[i] = s[n + i] /\ n + i \in DOMAIN s
  <2>1. i \in 1..(Len(s) - (n + 1) + 1) /\ n + 1 + i - 1 = n + i /\ n + i \in 1..Len(s)
    BY <1>1
  <2>2. x[i] = s[n + 1 + i - 1]
    BY <1>3, <2>1
  <2> QED BY <1>1, <2>1, <2>2
<1>6. ASSUME NEW i \in DOMAIN x, NEW j \in DOMAIN x, x[i].address = x[j].address
      PROVE  i = j
  <2>1. n + i = n + j
    BY <1>4, <1>5, <1>6 DEF Distinct
  <2> QED BY <1>1, <1>4, <2>1
<1> QED BY <1>3, <1>6 DEF Distinct, x

LEMMA DistinctAppend ==
  ASSUME NEW s \in Seq(Files), Distinct(s), NEW e \in Files, e.address \notin Listing(s)
  PROVE  Append(s, e) \in Seq(Files) /\ Distinct(Append(s, e))
<1> DEFINE t == Append(s, e)
<1>1. /\ t \in Seq(Files) /\ Len(t) = Len(s) + 1 /\ t[Len(s) + 1] = e
      /\ \A i \in 1..Len(s) : t[i] = s[i]
  OBVIOUS
<1>2. Len(s) \in Nat /\ DOMAIN s = 1..Len(s) /\ DOMAIN t = 1..(Len(s) + 1)
  BY <1>1
<1> HIDE DEF t
<1>3. \A i \in DOMAIN t : (i \in DOMAIN s /\ t[i] = s[i]) \/ (i = Len(s) + 1 /\ t[i] = e)
  BY <1>1, <1>2
<1>4. \A i \in DOMAIN s : s[i].address \in Listing(s)
  BY DEF Listing
<1> QED BY <1>1, <1>3, <1>4 DEF Distinct, t

\* The list without a block.
LEMMA DropList ==
  ASSUME disk \in Seq(Files), Distinct(disk), NEW a \in OnDisk
  PROVE  /\ Drop(a) \in Seq(Files) /\ Distinct(Drop(a)) /\ a \notin Listing(Drop(a))
         /\ Entry(a) \in Files /\ Entry(a).address = a
         /\ Total(disk) = Total(Drop(a)) + Entry(a).size /\ Total(Drop(a)) \in Nat
<1> DEFINE p == Place(a)
           x == SubSeq(disk, 1, p - 1)
           y == SubSeq(disk, p + 1, Len(disk))
<1>1. Len(disk) \in Nat /\ DOMAIN disk = 1..Len(disk)
  OBVIOUS
<1>2. p \in 1..Len(disk) /\ disk[p].address = a /\ Entry(a) = disk[p]
  BY <1>1 DEF OnDisk, Place, Entry
<1>3. Drop(a) = x \o y
  BY DEF Drop
<1> HIDE DEF p
<1>4. /\ x \in Seq(Files) /\ Len(x) = p - 1
      /\ \A i \in 1..(p - 1) : x[i] = disk[i]
  <2>1. \A i \in 1..(p - 1) : disk[i] \in Files
    BY <1>1, <1>2
  <2>2. /\ x \in Seq(Files)
        /\ Len(x) = IF 1 <= p - 1 THEN p - 1 - 1 + 1 ELSE 0
        /\ \A i \in 1..(p - 1 - 1 + 1) : x[i] = disk[1 + i - 1]
    BY <1>1, <1>2, <2>1
  <2> HIDE DEF x
  <2> QED BY <1>2, <2>2
<1>5. /\ y \in Seq(Files) /\ Len(y) = Len(disk) - p
      /\ \A i \in 1..(Len(disk) - p) : y[i] = disk[p + i]
  <2>1. \A i \in (p + 1)..Len(disk) : disk[i] \in Files
    BY <1>1, <1>2
  <2>2. /\ y \in Seq(Files)
        /\ Len(y) = IF p + 1 <= Len(disk) THEN Len(disk) - (p + 1) + 1 ELSE 0
        /\ \A i \in 1..(Len(disk) - (p + 1) + 1) : y[i] = disk[p + 1 + i - 1]
    BY <1>1, <1>2, <2>1
  <2> HIDE DEF y
  <2>3. Len(y) = Len(disk) - p
    <3>1. CASE p + 1 <= Len(disk)
      <4>1. Len(y) = Len(disk) - (p + 1) + 1
        BY <2>2, <3>1
      <4> QED BY <1>1, <1>2, <4>1
    <3>2. CASE ~(p + 1 <= Len(disk))
      <4>1. Len(y) = 0
        BY <2>2, <3>2
      <4>2. Len(disk) = p
        <5>1. p \in Int /\ p <= Len(disk) /\ Len(disk) \in Int
          BY <1>1, <1>2
        <5>2. \A m \in Int : p <= m /\ ~(p + 1 <= m) => m = p
          BY <5>1
        <5> QED BY <3>2, <5>1, <5>2
      <4> QED BY <1>2, <4>1, <4>2
    <3> QED BY <3>1, <3>2
  <2>4. ASSUME NEW i \in 1..(Len(disk) - p)
        PROVE  y[i] = disk[p + i]
    <3>1. i \in 1..(Len(disk) - (p + 1) + 1) /\ p + 1 + i - 1 = p + i
      BY <1>1, <1>2
    <3>2. y[i] = disk[p + 1 + i - 1]
      BY <2>2, <3>1
    <3> QED BY <3>1, <3>2
  <2> QED BY <2>2, <2>3, <2>4
<1>6. disk[p] \in Files /\ disk[p].size \in Nat
  <2>1. disk[p] \in Files
    BY <1>1, <1>2
  <2> QED BY <2>1 DEF Files
<1>7. Total(disk) = Total(x \o y) + disk[p].size /\ Total(x \o y) \in Nat
  <2>1. p - 1 \in 0..Len(disk) /\ (p - 1) + 1 = p
    BY <1>1, <1>2
  <2>2. Total(disk) = Total(x) + Total(SubSeq(disk, p, Len(disk)))
    BY <2>1, TotalSplit
  <2>3. SubSeq(disk, p, Len(disk)) = <<disk[p]>> \o y
    <3>1. Len(disk) \in p..Len(disk)
      BY <1>1, <1>2
    <3> QED BY <1>2, <3>1
  <2> HIDE DEF x, y
  <2>4. <<disk[p]>> \in Seq(Files) /\ << >> \in Seq(Files) /\ <<disk[p]>> = Append(<< >>, disk[p])
    BY <1>6
  <2>5. Total(<<disk[p]>>) = disk[p].size
    <3>1. Total(Append(<< >>, disk[p])) = Total(<< >>) + disk[p].size
      BY <1>6, <2>4, TotalAppend
    <3> QED BY <1>6, <2>4, <3>1, TotalEmpty
  <2>6. Total(<<disk[p]>> \o y) = disk[p].size + Total(y)
    BY <1>5, <2>4, <2>5, TotalConcat
  <2>7. Total(x \o y) = Total(x) + Total(y) /\ Total(x) \in Nat /\ Total(y) \in Nat
    BY <1>4, <1>5, TotalConcat, TotalUpTo
  <2> QED BY <1>6, <2>2, <2>3, <2>6, <2>7
<1> HIDE DEF x, y
<1> DEFINE d == x \o y
<1>8. /\ d \in Seq(Files) /\ Len(d) = Len(disk) - 1
      /\ \A i \in 1..(Len(disk) - 1) : d[i] = IF i < p THEN disk[i] ELSE disk[i + 1]
  <2>0. x \in Seq(Files) /\ y \in Seq(Files)
    BY <1>4, <1>5
  <2>1. /\ d \in Seq(Files) /\ Len(d) = Len(x) + Len(y)
        /\ \A i \in 1..(Len(x) + Len(y)) : d[i] = IF i <= Len(x) THEN x[i] ELSE y[i - Len(x)]
    BY <2>0
  <2> HIDE DEF d
  <2>2. Len(d) = Len(disk) - 1
    BY <1>1, <1>2, <1>4, <1>5, <2>1
  <2>3. ASSUME NEW i \in 1..(Len(disk) - 1)
        PROVE  d[i] = IF i < p THEN disk[i] ELSE disk[i + 1]
    <3>1. CASE i < p
      BY <1>1, <1>2, <1>4, <1>5, <2>1, <3>1
    <3>2. CASE ~(i < p)
      <4>1. d[i] = y[i - (p - 1)] /\ i - (p - 1) \in 1..(Len(disk) - p)
        <5>1. ~(i <= Len(x)) /\ i \in 1..(Len(x) + Len(y)) /\ i - Len(x) = i - (p - 1)
          BY <1>1, <1>2, <1>4, <1>5, <3>2
        <5>2. d[i] = y[i - Len(x)]
          BY <2>1, <5>1
        <5>3. i - (p - 1) \in 1..(Len(disk) - p)
          BY <1>1, <1>2, <3>2
        <5> QED BY <5>1, <5>2, <5>3
      <4>2. p + (i - (p - 1)) = i + 1
        BY <1>1, <1>2
      <4> QED BY <1>5, <3>2, <4>1, <4>2
    <3> QED BY <3>1, <3>2
  <2> QED BY <2>1, <2>2, <2>3
<1> HIDE DEF d
<1> DEFINE From1(i) == IF i < p THEN i ELSE i + 1
<1>9. \A i \in DOMAIN d : From1(i) \in DOMAIN disk /\ From1(i) # p /\ d[i] = disk[From1(i)]
  BY <1>1, <1>2, <1>8
<1>10. \A i, j \in DOMAIN d : From1(i) = From1(j) => i = j
  BY <1>1, <1>2, <1>8
<1> HIDE DEF From1
<1>11. Distinct(d)
  BY <1>9, <1>10 DEF Distinct
<1>12. a \notin Listing(d)
  BY <1>1, <1>2, <1>9 DEF Distinct, Listing
<1> QED BY <1>2, <1>3, <1>6, <1>7, <1>8, <1>11, <1>12 DEF d

\* The space counted covers the files, and what it counts too much (a block
\* pushed twice) is less than the disk cache holds: pruning ends before the
\* files do.
Counted(s, used) ==
  /\ s \in Seq(Files) /\ Distinct(s)
  /\ used \in Nat /\ Total(s) <= used /\ used - Total(s) <= DiskSize

LEMMA PruneFits ==
  ASSUME NEW s, NEW used, Counted(s, used), Prune(s, used), aborted = FALSE
  PROVE  /\ Counted(disk', disk_used') /\ disk_used' <= DiskSize
         /\ aborted' = FALSE /\ Range(disk') \subseteq Range(s)
<1>0. s \in Seq(Files) /\ Distinct(s) /\ used \in Nat /\ Total(s) <= used
      /\ used - Total(s) <= DiskSize /\ Total(s) \in Nat /\ Len(s) \in Nat /\ DiskSize \in Nat
  BY TotalUpTo, CacheAssumption DEF Counted
<1>1. PICK gone \in 0..Len(s) :
        /\ gone = Len(s) \/ used - Total(SubSeq(s, 1, gone)) <= DiskSize
        /\ disk' = SubSeq(s, gone + 1, Len(s))
        /\ disk_used' = used - Total(SubSeq(s, 1, gone))
        /\ aborted' = (aborted \/ used - Total(SubSeq(s, 1, gone)) > DiskSize)
  BY DEF Prune
<1>2. /\ Total(s) = Total(SubSeq(s, 1, gone)) + Total(disk')
      /\ Total(SubSeq(s, 1, gone)) \in Nat /\ Total(disk') \in Nat
  <2>1. 1 \in Nat \ {0} /\ gone + 1 \in Nat \ {0} /\ Len(s) \in 0..Len(s)
    BY <1>0
  <2>2. SubSeq(s, 1, gone) \in Seq(Files) /\ disk' \in Seq(Files)
    BY <1>0, <1>1, <2>1, FromSub DEF From
  <2>3. Total(s) = Total(SubSeq(s, 1, gone)) + Total(SubSeq(s, gone + 1, Len(s)))
    BY <1>0, TotalSplit
  <2> QED BY <1>1, <2>2, <2>3, TotalUpTo
<1>3. disk' \in Seq(Files) /\ Distinct(disk')
  BY <1>0, <1>1, DistinctSub
<1>4. used - Total(SubSeq(s, 1, gone)) <= DiskSize
  <2>1. CASE gone = Len(s)
    <3>1. SubSeq(s, 1, gone) = s
      BY <1>0, <2>1
    <3> QED BY <1>0, <3>1
  <2> QED BY <1>1, <2>1
<1>5. aborted' = FALSE
  <2>1. ~(used - Total(SubSeq(s, 1, gone)) > DiskSize)
    BY <1>0, <1>2, <1>4
  <2> QED BY <1>1, <2>1
<1>6. disk_used' \in Nat /\ Total(disk') <= disk_used' /\ disk_used' - Total(disk') <= DiskSize
  BY <1>0, <1>1, <1>2
<1>7. Range(disk') \subseteq Range(s)
  BY <1>0, PruneKeeps DEF From, Range
<1> QED BY <1>1, <1>3, <1>4, <1>5, <1>6, <1>7 DEF Counted

\* A thread that may push a block to the disk cache.
Busy(a) == \E t \in Threads : /\ thread[t].address = a
                              /\ thread[t].op \in {"fetch", "batch", "store"}

\* A file that is not whole, or one found by a restart when there were too many.
Uneasy(e) == e.size # FileSize[e.address] \/ disk_used > DiskSize

\* The inductive invariant: a second push only counts a file twice while what
\* is used fits, since a file that could be pushed otherwise is of a block
\* already stored that no thread fetches or stores.
Room ==
  /\ aborted = FALSE /\ Counted(disk, disk_used)
  /\ crashes \in Nat /\ (crashes = 0 => disk_used <= DiskSize)
  /\ \A a \in Immutable : top[a] <= 1
  /\ \A e \in Files : e \in Range(disk) /\ Uneasy(e) => e.address \in stored /\ ~Busy(e.address)

LEMMA QuietRoom ==
  ASSUME Room, Counted(disk', disk_used'), Range(disk') \subseteq Range(disk),
         disk_used' <= disk_used, aborted' = aborted, crashes' = crashes,
         \A a \in Immutable : top'[a] <= 1, stored \subseteq stored',
         \A a \in Immutable : Busy(a)' => Busy(a) \/ a \notin OnDisk \/ a \notin stored
  PROVE  Room'
<1>0. disk_used \in Nat /\ disk_used' \in Nat /\ DiskSize \in Nat
  BY CacheAssumption DEF Room, Counted
<1>1. ASSUME NEW e \in Files, e \in Range(disk'), Uneasy(e)'
      PROVE  e.address \in stored' /\ ~Busy(e.address)'
  <2>1. e \in Range(disk) /\ Uneasy(e)
    BY <1>0, <1>1 DEF Uneasy
  <2>2. e.address \in stored /\ ~Busy(e.address) /\ e.address \in Immutable
    BY <2>1 DEF Room, Files
  <2>3. e.address \in OnDisk
    BY <2>1 DEF Range, OnDisk
  <2> QED BY <2>2, <2>3
<1>2. crashes' \in Nat /\ (crashes' = 0 => disk_used' <= DiskSize) /\ aborted' = FALSE
  BY <1>0 DEF Room
<1> QED BY <1>1, <1>2 DEF Room

LEMMA PushRoom ==
  ASSUME DiskOK, Room, NEW a \in Immutable, Busy(a), DiskPush(a),
         crashes' = crashes, top' = top, stored \subseteq stored',
         \A b \in Immutable : Busy(b)' => Busy(b)
  PROVE  Room'
<1> DEFINE s == Listed(a)
           used == disk_used + FileSize[a]
<1>0. /\ disk \in Seq(Files) /\ Distinct(disk) /\ disk_used \in Nat
      /\ Total(disk) <= disk_used /\ disk_used - Total(disk) <= DiskSize
      /\ Total(disk) \in Nat /\ DiskSize \in Nat /\ FileSize[a] \in Nat
      /\ aborted = FALSE /\ crashes \in Nat
  BY TotalUpTo, CacheAssumption DEF Room, Counted
<1>1. File(a) \in Files /\ File(a).address = a /\ File(a).size = FileSize[a]
  BY <1>0 DEF File, Files
<1>2. Counted(s, used) /\ Range(s) \subseteq Range(disk) \cup {File(a)}
  <2>1. CASE a \in OnDisk
    <3>1. PICK k \in DOMAIN disk : disk[k].address = a
      BY <2>1 DEF OnDisk
    <3>2. disk[k] \in Files /\ disk[k] \in Range(disk)
      BY <1>0, <3>1 DEF Range
    <3>3. ~Uneasy(disk[k])
      BY <3>1, <3>2 DEF Room
    <3>4. disk[k].size = FileSize[a] /\ disk_used <= DiskSize
      BY <1>0, <3>1, <3>3 DEF Uneasy
    <3>5. Total(disk) = Total(Drop(a)) + Entry(a).size /\ Total(Drop(a)) \in Nat
      BY <1>0, <2>1, DropList
    <3>6. Entry(a) = disk[k]
      <4>1. Place(a) \in DOMAIN disk /\ disk[Place(a)].address = a
        BY <3>1 DEF Place
      <4> QED BY <1>0, <3>1, <4>1 DEF Entry, Distinct
    <3>7. used \in Nat /\ Total(disk) <= used /\ used - Total(disk) <= DiskSize
      BY <1>0, <3>4, <3>5, <3>6
    <3>8. s = disk
      BY <2>1 DEF Listed
    <3> HIDE DEF s, used
    <3> QED BY <1>0, <3>7, <3>8 DEF Counted
  <2>2. CASE a \notin OnDisk
    <3>1. s = Append(disk, File(a))
      BY <2>2 DEF Listed
    <3>2. File(a).address \notin Listing(disk)
      BY <1>1, <2>2 DEF Listing, OnDisk
    <3> HIDE DEF s
    <3>3. s \in Seq(Files) /\ Distinct(s)
      BY <1>0, <1>1, <3>1, <3>2, DistinctAppend
    <3>4. Total(s) = Total(disk) + FileSize[a]
      BY <1>0, <1>1, <3>1, TotalAppend
    <3>5. used \in Nat /\ Total(s) <= used /\ used - Total(s) <= DiskSize
      BY <1>0, <3>4
    <3>6. Range(s) \subseteq Range(disk) \cup {File(a)}
      <4>1. /\ Len(s) = Len(disk) + 1 /\ s[Len(disk) + 1] = File(a)
            /\ \A i \in 1..Len(disk) : s[i] = disk[i]
        BY <1>0, <1>1, <3>1
      <4>2. DOMAIN s = 1..(Len(disk) + 1) /\ DOMAIN disk = 1..Len(disk) /\ Len(disk) \in Nat
        BY <1>0, <3>3, <4>1
      <4>3. \A i \in DOMAIN s : i \in DOMAIN disk \/ i = Len(disk) + 1
        BY <4>2
      <4> QED BY <4>1, <4>2, <4>3 DEF Range
    <3> HIDE DEF used
    <3> QED BY <3>3, <3>5, <3>6 DEF Counted
  <2> QED BY <2>1, <2>2
<1>3. Prune(s, used)
  BY DEF DiskPush
<1> HIDE DEF s, used
<1>4. /\ Counted(disk', disk_used') /\ disk_used' <= DiskSize
      /\ aborted' = FALSE /\ Range(disk') \subseteq Range(s)
  BY <1>0, <1>2, <1>3, PruneFits
<1>5. disk_used' \in Nat
  BY <1>4 DEF Counted
<1>6. ASSUME NEW e \in Files, e \in Range(disk'), Uneasy(e)'
      PROVE  e.address \in stored' /\ ~Busy(e.address)'
  <2>1. e.size # FileSize[e.address]
    BY <1>0, <1>4, <1>5, <1>6 DEF Uneasy
  <2>2. e # File(a) /\ e \in Range(disk)
    BY <1>1, <1>2, <1>4, <1>6, <2>1
  <2>3. Uneasy(e) /\ e.address \in Immutable
    BY <2>1 DEF Uneasy, Files
  <2> QED BY <2>2, <2>3 DEF Room
<1>7. \A b \in Immutable : top'[b] <= 1
  BY DEF Room
<1> QED BY <1>0, <1>4, <1>6, <1>7 DEF Room

\* Who is busy after a thread goes on.
LEMMA DoesBusy ==
  ASSUME ThreadsOK, NEW t \in Threads, NEW x, Does(t, x)
  PROVE  \A a : Busy(a)' => Busy(a) \/ (x.op \in {"fetch", "batch", "store"} /\ x.address = a)
<1>1. \A u \in Threads : thread'[u] = IF u = t THEN x ELSE thread[u]
  BY DEF ThreadsOK, Does
<1> QED BY <1>1 DEF Busy

LEMMA OpenBusy ==
  ASSUME ThreadsOK, NEW t \in Threads, Open(t)
  PROVE  \A a : Busy(a)' => Busy(a)
<1>1. ASSUME NEW u \in Threads
      PROVE  thread'[u].op \in {"fetch", "batch", "store"} => thread'[u] = thread[u]
  <2>1. thread'[u] = IF u = t THEN Idle
           ELSE IF thread[u].op = "wait" /\ thread[u].address = thread[t].address
         THEN [thread[u] EXCEPT !.op = "again"] ELSE thread[u]
    BY DEF Open
  <2>2. Idle.op = "idle"
    BY DEF Idle
  <2>3. [thread[u] EXCEPT !.op = "again"].op = "again"
    BY DEF ThreadsOK, Calls
  <2> QED BY <2>1, <2>2, <2>3
<1> QED BY <1>1 DEF Busy


\* The steps that leave the files alone.
LEMMA SameDisk ==
  ASSUME Room, UNCHANGED disks, crashes' = crashes,
         \A a \in Immutable : top'[a] <= 1, stored \subseteq stored',
         \A a \in Immutable : Busy(a)' => Busy(a) \/ a \notin OnDisk \/ a \notin stored
  PROVE  Room'
<1>1. disk' = disk /\ disk_used' = disk_used /\ aborted' = aborted
  BY DEF disks
<1>2. Counted(disk', disk_used') /\ disk_used' <= disk_used /\ Range(disk') \subseteq Range(disk)
  BY <1>1 DEF Room, Counted, Range
<1> QED BY <1>1, <1>2, QuietRoom

LEMMA SameTop ==
  ASSUME Room, UNCHANGED blocks
  PROVE  top' = top /\ \A a \in Immutable : top'[a] <= 1
BY DEF Room, blocks

\* A call that pushes nothing.
LEMMA IdleRoom ==
  ASSUME Held, Room, NEW t \in Threads, Does(t, Idle), UNCHANGED disks, UNCHANGED blocks,
         crashes' = crashes, stored' = stored
  PROVE  Room'
<1>1. Idle.op = "idle"
  BY DEF Idle
<1>2. \A a \in Immutable : Busy(a)' => Busy(a)
  BY <1>1, DoesBusy DEF Held
<1> QED BY <1>2, SameTop, SameDisk

LEMMA CallRoom ==
  ASSUME Held, Room, NEW t \in Threads, NEW a \in Addresses, NEW n,
         Fetch(t, a) \/ FetchMany(t, a) \/ Store(t, a, n)
  PROVE  Room'
<1>1. /\ UNCHANGED disks /\ UNCHANGED blocks /\ crashes' = crashes /\ stored' = stored
  BY DEF Fetch, FetchMany, Store, counters
<1>2. PICK op, m : Does(t, Doing(op, a, m))
  BY DEF Fetch, FetchMany, Store, FetchMiss
<1>3. Doing(op, a, m).address = a
  BY DEF Doing
<1>4. a \in Immutable => a \notin OnDisk \/ a \notin stored
  BY CacheAssumption DEF Fetch, FetchMany, Store, Miss
<1>5. \A b \in Immutable : Busy(b)' => Busy(b) \/ b \notin OnDisk \/ b \notin stored
  BY <1>2, <1>3, <1>4, DoesBusy DEF Held
<1> QED BY <1>1, <1>5, SameTop, SameDisk

LEMMA FromSet ==
  ASSUME NEW x, NEW s, From(x, s)
  PROVE  Range(x) \subseteq Range(s)
BY DEF From, Range

\* A block used again goes to the end of the list.
LEMMA TouchedCounted ==
  ASSUME Room, NEW a
  PROVE  Counted(Touched(a), disk_used) /\ Range(Touched(a)) \subseteq Range(disk)
<1>0. Counted(disk, disk_used) /\ disk \in Seq(Files) /\ Distinct(disk)
  BY DEF Room, Counted
<1>1. CASE ~(a \in OnDisk /\ Entry(a).size = FileSize[a])
  BY <1>0, <1>1 DEF Touched
<1>2. CASE a \in OnDisk /\ Entry(a).size = FileSize[a]
  <2>1. Touched(a) = Append(Drop(a), Entry(a))
    BY <1>2 DEF Touched
  <2>2. /\ Drop(a) \in Seq(Files) /\ Distinct(Drop(a)) /\ a \notin Listing(Drop(a))
        /\ Entry(a) \in Files /\ Entry(a).address = a
        /\ Total(disk) = Total(Drop(a)) + Entry(a).size /\ Total(Drop(a)) \in Nat
    BY <1>0, <1>2, DropList
  <2>3. Touched(a) \in Seq(Files) /\ Distinct(Touched(a))
    BY <2>1, <2>2, DistinctAppend
  <2>4. Total(Touched(a)) = Total(disk)
    BY <2>1, <2>2, TotalAppend
  <2>5. Range(Touched(a)) \subseteq Range(disk)
    <3>1. From(Drop(a), disk) /\ From(<<Entry(a)>>, disk)
      BY <1>0, <1>2, DropKeeps
    <3>2. Touched(a) = Drop(a) \o <<Entry(a)>>
      BY <2>1, <2>2
    <3> QED BY <3>1, <3>2, FromConcat, FromSet
  <2> QED BY <1>0, <2>3, <2>4, <2>5 DEF Counted
<1> QED BY <1>1, <1>2

LEMMA TouchRoom ==
  ASSUME Room, NEW a, disk' = Touched(a), disk_used' = disk_used, aborted' = aborted,
         crashes' = crashes, UNCHANGED blocks, stored' = stored,
         \A b \in Immutable : Busy(b)' => Busy(b) \/ b \notin OnDisk
  PROVE  Room'
<1>1. Counted(disk', disk_used') /\ Range(disk') \subseteq Range(disk)
  BY TouchedCounted
<1>2. disk_used' <= disk_used
  BY DEF Room, Counted
<1> QED BY <1>1, <1>2, SameTop, QuietRoom

LEMMA FetchAgainRoom ==
  ASSUME Held, Room, NEW t \in Threads, FetchAgain(t)
  PROVE  Room'
<1> DEFINE a == thread[t].address
<1>1. /\ disk' = Touched(a) /\ disk_used' = disk_used /\ aborted' = aborted
      /\ crashes' = crashes /\ UNCHANGED blocks /\ stored' = stored
  BY DEF FetchAgain, counters
<1>2. \A b \in Immutable : Busy(b)' => Busy(b) \/ b \notin OnDisk
  <2>1. CASE Miss(a)
    <3>1. PICK op : Does(t, Doing(op, a, 0))
      BY <2>1 DEF FetchAgain, FetchMiss
    <3>2. Doing(op, a, 0).address = a
      BY DEF Doing
    <3>3. a \notin OnDisk
      BY <2>1 DEF Miss
    <3> HIDE DEF a
    <3> QED BY <3>1, <3>2, <3>3, DoesBusy DEF Held
  <2>2. CASE ~Miss(a)
    <3>1. Does(t, Idle) /\ Idle.op = "idle"
      BY <2>2 DEF FetchAgain, Idle
    <3> QED BY <3>1, DoesBusy DEF Held
  <2> QED BY <2>1, <2>2
<1> HIDE DEF a
<1> QED BY <1>1, <1>2, TouchRoom

LEMMA FetchDiskRoom ==
  ASSUME Held, Room, NEW a \in Addresses, FetchDisk(a)
  PROVE  Room'
<1>1. /\ disk' = Touched(a) /\ disk_used' = disk_used /\ aborted' = aborted
      /\ crashes' = crashes /\ UNCHANGED blocks /\ stored' = stored /\ thread' = thread
  BY DEF FetchDisk, counters
<1>2. \A b \in Immutable : Busy(b)' => Busy(b)
  BY <1>1 DEF Busy
<1> QED BY <1>1, <1>2, TouchRoom

LEMMA RemoveRoom ==
  ASSUME Held, Room, NEW t \in Threads, NEW a \in Addresses, RemoveBlock(t, a)
  PROVE  Room'
<1>0. /\ Counted(disk, disk_used) /\ disk \in Seq(Files) /\ Distinct(disk)
      /\ disk_used \in Nat /\ Total(disk) <= disk_used /\ disk_used - Total(disk) <= DiskSize
      /\ Total(disk) \in Nat /\ DiskSize \in Nat
  BY TotalUpTo, CacheAssumption DEF Room, Counted
<1>1. /\ disk' = Drop(a) /\ disk_used' = disk_used - (IF a \in OnDisk THEN Entry(a).size ELSE 0)
      /\ aborted' = aborted /\ crashes' = crashes /\ UNCHANGED blocks /\ stored' = stored
      /\ Does(t, Doing("remove", a, 0))
  BY DEF RemoveBlock, counters
<1>2. \A b \in Immutable : Busy(b)' => Busy(b)
  <2>1. Doing("remove", a, 0).op = "remove"
    BY DEF Doing
  <2> QED BY <1>1, <2>1, DoesBusy DEF Held
<1>3. Counted(disk', disk_used') /\ disk_used' <= disk_used
  <2>1. CASE a \in OnDisk
    <3>1. /\ Drop(a) \in Seq(Files) /\ Distinct(Drop(a)) /\ Entry(a) \in Files
          /\ Total(disk) = Total(Drop(a)) + Entry(a).size /\ Total(Drop(a)) \in Nat
      BY <1>0, <2>1, DropList
    <3>2. Entry(a).size \in Nat
      BY <3>1 DEF Files
    <3>3. disk_used' = disk_used - Entry(a).size
      BY <1>1, <2>1
    <3>4. disk_used' \in Nat /\ Total(Drop(a)) <= disk_used' /\ disk_used' - Total(Drop(a)) <= DiskSize
          /\ disk_used' <= disk_used
      BY <1>0, <3>1, <3>2, <3>3
    <3> QED BY <1>1, <3>1, <3>4 DEF Counted
  <2>2. CASE a \notin OnDisk
    <3>1. disk' = disk /\ disk_used' = disk_used
      BY <1>0, <1>1, <2>2 DEF Drop
    <3> QED BY <1>0, <3>1
  <2> QED BY <2>1, <2>2
<1>4. Range(disk') \subseteq Range(disk)
  BY <1>0, <1>1, DropKeeps, FromSet
<1> QED BY <1>1, <1>2, <1>3, <1>4, SameTop, QuietRoom


\* There is one version of an immutable block.
LEMMA HeldTop ==
  ASSUME Held, Room, NEW a \in Addresses, NEW m \in Nat, Holds(a, m), a \in Immutable => m <= 1
  PROVE  \A b \in Immutable : top'[b] <= 1
<1>1. top \in [Addresses -> Nat] /\ Immutable \subseteq Addresses
  BY DEF Held, BackendOK, Addresses
<1>2. \A b \in Addresses : top'[b] = IF b = a THEN (IF m > top[a] THEN m ELSE top[a]) ELSE top[b]
  BY <1>1 DEF Holds
<1>3. \A b \in Immutable : top[b] <= 1
  BY DEF Room
<1> QED BY <1>1, <1>2, <1>3

\* A fetch or a store is answered.
LEMMA AnswerRoom ==
  ASSUME Held, Room, NEW t \in Threads, AnswerFetch(t) \/ AnswerStore(t) \/ AnswerRemove(t)
  PROVE  Room'
<1>0. thread[t] \in Calls /\ top \in [Addresses -> Nat] /\ thread[t].address \in Addresses
  BY DEF Held, ThreadsOK, BackendOK, Calls
<1>1. UNCHANGED disks /\ stored' = stored /\ crashes' = crashes
  BY DEF AnswerFetch, AnswerStore, AnswerRemove, counters, Fails
<1>2. PICK x : Answer(t, x)
  BY DEF AnswerFetch, AnswerStore, AnswerRemove
<1>3. \A a \in Immutable : Busy(a)' => Busy(a)
  <2> DEFINE y == [thread[t] EXCEPT !.answer = x]
  <2>1. y.op = thread[t].op /\ y.address = thread[t].address /\ Does(t, y)
    BY <1>0, <1>2 DEF Answer, Calls
  <2> HIDE DEF y
  <2>2. \A a : Busy(a)' => Busy(a) \/ (y.op \in {"fetch", "batch", "store"} /\ y.address = a)
    BY <2>1, DoesBusy DEF Held
  <2> QED BY <2>1, <2>2 DEF Busy
<1>4. \/ UNCHANGED blocks
      \/ \E m \in Nat : Holds(thread[t].address, m) /\ (thread[t].address \in Immutable => m <= 1)
  <2>1. CASE AnswerFetch(t)
    BY <2>1 DEF AnswerFetch
  <2>2. CASE AnswerRemove(t)
    BY <2>2 DEF AnswerRemove
  <2>3. CASE AnswerStore(t)
    <3>1. \A m \in Outcomes(thread[t].address, thread[t].version) :
             m \in Nat /\ (thread[t].address \in Immutable => m <= 1)
      BY <1>0 DEF Outcomes, Held, BackendOK
    <3> QED BY <2>3, <3>1 DEF AnswerStore
  <2> QED BY <2>1, <2>2, <2>3
<1>5. \A a \in Immutable : top'[a] <= 1
  <2>1. CASE UNCHANGED blocks
    BY <2>1, SameTop
  <2>2. ASSUME NEW m \in Nat, Holds(thread[t].address, m),
               thread[t].address \in Immutable => m <= 1
        PROVE  \A a \in Immutable : top'[a] <= 1
    BY <1>0, <2>2, HeldTop
  <2> QED BY <1>4, <2>1, <2>2
<1> QED BY <1>1, <1>3, <1>5, SameDisk

LEMMA ForeignRoom ==
  ASSUME Held, Room, NEW a \in Addresses, Foreign(a)
  PROVE  Room'
<1>1. UNCHANGED disks /\ stored \subseteq stored' /\ crashes' = crashes /\ thread' = thread
  BY DEF Foreign, counters
<1>2. \A b \in Immutable : Busy(b)' => Busy(b)
  BY <1>1 DEF Busy
<1>3. \E m \in Nat : Holds(a, m) /\ (a \in Immutable => m <= 1)
  <2>1. backend[a] \in Nat
    BY DEF Held, BackendOK
  <2>2. CASE Holds(a, 0)
    BY <2>2
  <2>3. CASE a \in Mutable /\ Holds(a, backend[a] + 1)
    <3>1. backend[a] + 1 \in Nat /\ a \notin Immutable
      BY <2>1, <2>3, CacheAssumption
    <3> QED BY <2>3, <3>1
  <2>4. CASE Holds(a, 1)
    BY <2>4
  <2> QED BY <2>2, <2>3, <2>4 DEF Foreign
<1>4. \A b \in Immutable : top'[b] <= 1
  BY <1>3, HeldTop
<1> QED BY <1>1, <1>2, <1>4, SameDisk

\* A push by the thread whose fetch or store succeeded.
LEMMA InsertionRoom ==
  ASSUME Held, Room, NEW t \in Threads, thread[t].op \in {"fetch", "batch"}, Insertion(t),
         UNCHANGED blocks, stored' = stored, crashes' = crashes,
         \A b \in Immutable : Busy(b)' => Busy(b)
  PROVE  Room'
<1>1. CASE UNCHANGED disks
  BY <1>1, SameTop, SameDisk
<1>2. CASE ~UNCHANGED disks
  <2>1. thread[t].address \in Immutable /\ DiskPush(thread[t].address)
    BY <1>2 DEF Insertion, InsertCache, disks
  <2>2. Busy(thread[t].address)
    BY DEF Busy
  <2>3. top' = top /\ DiskOK
    BY DEF blocks, Held
  <2> QED BY <2>1, <2>2, <2>3, PushRoom
<1> QED BY <1>1, <1>2

LEMMA ReturnRoom ==
  ASSUME Held, Room, NEW t \in Threads,
         FetchReturn(t) \/ FetchManyReturn(t) \/ StoreReturn(t) \/ RemoveReturn(t)
  PROVE  Room'
<1>0. ThreadsOK /\ DiskOK /\ Idle.op = "idle"
  BY DEF Held, Idle
<1>1. CASE FetchReturn(t)
  <2>1. /\ thread[t].op \in {"fetch", "batch"} /\ Insertion(t) /\ Open(t)
        /\ UNCHANGED blocks /\ stored' = stored /\ crashes' = crashes
    BY <1>1 DEF FetchReturn, Answered, counters
  <2>2. \A b \in Immutable : Busy(b)' => Busy(b)
    BY <1>0, <2>1, OpenBusy
  <2> QED BY <2>1, <2>2, InsertionRoom
<1>2. CASE FetchManyReturn(t)
  <2>1. /\ thread[t].op \in {"fetch", "batch"} /\ Insertion(t) /\ Does(t, Idle)
        /\ UNCHANGED blocks /\ stored' = stored /\ crashes' = crashes
    BY <1>2 DEF FetchManyReturn, Answered, counters
  <2>2. \A b \in Immutable : Busy(b)' => Busy(b)
    BY <1>0, <2>1, DoesBusy
  <2> QED BY <2>1, <2>2, InsertionRoom
<1>3. CASE RemoveReturn(t)
  <2>1. /\ Does(t, Idle) /\ UNCHANGED disks /\ UNCHANGED blocks /\ crashes' = crashes
        /\ stored' = stored
    BY <1>3 DEF RemoveReturn, counters
  <2> QED BY <2>1, IdleRoom
<1>4. CASE StoreReturn(t)
  <2>1. /\ thread[t].op = "store" /\ Does(t, Idle) /\ UNCHANGED blocks /\ crashes' = crashes
    BY <1>4 DEF StoreReturn, Answered, counters
  <2>2. CASE UNCHANGED disks /\ stored' = stored
    BY <2>1, <2>2, IdleRoom
  <2>3. CASE ~(UNCHANGED disks /\ stored' = stored)
    <3>1. /\ thread[t].address \in Immutable /\ DiskPush(thread[t].address)
          /\ stored \subseteq stored'
      BY <1>4, <2>3 DEF StoreReturn, disks
    <3>2. Busy(thread[t].address)
      BY <2>1 DEF Busy
    <3>3. \A b \in Immutable : Busy(b)' => Busy(b)
      BY <1>0, <2>1, DoesBusy
    <3>4. top' = top
      BY <2>1 DEF blocks
    <3> QED BY <1>0, <2>1, <3>1, <3>2, <3>3, <3>4, PushRoom
  <2> QED BY <2>2, <2>3
<1> QED BY <1>1, <1>2, <1>3, <1>4


\* The files a restart finds, in some order.
LEMMA FoundRoom ==
  ASSUME Held, Room, Restart, NEW S, IsFiniteSet(S),
         \A e \in S : e \in Files /\ top[e.address] # 0,
         \A e, f \in S : e.address = f.address => e = f,
         disk' \in Orders(S)
  PROVE  Room'
<1>0. /\ top' = top /\ aborted' = aborted /\ crashes' = crashes + 1 /\ disk_used' = Total(disk')
      /\ thread' = [t \in Threads |-> Idle] /\ aborted = FALSE /\ crashes \in Nat
      /\ DiskSize \in Nat
  BY CacheAssumption DEF Restart, blocks, Room
<1>1. disk' \in Seq(S) /\ \A k \in DOMAIN disk' : disk'[k] \in S
  BY OrderedFiles
<1>2. disk' \in Seq(Files)
  BY <1>1
<1>3. Distinct(disk')
  <2>1. DOMAIN disk' = 1..Cardinality(S)
    BY DEF Orders, Injection, IsInjective
  <2>2. \A i, j \in DOMAIN disk' : i # j => disk'[i] # disk'[j]
    BY <2>1 DEF Orders, Injection, IsInjective
  <2> QED BY <1>1, <2>2 DEF Distinct
<1>4. Total(disk') \in Nat
  BY <1>2, TotalUpTo
<1>5. Counted(disk', disk_used')
  BY <1>0, <1>2, <1>3, <1>4 DEF Counted
<1>6. ASSUME NEW e \in Files, e \in Range(disk')
      PROVE  e.address \in stored' /\ ~Busy(e.address)'
  <2>1. e \in S
    BY <1>1, <1>6 DEF Range
  <2>2. top[e.address] = 1 /\ e.address \in Immutable
    <3>1. e.address \in Immutable
      BY DEF Files
    <3>2. top[e.address] \in Nat
      BY <3>1 DEF Held, BackendOK, Addresses
    <3> QED BY <2>1, <3>1, <3>2 DEF Room
  <2>3. e.address \in stored'
    BY <2>2 DEF Restart
  <2>4. Idle.op = "idle"
    BY DEF Idle
  <2> QED BY <1>0, <2>3, <2>4 DEF Busy
<1>7. crashes' \in Nat /\ crashes' # 0
  BY <1>0
<1>8. \A b \in Immutable : top'[b] <= 1
  BY <1>0 DEF Room
<1> QED BY <1>0, <1>5, <1>6, <1>7, <1>8 DEF Room

LEMMA RestartRoom ==
  ASSUME Held, Room, Restart
  PROVE  Room'
<1>1. /\ disk \in Seq(Files) /\ Distinct(disk)
      /\ \A k \in DOMAIN disk : disk[k] \in Files /\ top[disk[k].address] # 0
  BY DEF Held, DiskOK, Room, Counted
<1>2. CASE disk' \in Orders(Range(disk))
  <2>1. IsFiniteSet(Range(disk)) /\ \A e \in Range(disk) : e \in Files /\ top[e.address] # 0
    BY <1>1, FilesFinite DEF Range
  <2>2. \A e, f \in Range(disk) : e.address = f.address => e = f
    BY <1>1 DEF Distinct, Range
  <2> QED BY <1>2, <2>1, <2>2, FoundRoom
<1>3. ASSUME NEW a \in Writing, NEW n \in 0..FileSize[a],
             disk' \in Orders(Range(Drop(a)) \cup {[address |-> a, size |-> n]})
      PROVE  Room'
  <2> DEFINE e == [address |-> a, size |-> n]
  <2>1. PICK t \in Threads :
               /\ thread[t].address = a /\ a \in Immutable
               /\ thread[t].answer # Unanswered /\ thread[t].answer \notin {0, Failed}
    BY <1>3 DEF Writing, Answered
  <2>2. /\ thread[t].answer \in Nat /\ thread[t].answer # 0
        /\ thread[t].answer <= top[a] /\ top[a] \in Nat
    BY <2>1 DEF Held, ThreadsOK, Calls, BackendOK, Addresses
  <2>3. e \in Files /\ top[e.address] # 0 /\ e.address = a
    <3>1. FileSize[a] \in Nat
      BY <2>1, CacheAssumption
    <3>2. n \in Nat /\ top[a] # 0
      BY <2>2, <3>1
    <3> QED BY <2>1, <3>2 DEF Files
  <2>4. From(Drop(a), disk)
    BY <1>1, DropKeeps
  <2>5. Drop(a) \in Seq(Files) /\ \A f \in Range(Drop(a)) : f \in Files /\ top[f.address] # 0
    BY <1>1, <2>4 DEF Range, From
  <2>6. Distinct(Drop(a)) /\ a \notin Listing(Drop(a))
    <3>1. CASE a \in OnDisk
      BY <1>1, <3>1, DropList
    <3>2. CASE a \notin OnDisk
      BY <1>1, <3>2 DEF Drop, Listing, OnDisk
    <3> QED BY <3>1, <3>2
  <2> HIDE DEF e
  <2> DEFINE S == Range(Drop(a)) \cup {e}
  <2>7. IsFiniteSet(S)
    BY <2>5, FilesFinite, FS_AddElement
  <2>8. \A f \in S : f \in Files /\ top[f.address] # 0
    BY <2>3, <2>5
  <2>9. \A f, g \in S : f.address = g.address => f = g
    <3>1. \A f \in Range(Drop(a)) : f.address # e.address
      BY <2>3, <2>6 DEF Range, Listing
    <3>2. \A f, g \in Range(Drop(a)) : f.address = g.address => f = g
      BY <2>6 DEF Range, Distinct
    <3> QED BY <3>1, <3>2
  <2>10. disk' \in Orders(S)
    BY <1>3 DEF e
  <2> HIDE DEF S
  <2> QED BY <2>7, <2>8, <2>9, <2>10, FoundRoom
<1> QED BY <1>2, <1>3 DEF Restart

LEMMA RoomStep ==
  ASSUME Held, Room, Next
  PROVE  Room'
<1>1. ASSUME NEW t \in Threads, NEW a \in Addresses, NEW n,
             Fetch(t, a) \/ FetchMany(t, a) \/ Store(t, a, n)
      PROVE  Room'
  BY <1>1, CallRoom
<1>2. ASSUME NEW t \in Threads, NEW a \in Addresses, RemoveBlock(t, a)
      PROVE  Room'
  BY <1>2, RemoveRoom
<1>3. ASSUME NEW t \in Threads,
             \/ FetchReturn(t) \/ FetchManyReturn(t) \/ StoreReturn(t) \/ RemoveReturn(t)
             \/ FetchAgain(t) \/ AnswerFetch(t) \/ AnswerStore(t) \/ AnswerRemove(t)
      PROVE  Room'
  BY <1>3, ReturnRoom, FetchAgainRoom, AnswerRoom
<1>4. ASSUME UNCHANGED disks, UNCHANGED blocks, thread' = thread, stored' = stored,
             crashes' = crashes
      PROVE  Room'
  <2>1. \A b \in Immutable : Busy(b)' => Busy(b)
    BY <1>4 DEF Busy
  <2> QED BY <1>4, <2>1, SameTop, SameDisk
<1>5. ASSUME NEW a \in Addresses, Expire(a) \/ AnswerRefresh(a) \/ RefreshReturn(a)
      PROVE  Room'
  <2>1. /\ UNCHANGED disks /\ UNCHANGED blocks /\ thread' = thread /\ stored' = stored
        /\ crashes' = crashes
    BY <1>5 DEF Expire, AnswerRefresh, RefreshReturn, counters, Fails
  <2> QED BY <1>4, <2>1
<1>6. ASSUME NEW S, Cleanup(S) \/ Clear
      PROVE  Room'
  <2>1. /\ UNCHANGED disks /\ UNCHANGED blocks /\ thread' = thread /\ stored' = stored
        /\ crashes' = crashes
    BY <1>6 DEF Cleanup, Clear, counters
  <2> QED BY <1>4, <2>1
<1>7. ASSUME NEW a \in Addresses, FetchDisk(a) \/ Foreign(a)
      PROVE  Room'
  BY <1>7, FetchDiskRoom, ForeignRoom
<1> QED BY <1>1, <1>2, <1>3, <1>5, <1>6, <1>7, RestartRoom DEF Next

\* DiskFits holds whatever the sizes of the files and of the disk cache,
\* however often a block is pushed by threads that fetched or stored it at the
\* same time, and whatever a crash leaves: pruning always has a file to remove.
THEOREM CacheDiskFits == Spec => []DiskFits
<1>1. Init => Room
  <2> SUFFICES ASSUME Init PROVE Room
    OBVIOUS
  <2>1. disk = << >> /\ disk_used = 0 /\ aborted = FALSE /\ crashes = 0 /\ DiskSize \in Nat
    BY CacheAssumption DEF Init
  <2>2. Counted(disk, disk_used)
    <3>1. << >> \in Seq(Files) /\ Distinct(<< >>)
      BY DEF Distinct
    <3> QED BY <2>1, <3>1, TotalEmpty DEF Counted
  <2>3. Range(disk) = {}
    BY <2>1 DEF Range
  <2>4. \A a \in Immutable : top[a] <= 1
    BY DEF Init, Addresses
  <2> QED BY <2>1, <2>2, <2>3, <2>4 DEF Room
<1>2. Held /\ Room /\ [Next]_vars => Room'
  <2>1. ASSUME Room, UNCHANGED vars PROVE Room'
    BY <2>1 DEF vars, Room, Busy, Uneasy
  <2> QED BY <2>1, RoomStep
<1>3. Room => DiskFits
  <2> SUFFICES ASSUME Room PROVE DiskFits
    OBVIOUS
  <2>1. disk \in Seq(Files) /\ Distinct(disk)
    BY DEF Room, Counted
  <2>2. OnDisk = Listing(disk)
    BY DEF OnDisk, Listing
  <2>3. Cardinality(OnDisk) = Len(disk)
    BY <2>1, <2>2, DistinctCount
  <2> QED BY <2>3 DEF DiskFits, Room, Counted
<1> QED BY <1>1, <1>2, <1>3, CacheInvariant, PTL DEF Spec

=============================================================================
