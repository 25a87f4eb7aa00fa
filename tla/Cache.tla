------------------------------- MODULE Cache -------------------------------
(***************************************************************************)
(* The cache on top of a node's consensus stack (doughnut/Cache.cc): the   *)
(* mutable blocks it keeps in memory and refreshes from its backend, the   *)
(* immutable ones it keeps on disk, the fetches in progress that others    *)
(* wait for, and the cleanup thread.                                       *)
(*                                                                         *)
(* The backend, shared with the other nodes, holds the latest version of   *)
(* every block, 0 when it has none.  A call to it takes effect at some     *)
(* point between the moment it is made and the moment its answer is        *)
(* handled: the cache's threads interleave at both.  Where Async is the    *)
(* backend, it holds a block once it has queued it, as it then answers     *)
(* fetches with it.                                                        *)
(***************************************************************************)
EXTENDS Integers, Sequences, FiniteSets, Functions

CONSTANTS
  Mutable,        \* addresses of the mutable blocks
  Immutable,      \* addresses of the immutable blocks
  Threads,        \* the threads that call the cache
  FileSize,       \* the size of each immutable block on disk
  DiskSize,       \* _disk_cache_size
  MaxVersion,     \* bound on the versions of a block
  MaxCalls,       \* bound on the calls the threads make
  MaxFaults,      \* bound on the calls to the backend that fail and on the
                  \* restarts of the process, together
  Unanswered,     \* a call the backend has not answered
  Failed,         \* a call the backend ended with an exception
  Same,           \* a fetch answered that the version asked about is the latest
  Unheard         \* a fetch of several blocks had no peer to ask for this one

Addresses == Mutable \cup Immutable

ASSUME CacheAssumption ==
  /\ Mutable \cap Immutable = {} /\ Addresses # {}
  /\ IsFiniteSet(Addresses) /\ IsFiniteSet(Threads)
  /\ FileSize \in [Immutable -> Nat \ {0}]
  /\ {DiskSize, MaxVersion, MaxCalls, MaxFaults} \subseteq Nat
  /\ {Unanswered, Failed, Same, Unheard} \cap Nat = {}
  /\ Unanswered \notin {Failed, Same, Unheard}
  /\ Failed \notin {Same, Unheard} /\ Same # Unheard

VARIABLES
  backend,     \* the version of every block the backend holds
  top,         \* history: the latest version of every block it ever held
  cache,       \* _cache: the mutable blocks in memory, and whether they were
               \* fetched since the invalidation deadline
  disk,        \* _disk_cache: immutable blocks and the sizes of their files, the
               \* least recently used first
  disk_used,   \* _disk_cache_used
  aborted,     \* an assertion failed
  stored,      \* the immutable blocks whose caller knows they are stored
  thread,      \* what every thread is doing
  refresh,     \* the blocks the cleanup thread is refreshing
  calls, failures, crashes

vars == <<backend, top, cache, disk, disk_used, aborted, stored, thread,
          refresh, calls, failures, crashes>>
blocks == <<backend, top>>
disks == <<disk, disk_used, aborted>>
counters == <<failures, crashes>>

Versions == 1..MaxVersion
NoBlocks == [a \in {} |-> 0]
Idle == [op |-> "idle", address |-> CHOOSE a \in Addresses : TRUE,
         version |-> 0, answer |-> Unanswered]
Doing(op, a, n) == [op |-> op, address |-> a, version |-> n, answer |-> Unanswered]

Cached(n) == [version |-> n, fresh |-> TRUE]
With(f, a, x) == [b \in DOMAIN f \cup {a} |-> IF b = a THEN x ELSE f[b]]
Without(f, S) == [b \in DOMAIN f \ S |-> f[b]]

Init ==
  /\ backend = [a \in Addresses |-> IF a \in Mutable THEN 1 ELSE 0]
  /\ top = backend
  /\ cache = NoBlocks /\ disk = <<>> /\ disk_used = 0
  /\ aborted = FALSE /\ stored = {}
  /\ thread = [t \in Threads |-> Idle]
  /\ refresh = NoBlocks
  /\ calls = 0 /\ failures = 0 /\ crashes = 0

-----------------------------------------------------------------------------
(* The disk cache                                                          *)

OnDisk == {disk[k].address : k \in DOMAIN disk}
Place(a) == CHOOSE k \in DOMAIN disk : disk[k].address = a
Entry(a) == disk[Place(a)]
Drop(a) ==
  IF a \in OnDisk THEN SubSeq(disk, 1, Place(a) - 1) \o SubSeq(disk, Place(a) + 1, Len(disk))
  ELSE disk
File(a) == [address |-> a, size |-> FileSize[a]]
Total(s) ==
  LET upTo[n \in 0..Len(s)] == IF n = 0 THEN 0 ELSE upTo[n - 1] + s[n].size
  IN  upTo[Len(s)]

\* The files are pruned, the least recently used first, until they fit; when
\* all are gone and they do not, the assertion fails.
Prune(s, used) ==
  LET Left(k) == used - Total(SubSeq(s, 1, k))
  IN  \E gone \in 0..Len(s) :
        /\ \A k \in 0..(gone - 1) : Left(k) > DiskSize
        /\ gone = Len(s) \/ Left(gone) <= DiskSize
        /\ disk' = SubSeq(s, gone + 1, Len(s))
        /\ disk_used' = Left(gone)
        /\ aborted' = (aborted \/ Left(gone) > DiskSize)

Listed(a) == IF a \in OnDisk THEN disk ELSE Append(disk, File(a))

\* Fault: only the blocks already in the disk cache are counted.
DiskPushUncounted(a) ==
  Prune(Listed(a), disk_used + (IF a \in OnDisk THEN FileSize[a] ELSE 0))

\* _disk_cache_push writes the file and counts its size, even if the block was
\* there: the container then keeps the entry it has.
DiskPush(a) == Prune(Listed(a), disk_used + FileSize[a])

\* _insert_cache: a mutable block already in memory is not replaced.
InsertCache(a, n) ==
  IF a \in Immutable
  THEN DiskPush(a) /\ UNCHANGED cache
  ELSE /\ cache' = IF a \in DOMAIN cache THEN cache ELSE With(cache, a, Cached(n))
       /\ UNCHANGED disks

-----------------------------------------------------------------------------
(* The calls of the threads                                                *)

Does(t, x) == thread' = [thread EXCEPT ![t] = x]

Call(t) ==
  /\ thread[t].op = "idle" /\ calls < MaxCalls
  /\ calls' = calls + 1

\* The threads that fetch a block the others wait for: _pending.
Pending(a) == {t \in Threads : thread[t].op = "fetch" /\ thread[t].address = a}

Miss(a) == a \notin DOMAIN cache /\ a \notin OnDisk

\* _fetch_cache, when the block is not in the cache.
FetchMiss(t, a) ==
  Does(t, Doing(IF Pending(a) = {} THEN "fetch" ELSE "wait", a, 0))

Fetch(t, a) ==
  /\ Call(t) /\ Miss(a)
  /\ FetchMiss(t, a)
  /\ UNCHANGED <<blocks, cache, disks, stored, refresh, counters>>

\* A block of the disk cache becomes the most recently used; if its file is
\* not whole, reading it throws first.
Touched(a) ==
  IF a \in OnDisk /\ Entry(a).size = FileSize[a]
  THEN Append(Drop(a), Entry(a))
  ELSE disk

\* A fetch of a block in memory only updates the time of its last use.
FetchDisk(a) ==
  /\ a \in OnDisk
  /\ disk' = Touched(a)
  /\ UNCHANGED <<blocks, cache, disk_used, aborted, stored, thread, refresh, calls,
                 counters>>

\* The fetch of several blocks asks the backend for the ones that are not
\* cached, whether or not they are being fetched.  It treats each on its own.
FetchMany(t, a) ==
  /\ Call(t) /\ Miss(a)
  /\ Does(t, Doing("batch", a, 0))
  /\ UNCHANGED <<blocks, cache, disks, stored, refresh, counters>>

\* A thread whose barrier was opened fetches again.
FetchAgain(t) ==
  LET a == thread[t].address
  IN  /\ thread[t].op = "again"
      /\ IF Miss(a) THEN FetchMiss(t, a) ELSE Does(t, Idle)
      /\ disk' = Touched(a)
      /\ UNCHANGED <<blocks, cache, disk_used, aborted, stored, refresh, calls, counters>>

\* _store, of the block that follows a version the caller knows, or of an
\* immutable block, which is made for one caller and which it stores until it
\* succeeds.
Store(t, a, n) ==
  /\ Call(t)
  /\ \/ a \in Mutable /\ n \in 2..(top[a] + 1) /\ n <= MaxVersion
     \/ /\ a \in Immutable \ stored /\ n = 1
        /\ \A u \in Threads : thread[u].op = "store" => thread[u].address # a
  /\ Does(t, Doing("store", a, n))
  /\ UNCHANGED <<blocks, cache, disks, stored, refresh, counters>>

\* Fault: the size of a block is given back even if it is not on disk.
RemoveBlockAnyway(t, a) ==
  /\ Call(t)
  /\ cache' = Without(cache, {a})
  /\ disk' = Drop(a)
  /\ disk_used' = disk_used - (IF a \in Immutable THEN FileSize[a] ELSE 0)
  /\ Does(t, Doing("remove", a, 0))
  /\ UNCHANGED <<blocks, aborted, stored, refresh, counters>>

\* _remove drops the block from the cache first.
RemoveBlock(t, a) ==
  /\ Call(t)
  /\ cache' = Without(cache, {a})
  /\ disk' = Drop(a)
  /\ disk_used' = disk_used - (IF a \in OnDisk THEN Entry(a).size ELSE 0)
  /\ Does(t, Doing("remove", a, 0))
  /\ UNCHANGED <<blocks, aborted, stored, refresh, counters>>

-----------------------------------------------------------------------------
(* The backend.  Its calls take effect, fail, or both.                     *)

Holds(a, n) ==
  /\ backend' = [backend EXCEPT ![a] = n]
  /\ top' = [top EXCEPT ![a] = IF n > @ THEN n ELSE @]

Answer(t, x) == Does(t, [thread[t] EXCEPT !.answer = x])

Fails ==
  /\ failures + crashes < MaxFaults /\ failures' = failures + 1
  /\ UNCHANGED crashes

Asked(t, ops) == thread[t].op \in ops /\ thread[t].answer = Unanswered

AnswerFetch(t) ==
  /\ Asked(t, {"fetch", "batch"})
  /\ \/ Answer(t, backend[thread[t].address]) /\ UNCHANGED counters
     \/ Answer(t, Failed) /\ Fails
  /\ UNCHANGED <<blocks, cache, disks, stored, refresh, calls>>

\* The versions a store may leave: its own if it follows the one the backend
\* holds, or the one a conflict resolver makes follow it.
Outcomes(a, n) ==
  IF a \in Immutable THEN {1}
  ELSE IF backend[a] \in {0, MaxVersion} THEN {}
  ELSE {backend[a] + 1}

\* A store that conflicts ends with an exception if its caller gave no
\* resolver, and so does that of a block that was removed.
AnswerStore(t) ==
  LET a == thread[t].address
      n == thread[t].version
  IN  /\ Asked(t, {"store"})
      /\ \/ \E m \in Outcomes(a, n) :
              \/ Answer(t, m) /\ Holds(a, m) /\ UNCHANGED counters
              \/ Answer(t, Failed) /\ Holds(a, m) /\ Fails
         \/ /\ n \notin Outcomes(a, n)
            /\ Answer(t, Failed) /\ UNCHANGED <<blocks, counters>>
         \/ Answer(t, Failed) /\ Fails /\ UNCHANGED blocks
      /\ UNCHANGED <<cache, disks, stored, refresh, calls>>

AnswerRemove(t) ==
  /\ Asked(t, {"remove"})
  /\ \/ Answer(t, 0) /\ Holds(thread[t].address, 0) /\ UNCHANGED counters
     \/ Answer(t, Failed) /\ Holds(thread[t].address, 0) /\ Fails
     \/ Answer(t, Failed) /\ Fails /\ UNCHANGED blocks
  /\ UNCHANGED <<cache, disks, stored, refresh, calls>>

\* Another node removes a block, updates a mutable one or stores an immutable
\* one of its own.
Foreign(a) ==
  /\ \/ backend[a] # 0 /\ Holds(a, 0) /\ UNCHANGED stored
     \/ /\ a \in Mutable /\ backend[a] \in 1..(MaxVersion - 1)
        /\ Holds(a, backend[a] + 1) /\ UNCHANGED stored
     \/ /\ a \in Immutable \ stored /\ top[a] = 0
        /\ \A t \in Threads : thread[t].op = "store" => thread[t].address # a
        /\ Holds(a, 1) /\ stored' = stored \cup {a}
  /\ UNCHANGED <<cache, disks, thread, refresh, calls, counters>>

-----------------------------------------------------------------------------
(* The answers, handled                                                    *)

Answered(t, ops) == thread[t].op \in ops /\ thread[t].answer # Unanswered

\* Fault: the barrier is opened only if the fetch succeeded.
OpenOnSuccess(t) ==
  thread' = [u \in Threads |->
    IF u = t THEN Idle
    ELSE IF /\ thread[t].answer \notin {0, Failed} /\ thread[u].op = "wait"
            /\ thread[u].address = thread[t].address
         THEN [thread[u] EXCEPT !.op = "again"] ELSE thread[u]]

\* However the fetch ends, the barrier of the threads that wait for it opens.
Open(t) ==
  thread' = [u \in Threads |->
    IF u = t THEN Idle
    ELSE IF thread[u].op = "wait" /\ thread[u].address = thread[t].address
         THEN [thread[u] EXCEPT !.op = "again"] ELSE thread[u]]

Insertion(t) ==
  IF thread[t].answer \in {0, Failed}
  THEN UNCHANGED <<cache, disks>>
  ELSE InsertCache(thread[t].address, thread[t].answer)

FetchReturn(t) ==
  /\ Answered(t, {"fetch"})
  /\ Insertion(t) /\ Open(t)
  /\ UNCHANGED <<blocks, stored, refresh, calls, counters>>

FetchManyReturn(t) ==
  /\ Answered(t, {"batch"})
  /\ Insertion(t) /\ Does(t, Idle)
  /\ UNCHANGED <<blocks, stored, refresh, calls, counters>>

\* Fault: a block is inserted although the backend did not store it.
StoreReturnRegardless(t) ==
  LET a == thread[t].address
      n == IF thread[t].answer = Failed THEN thread[t].version ELSE thread[t].answer
  IN  /\ Answered(t, {"store"})
      /\ IF a \in Immutable
         THEN DiskPush(a) /\ stored' = stored \cup {a} /\ UNCHANGED cache
         ELSE cache' = With(cache, a, Cached(n)) /\ UNCHANGED <<disks, stored>>
      /\ Does(t, Idle)
      /\ UNCHANGED <<blocks, refresh, calls, counters>>

\* The block stored, or the one the resolver made, replaces the one in memory.
StoreReturn(t) ==
  LET a == thread[t].address
  IN  /\ Answered(t, {"store"})
      /\ IF thread[t].answer = Failed
         THEN UNCHANGED <<cache, disks, stored>>
         ELSE IF a \in Immutable
         THEN DiskPush(a) /\ stored' = stored \cup {a} /\ UNCHANGED cache
         ELSE /\ cache' = With(cache, a, Cached(thread[t].answer))
              /\ UNCHANGED <<disks, stored>>
      /\ Does(t, Idle)
      /\ UNCHANGED <<blocks, refresh, calls, counters>>

RemoveReturn(t) ==
  /\ Answered(t, {"remove"})
  /\ Does(t, Idle)
  /\ UNCHANGED <<blocks, cache, disks, stored, refresh, calls, counters>>

-----------------------------------------------------------------------------
(* The cleanup thread                                                      *)

\* The invalidation delay passes for a block.
Expire(a) ==
  /\ a \in DOMAIN cache /\ cache[a].fresh
  /\ cache' = [cache EXCEPT ![a].fresh = FALSE]
  /\ UNCHANGED <<blocks, disks, stored, thread, refresh, calls, counters>>

\* A round of _cleanup evicts the blocks that were not used for long and asks
\* for those not fetched for long, with the versions it has.
Cleanup(evicted) ==
  /\ refresh = NoBlocks
  /\ cache' = Without(cache, evicted)
  /\ refresh' = [a \in {b \in DOMAIN cache' : ~cache'[b].fresh} |->
                   [version |-> cache[a].version, answer |-> Unanswered]]
  /\ UNCHANGED <<blocks, disks, stored, thread, calls, counters>>

\* Consensus answers a fetch of several blocks with an exception for a block
\* its peers do not have, and does not call back for one without peers.
AnswerRefresh(a) ==
  /\ a \in DOMAIN refresh /\ refresh[a].answer = Unanswered
  /\ \E x \in {Failed, Unheard, Same, backend[a]} :
       /\ refresh' = [refresh EXCEPT ![a].answer = x]
       /\ \/ /\ x = Same => refresh[a].version = backend[a]
             /\ x = backend[a] => refresh[a].version # backend[a]
             /\ (x \in {Failed, Unheard}) = (backend[a] = 0)
             /\ UNCHANGED counters
          \/ x \in {Failed, Unheard} /\ backend[a] # 0 /\ Fails
  /\ UNCHANGED <<blocks, cache, disks, stored, thread, calls>>

Replaced(a, n) == With(cache, a, Cached(n))

\* Fault: a block that was fetched again is not replaced.
RefreshedKept(a, x) ==
  IF x = Unheard \/ a \notin DOMAIN cache THEN cache
  ELSE CASE x = Failed -> Without(cache, {a})
         [] OTHER      -> Replaced(a, cache[a].version)

\* The callback: a block that could not be fetched is dropped, one that has
\* changed is replaced, whatever was inserted since it was asked for.
Refreshed(a, x) ==
  IF x = Unheard \/ a \notin DOMAIN cache THEN cache
  ELSE CASE x = Failed -> Without(cache, {a})
         [] x = Same   -> Replaced(a, cache[a].version)
         [] OTHER      -> Replaced(a, x)

RefreshReturn(a) ==
  /\ a \in DOMAIN refresh /\ refresh[a].answer # Unanswered
  /\ cache' = Refreshed(a, refresh[a].answer)
  /\ refresh' = Without(refresh, {a})
  /\ UNCHANGED <<blocks, disks, stored, thread, calls, counters>>

-----------------------------------------------------------------------------
(* The process                                                             *)

\* clear only empties the memory.
Clear ==
  /\ cache # NoBlocks /\ cache' = NoBlocks
  /\ UNCHANGED <<blocks, disks, stored, thread, refresh, calls, counters>>

\* The blocks being written to the disk cache.
Writing == {thread[t].address : t \in {u \in Threads :
  /\ Answered(u, {"fetch", "batch", "store"}) /\ thread[u].answer \notin {0, Failed}
  /\ thread[u].address \in Immutable}}

\* The sequences of a set of files, each once.
Orders(files) == Injection(1..Cardinality(files), files)

\* The process is killed, maybe while it writes a file of the disk cache or
\* before it prunes, and starts again: _load_disk_cache finds the files, in no order.
Restart ==
  /\ failures + crashes < MaxFaults /\ crashes' = crashes + 1
  /\ \/ \E s \in Orders(Range(disk)) : disk' = s
     \/ \E a \in Writing : \E n \in 0..FileSize[a] :
          \E s \in Orders(Range(Drop(a)) \cup {[address |-> a, size |-> n]}) : disk' = s
  /\ disk_used' = Total(disk')
  /\ cache' = NoBlocks /\ refresh' = NoBlocks
  /\ thread' = [t \in Threads |-> Idle]
  /\ stored' = {a \in Immutable : top[a] = 1 \/ \E t \in Threads : thread[t].address = a
                                                    /\ thread[t].op = "store"}
  /\ UNCHANGED <<blocks, aborted, calls, failures>>

Next ==
  \/ \E t \in Threads :
       \/ \E a \in Addresses : Fetch(t, a) \/ FetchMany(t, a) \/ RemoveBlock(t, a)
       \/ \E a \in Addresses, n \in Versions : Store(t, a, n)
       \/ FetchAgain(t) \/ FetchReturn(t) \/ FetchManyReturn(t)
       \/ StoreReturn(t) \/ RemoveReturn(t)
       \/ AnswerFetch(t) \/ AnswerStore(t) \/ AnswerRemove(t)
  \/ \E a \in Addresses :
       FetchDisk(a) \/ Foreign(a) \/ Expire(a) \/ AnswerRefresh(a) \/ RefreshReturn(a)
  \/ \E evicted \in SUBSET DOMAIN cache : Cleanup(evicted)
  \/ Clear \/ Restart

Spec == Init /\ [][Next]_vars

\* The reactor runs the threads, the cleanup thread wakes up and time passes;
\* the backend answers.
Fairness ==
  /\ \A t \in Threads :
       WF_vars(\/ FetchAgain(t) \/ FetchReturn(t) \/ FetchManyReturn(t)
               \/ StoreReturn(t) \/ RemoveReturn(t)
               \/ AnswerFetch(t) \/ AnswerStore(t) \/ AnswerRemove(t))
  /\ \A a \in Mutable :
       WF_vars(Expire(a)) /\ WF_vars(AnswerRefresh(a) \/ RefreshReturn(a))
  /\ WF_vars(\E evicted \in SUBSET DOMAIN cache : Cleanup(evicted))

LiveSpec == Spec /\ Fairness

-----------------------------------------------------------------------------
(* Properties                                                              *)

Answers == Versions \cup {0, Unanswered, Failed}

\* The variables have the values they are meant to have.
TypeOK ==
  /\ backend \in [Addresses -> 0..MaxVersion] /\ top \in [Addresses -> 0..MaxVersion]
  /\ DOMAIN cache \subseteq Mutable
  /\ cache \in [DOMAIN cache -> [version : Versions, fresh : BOOLEAN]]
  /\ disk \in Seq([address : Immutable, size : Nat]) /\ disk_used \in Nat
  /\ aborted \in BOOLEAN /\ stored \subseteq Immutable
  /\ thread \in [Threads ->
       [op : {"idle", "fetch", "batch", "wait", "again", "store", "remove"},
        address : Addresses, version : 0..MaxVersion, answer : Answers]]
  /\ DOMAIN refresh \subseteq Mutable
  /\ refresh \in [DOMAIN refresh ->
       [version : Versions, answer : Answers \cup {Same, Unheard}]]
  /\ calls \in 0..MaxCalls /\ failures \in 0..MaxFaults /\ crashes \in 0..MaxFaults

\* Whatever the order in which the backend's answers are handled, a block in
\* the cache, in memory or on disk, is one the backend held: no store that
\* failed, or that was still to be made, leaves its block there.
Genuine ==
  /\ \A a \in DOMAIN cache : cache[a].version <= top[a]
  /\ \A a \in OnDisk : top[a] # 0

\* The disk cache: the size _disk_cache_push and _remove keep covers the files,
\* however often a block is pushed; it is within the bound, but for a file
\* written before a crash and not pruned; and the assertion that there is
\* something to prune holds.
DiskFits ==
  /\ ~aborted
  /\ Cardinality(OnDisk) = Len(disk)
  /\ Total(disk) <= disk_used
  /\ crashes = 0 => disk_used <= DiskSize

\* A thread waits for a fetch only while another thread makes it, and one at
\* most: the barrier of _pending is never left behind.
WaitsForOne ==
  /\ \A a \in Addresses : \A t, u \in Pending(a) : t = u
  /\ \A t \in Threads : thread[t].op = "wait" => Pending(thread[t].address) # {}

\* Every call ends, however the fetch it waits for ends.
CallEnds == \A t \in Threads : thread[t].op # "idle" ~> thread[t].op = "idle"

\* Once a block no longer changes, the cache has its latest version, or none:
\* a version put back by an answer that comes late does not stay.
Converges ==
  \A a \in Mutable :
    <>[](a \in DOMAIN cache /\ backend[a] # 0 => cache[a].version = backend[a])

=============================================================================
