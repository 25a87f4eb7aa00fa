------------------------------- MODULE Async -------------------------------
(***************************************************************************)
(* The asynchronous write queue (memo::model::doughnut::consensus::Async): *)
(* store and remove are written to an on-disk journal, queued, and return; *)
(* a background thread plays them on the consensus below, in order.  The   *)
(* queue is bounded: operations past its capacity keep only their address  *)
(* in memory and are reloaded from the journal.  A pushed operation may be *)
(* squashed with a pending one of the same block.  This is the journaled   *)
(* instance, the only one Doughnut's Configuration builds.                 *)
(*                                                                         *)
(* Threads are cooperative: a handler is one step up to the call that      *)
(* yields.  The pushes are numbered; a block is known by the push it comes *)
(* from, and sealed at that number as its version.                         *)
(***************************************************************************)
EXTENDS Integers, Sequences, FiniteSets

CONSTANTS
  Addresses,    \* the addresses of the blocks
  None,         \* the absence of a value (boost::none, a null pointer)
  Squashes,     \* what the resolvers' squashable() may answer
  MaxSize,      \* the queue's max_size
  MaxPushes,    \* bound on the pushes
  MaxFailures,  \* bound on the attempts on the backend that fail by chance
  MaxCrashes,   \* bound on the crashes of the process
  MaxForeign    \* bound on the writes of other clients

Answers == {"stop", "skip", "at_first_position_stop", "at_last_position_stop",
            "at_first_position_continue", "at_last_position_continue"}

ASSUME SquashAssumption == Squashes \subseteq Answers /\ Squashes # {}
ASSUME SizeAssumption == MaxSize \in Nat \ {0} /\ MaxPushes \in Nat

VARIABLES
  journal,        \* the files of _journal_dir that can be read: index -> operation
  torn,           \* those cut short after the address: index -> what can be read
  operations,     \* _operations: index -> operation
  queue,          \* _queue, the channel of the indexes to process
  next_index,     \* _next_index
  last_processed, \* _last_processed_index
  first_disk,     \* _first_disk_index
  pc,             \* where _process_loop stands
  hand,           \* the operation _process_operation holds
  sync,           \* a pending call to sync()
  backend,        \* block address -> the push stored there, 0 if missing
  foreign,        \* the blocks another client has updated since
  pushed,         \* number of pushes
  acked,          \* pushes that returned
  done,           \* pushes whose operation was processed
  latest,         \* block address -> the last push acknowledged, 0 if removed
  applied,        \* the push whose effect reached the backend last
  failures, crashes, writes

files == <<journal, torn>>
memory == <<operations, queue, next_index, last_processed, first_disk, pc, hand, sync>>
history == <<pushed, acked, done, latest, applied>>
bounds == <<failures, crashes, writes>>
vars == <<files, memory, backend, foreign, history, bounds>>

Pushes == 1..MaxPushes

(***************************************************************************)
(* An operation: its last push (`id`), the pushes it carries once squashed *)
(* (`carries`), the version its block is sealed at or None when it holds   *)
(* no block, and _version, None when left uninitialized.  `mode` is None   *)
(* for a removal.                                                          *)
(***************************************************************************)
Op == [id: Nat, carries: SUBSET Nat, address: Addresses,
       mode: {"insert", "update", None}, block: Nat \cup {None},
       version: Nat \cup {None}, resolver: BOOLEAN]
Hand == [index: Nat, op: Op]

ASSUME NoneAssumption ==
  None \notin Nat /\ None \notin {"insert", "update"} /\ None \notin Hand

\* The variables have the values they are meant to have.
TypeOK ==
  /\ DOMAIN journal \subseteq Nat /\ journal \in [DOMAIN journal -> Op]
  /\ DOMAIN torn \subseteq Nat /\ torn \in [DOMAIN torn -> Op]
  /\ DOMAIN operations \subseteq Nat /\ operations \in [DOMAIN operations -> Op]
  /\ queue \in Seq(Nat)
  /\ next_index \in Nat
  /\ last_processed \in Nat
  /\ first_disk \in Nat \cup {None}
  /\ pc \in {"init", "load", "get", "store", "aborted"}
  /\ hand \in Hand \cup {None}
  /\ sync \in [wait_id: Int, before: SUBSET Nat] \cup {None}
  /\ backend \in [Addresses -> Nat]
  /\ foreign \subseteq Addresses
  /\ pushed \in Nat /\ acked \subseteq Nat /\ done \subseteq Nat
  /\ latest \in [Addresses -> Nat]
  /\ applied \in Nat
  /\ failures \in Nat /\ crashes \in Nat /\ writes \in Nat

With(f, i, x) == [j \in DOMAIN f \cup {i} |-> IF j = i THEN x ELSE f[j]]
Without(f, i) == [j \in DOMAIN f \ {i} |-> f[j]]
IsLeast(i, S) == i \in S /\ \A j \in S : i <= j
IsGreatest(i, S) == i \in S /\ \A j \in S : i >= j

Init ==
  /\ journal = << >> /\ torn = << >>
  /\ operations = << >> /\ queue = << >>
  /\ next_index = 1 /\ last_processed = 0 /\ first_disk = None
  /\ pc = "init" /\ hand = None /\ sync = None
  /\ backend = [a \in Addresses |-> 0] /\ foreign = {}
  /\ pushed = 0 /\ acked = {} /\ done = {}
  /\ latest = [a \in Addresses |-> 0] /\ applied = 0
  /\ failures = 0 /\ crashes = 0 /\ writes = 0

(***************************************************************************)
(* _init, one journal entry per step, in the order of their indexes.  Past *)
(* the queue's capacity only the address is read, and a torn file is taken *)
(* for an operation; before, reading it fails and it is skipped.           *)
(* Everything else waits for _init_barrier.                                *)
(***************************************************************************)
AddressOnly(op) ==
  [op EXCEPT !.mode = None, !.block = None, !.version = None, !.resolver = FALSE]

File(i) == IF i \in DOMAIN journal THEN journal[i] ELSE torn[i]

\* The files still to read, those that would be skipped left out.
Unread ==
  {i \in DOMAIN journal \cup DOMAIN torn :
     /\ i \in DOMAIN torn => Len(queue) >= MaxSize
     /\ \A j \in DOMAIN operations : j < i}

Restore(i) ==
  /\ pc = "init"
  /\ IsLeast(i, Unread)
  /\ next_index' = IF i > next_index THEN i ELSE next_index
  /\ IF Len(queue) < MaxSize
     THEN /\ queue' = Append(queue, i)
          /\ operations' = With(operations, i, journal[i])
          /\ UNCHANGED first_disk
     ELSE /\ first_disk' = IF first_disk = None THEN i ELSE first_disk
          /\ operations' = With(operations, i, AddressOnly(File(i)))
          /\ UNCHANGED queue
  /\ UNCHANGED <<files, last_processed, pc, hand, sync, backend, foreign, history, bounds>>

\* Fault: the operations left on disk are never reloaded.
LoopHeadNever(q, disk) == "get"

\* The head of _process_loop's body: reload operations when the queue is half empty.
LoopHead(q, disk) == IF Len(q) <= MaxSize \div 2 /\ disk # None THEN "load" ELSE "get"

Restored ==
  /\ pc = "init"
  /\ Unread = {}
  /\ pc' = LoopHead(queue, first_disk)
  /\ UNCHANGED <<files, operations, queue, next_index, last_processed, first_disk,
                 hand, sync, backend, foreign, history, bounds>>

(***************************************************************************)
(* _load_operations, one operation per step from first_disk on.  The       *)
(* version of the operation in memory is left as it was.  One that cannot  *)
(* be read stays in memory and is never queued.                            *)
(***************************************************************************)
Reload(i) ==
  /\ pc = "load" /\ first_disk = i
  /\ i \in DOMAIN operations
  /\ Len(queue) < MaxSize
  /\ \/ /\ i \in DOMAIN journal
        /\ queue' = Append(queue, i)
        /\ operations' = [operations EXCEPT ![i].block = journal[i].block,
                                            ![i].mode = journal[i].mode,
                                            ![i].resolver = journal[i].resolver]
     \/ i \in DOMAIN torn /\ UNCHANGED <<queue, operations>>
  /\ LET later == {j \in DOMAIN operations : j > i}
     IN  \/ later = {} /\ first_disk' = None
         \/ IsLeast(first_disk', later)
  /\ UNCHANGED <<files, next_index, last_processed, pc, hand, sync, backend,
                 foreign, history, bounds>>

Reloaded ==
  /\ pc = "load"
  /\ \/ first_disk \notin DOMAIN operations /\ first_disk' = None
     \/ /\ first_disk \in DOMAIN operations
        /\ Len(queue) >= MaxSize
        /\ UNCHANGED first_disk
  /\ pc' = "get"
  /\ UNCHANGED <<files, operations, queue, next_index, last_processed, hand, sync,
                 backend, foreign, history, bounds>>

(***************************************************************************)
(* _process_loop takes an index.  An index whose operation was squashed is *)
(* dropped and the loop waits for the next one, without a reload.  The     *)
(* block and the resolver are moved to the backend.                        *)
(***************************************************************************)
Get ==
  /\ pc = "get" /\ queue # << >>
  /\ LET index == Head(queue)
     IN  \/ /\ \A i \in DOMAIN operations : i > index
            /\ UNCHANGED <<operations, pc, hand>>
         \/ /\ IsLeast(index, DOMAIN operations)
            /\ pc' = "store"
            /\ hand' = [index |-> index, op |-> operations[index]]
            /\ operations' = IF operations[index].mode = None THEN operations
                             ELSE [operations EXCEPT ![index].block = None,
                                                     ![index].resolver = FALSE]
         \/ /\ \E i \in DOMAIN operations : i < index   \* ELLE_ASSERT_EQ fails
            /\ pc' = "aborted"
            /\ UNCHANGED <<operations, hand>>
  /\ queue' = Tail(queue)
  /\ UNCHANGED <<files, next_index, last_processed, first_disk, sync, backend,
                 foreign, history, bounds>>

(***************************************************************************)
(* The consensus below, as _process_operation uses it.  Removing a missing *)
(* block, or one another client updated, succeeds.  An insertion over an   *)
(* existing block is compared with it, by choose() or after a Collision.   *)
(* An update needs the block; over itself (a replay) it succeeds, over     *)
(* another client's it needs a resolver.                                   *)
(***************************************************************************)
Backend(op) ==
  LET a == op.address
  IN  CASE op.mode = None -> "ok"
        [] op.mode = "insert" -> IF backend[a] = 0 THEN "ok" ELSE "collision"
        [] op.mode = "update" ->
             IF backend[a] = 0 \/ (a \in foreign /\ ~op.resolver) THEN "refused" ELSE "ok"

Effect(op) ==
  /\ backend' = [backend EXCEPT ![op.address] = IF op.mode = None THEN 0 ELSE op.id]
  /\ foreign' = foreign \ {op.address}
  /\ applied' = op.id

\* Fault: the journal file of a processed operation is left behind.
ProcessedKeepsFile ==
  /\ last_processed' = hand.index
  /\ operations' = Without(operations, hand.index)
  /\ done' = done \cup hand.op.carries
  /\ hand' = None
  /\ pc' = LoopHead(queue, first_disk)
  /\ UNCHANGED <<files, queue, next_index, first_disk, sync, pushed, acked, latest, bounds>>

\* Fault: _last_processed_index is not updated.
ProcessedUncounted ==
  /\ journal' = Without(journal, hand.index)
  /\ operations' = Without(operations, hand.index)
  /\ done' = done \cup hand.op.carries
  /\ hand' = None
  /\ pc' = LoopHead(queue, first_disk)
  /\ UNCHANGED <<torn, queue, next_index, last_processed, first_disk, sync, pushed, acked,
                 latest, bounds>>

\* Back in _process_loop: forget the operation, then the head of the loop's body.
Processed ==
  /\ journal' = Without(journal, hand.index)
  /\ last_processed' = hand.index
  /\ operations' = Without(operations, hand.index)
  /\ done' = done \cup hand.op.carries
  /\ hand' = None
  /\ pc' = LoopHead(queue, first_disk)
  /\ UNCHANGED <<torn, queue, next_index, first_disk, sync, pushed, acked, latest, bounds>>

StoreOk ==
  /\ pc = "store"
  /\ Backend(hand.op) = "ok"
  /\ Effect(hand.op)
  /\ Processed

\* A collision with the very block of the journal is a replay.
StoreCollision ==
  /\ pc = "store"
  /\ Backend(hand.op) = "collision"
  /\ hand.op.address \notin foreign
  /\ backend[hand.op.address] = journal[hand.index].id
  /\ Processed
  /\ UNCHANGED <<backend, foreign, applied>>

\* Fault: the operation moved to the backend is not reloaded.
RetryMoved ==
  /\ hand' = [hand EXCEPT !.op = None]
  /\ UNCHANGED <<files, operations, queue, next_index, last_processed, first_disk,
                 pc, sync, pushed, acked, done, latest>>

\* Wait, reload the operation from the journal, where its file is whole, and try
\* again.
Retry ==
  /\ hand' = [hand EXCEPT !.op = journal[hand.index]]
  /\ UNCHANGED <<files, operations, queue, next_index, last_processed, first_disk,
                 pc, sync, pushed, acked, done, latest>>

\* The network fails, before the backend has the operation or after.
StoreFails ==
  /\ pc = "store"
  /\ failures < MaxFailures
  /\ \/ UNCHANGED <<backend, foreign, applied>>
     \/ Backend(hand.op) = "ok" /\ Effect(hand.op)
  /\ Retry
  /\ failures' = failures + 1
  /\ UNCHANGED <<crashes, writes>>

\* The backend refuses the operation.
StoreRefused ==
  /\ pc = "store"
  /\ \/ Backend(hand.op) = "refused"
     \/ /\ Backend(hand.op) = "collision"
        /\ \/ hand.op.address \in foreign
           \/ backend[hand.op.address] # journal[hand.index].id
  /\ Retry
  /\ UNCHANGED <<backend, foreign, applied, bounds>>

(***************************************************************************)
(* _push_op.  A push with a resolver looks for a pending operation on the  *)
(* same block to squash with, from the last to the first, the head of the  *)
(* queue excepted.                                                         *)
(***************************************************************************)
Stops == {"stop", "at_first_position_stop", "at_last_position_stop"}
AtFirst == {"at_first_position_stop", "at_first_position_continue"}
AtLast == {"at_last_position_stop", "at_last_position_continue"}

Candidates(op) ==
  {i \in DOMAIN operations :
     /\ op.resolver /\ operations[i].resolver
     /\ operations[i].address = op.address
     /\ \E j \in DOMAIN operations : j < i}

\* The candidates the search reaches, given what squashable() answers for each.
Searched(answer) ==
  {i \in DOMAIN answer : \A j \in DOMAIN answer : j > i => answer[j] \notin Stops}

\* The operation the search settles on: the last remembered, the first pushed.
IsSquashed(c, answer) == IsLeast(c, {i \in Searched(answer) : answer[i] \in AtFirst \cup AtLast})

\* The version acb->seal() gives the squashed block; an uninitialized one may be anything.
SquashVersions(cop) == IF cop.version = None THEN 0..MaxPushes ELSE {cop.version}

\* What the journal keeps of an operation: its version is that of its block.
OnDisk(op) == [op EXCEPT !.version = op.block]

\* Fault: the index is incremented after use.
EnqueueStaleIndex(op, ops, jrnl, disk) ==
  LET stays == disk # None \/ Len(queue) >= MaxSize
  IN  /\ next_index' = next_index + 1
      /\ journal' = With(jrnl, next_index, OnDisk(op))
      /\ torn' = Without(torn, next_index)
      /\ operations' =
           With(ops, next_index,
                IF stays /\ op.mode # None THEN [op EXCEPT !.block = None, !.version = None] ELSE op)
      /\ queue' = IF stays THEN queue ELSE Append(queue, next_index)
      /\ first_disk' = IF stays /\ disk = None THEN next_index ELSE disk

\* Fault: an operation is queued when there is room, though others wait on disk.
EnqueueAhead(op, ops, jrnl, disk) ==
  LET index == next_index + 1
      stays == Len(queue) >= MaxSize
  IN  /\ next_index' = index
      /\ journal' = With(jrnl, index, OnDisk(op))
      /\ torn' = Without(torn, index)
      /\ operations' =
           With(ops, index,
                IF stays /\ op.mode # None THEN [op EXCEPT !.block = None, !.version = None] ELSE op)
      /\ queue' = IF stays THEN queue ELSE Append(queue, index)
      /\ first_disk' = IF stays /\ disk = None THEN index ELSE disk

\* The second half of _push_op: write to the journal, over a torn file that was skipped,
\* and queue in memory or leave on disk.  Nothing in it waits: it is never reentered.
Enqueue(op, ops, jrnl, disk) ==
  LET index == next_index + 1
      stays == disk # None \/ Len(queue) >= MaxSize
  IN  /\ next_index' = index
      /\ journal' = With(jrnl, index, OnDisk(op))
      /\ torn' = Without(torn, index)
      /\ operations' =
           With(ops, index,
                IF stays /\ op.mode # None THEN [op EXCEPT !.block = None, !.version = None] ELSE op)
      /\ queue' = IF stays THEN queue ELSE Append(queue, index)
      /\ first_disk' = IF stays /\ disk = None THEN index ELSE disk

\* Fault: the squashed operation is not written to the journal.
SquashAtFirstMemory(op, c) ==
  \E v \in SquashVersions(operations[c]) :
    LET cop == operations[c]
        squashed == [op EXCEPT !.block = v, !.version = cop.version,
                               !.carries = cop.carries \cup op.carries]
    IN  /\ operations' = [operations EXCEPT ![c] = squashed]
        /\ UNCHANGED <<files, next_index, queue, first_disk>>

\* Overwrite the candidate, in memory and in the journal.
SquashAtFirst(op, c) ==
  \E v \in SquashVersions(operations[c]) :
    LET cop == operations[c]
        squashed == [op EXCEPT !.block = v, !.version = cop.version,
                               !.carries = cop.carries \cup op.carries]
    IN  /\ operations' = [operations EXCEPT ![c] = squashed]
        /\ journal' = [journal EXCEPT ![c] = OnDisk(squashed)]
        /\ UNCHANGED <<torn, next_index, queue, first_disk>>

\* first_disk moves past the candidate that is erased.
DiskWithout(c) ==
  CASE first_disk # c -> first_disk
    [] first_disk = c /\ (\E i \in DOMAIN operations : i > c) -> c + 1
    [] OTHER -> None

\* Erase the candidate and push the squashed operation in its stead.
SquashAtLast(op, c) ==
  \E v \in SquashVersions(operations[c]) :
    LET cop == operations[c]
    IN  Enqueue([op EXCEPT !.block = v, !.version = v, !.carries = cop.carries \cup op.carries],
                Without(operations, c), Without(journal, c), DiskWithout(c))

PushOp(op) ==
  \E answer \in [Candidates(op) -> Squashes] :
    \/ /\ \A c \in DOMAIN answer : ~IsSquashed(c, answer)
       /\ Enqueue(op, operations, journal, first_disk)
    \/ \E c \in DOMAIN answer :
         /\ IsSquashed(c, answer)
         /\ \/ answer[c] \in AtFirst /\ SquashAtFirst(op, c)
            \/ answer[c] \in AtLast /\ SquashAtLast(op, c)

\* A client inserts a block it does not know, updates or removes one it does.
NewOp(a, mode, resolver) ==
  [id |-> pushed + 1, carries |-> {pushed + 1}, address |-> a, mode |-> mode,
   block |-> IF mode = None THEN None ELSE pushed + 1,
   version |-> IF mode = None THEN None ELSE pushed + 1, resolver |-> resolver]

Requests ==
  {op \in {NewOp(a, mode, resolver) : a \in Addresses, mode \in {"insert", "update", None},
                                      resolver \in BOOLEAN} :
     /\ op.mode = "insert" <=> latest[op.address] = 0
     /\ op.resolver => op.mode = "update"}

Push(op) ==
  /\ pc \in {"get", "store"}
  /\ pushed < MaxPushes
  /\ PushOp(op)
  /\ pushed' = pushed + 1
  /\ acked' = acked \cup {op.id}
  /\ latest' = [latest EXCEPT ![op.address] = IF op.mode = None THEN 0 ELSE op.id]
  /\ UNCHANGED <<last_processed, pc, hand, sync, backend, foreign, done, applied, bounds>>

(***************************************************************************)
(* The process dies and starts again: the files are all that is left.      *)
(***************************************************************************)
Starts ==
  /\ operations' = << >> /\ queue' = << >>
  /\ next_index' = 1 /\ last_processed' = 0 /\ first_disk' = None
  /\ pc' = "init" /\ hand' = None /\ sync' = None

Lost ==
  /\ pc # "aborted"
  /\ crashes < MaxCrashes /\ crashes' = crashes + 1
  /\ Starts

Crash ==
  /\ Lost
  /\ UNCHANGED <<files, backend, foreign, history, failures, writes>>

\* _push_op is writing file i: nothing of op can be read yet, or its address only.
TearFile(op, i) == torn' \in {Without(torn, i), With(torn, i, AddressOnly(op))}

\* ... in the middle of _push_op, while it writes its journal file: the candidate's, for
\* a squash at the first position; a new one otherwise, after the candidate's is erased.
CrashInPush(op) ==
  /\ pc \in {"get", "store"}
  /\ pushed < MaxPushes
  /\ \E answer \in [Candidates(op) -> Squashes] :
       \/ /\ \A c \in DOMAIN answer : ~IsSquashed(c, answer)
          /\ TearFile(op, next_index + 1)
          /\ UNCHANGED journal
       \/ \E c \in DOMAIN answer :
            /\ IsSquashed(c, answer)
            /\ journal' = Without(journal, c)
            /\ \/ answer[c] \in AtFirst /\ TearFile(op, c)
               \/ answer[c] \in AtLast /\ (UNCHANGED torn \/ TearFile(op, next_index + 1))
  /\ Lost
  /\ pushed' = pushed + 1
  /\ UNCHANGED <<backend, foreign, acked, done, latest, applied, failures, writes>>

\* The process ended on the assertion, and is started again.
Restart ==
  /\ pc = "aborted"
  /\ Starts
  /\ UNCHANGED <<files, backend, foreign, history, bounds>>

\* Another client updates a block.
ForeignUpdate(a) ==
  /\ writes < MaxForeign /\ writes' = writes + 1
  /\ backend[a] # 0 /\ a \notin foreign
  /\ foreign' = foreign \cup {a}
  /\ UNCHANGED <<files, memory, backend, history, failures, crashes>>

(***************************************************************************)
(* sync(): read the index to wait for, then poll _last_processed_index.    *)
(***************************************************************************)
Sync ==
  /\ pc \in {"get", "store"} /\ sync = None
  /\ sync' = [wait_id |-> next_index - 1, before |-> acked]
  /\ UNCHANGED <<files, operations, queue, next_index, last_processed, first_disk,
                 pc, hand, backend, foreign, history, bounds>>

SyncReturn ==
  /\ pc \in {"get", "store"} /\ sync # None
  /\ last_processed >= sync.wait_id
  /\ sync' = None
  /\ UNCHANGED <<files, operations, queue, next_index, last_processed, first_disk,
                 pc, hand, backend, foreign, history, bounds>>

Loop ==
  \/ \E i \in DOMAIN journal \cup DOMAIN torn : Restore(i)
  \/ Restored
  \/ \E i \in DOMAIN operations : Reload(i)
  \/ Reloaded
  \/ Get
  \/ StoreOk \/ StoreCollision \/ StoreFails \/ StoreRefused

Next ==
  \/ Loop
  \/ \E op \in Requests : Push(op) \/ CrashInPush(op)
  \/ Crash \/ Restart
  \/ \E a \in Addresses : ForeignUpdate(a)
  \/ Sync \/ SyncReturn

Spec == Init /\ [][Next]_vars

\* The reactor runs every thread that can run, and a process that ended is restarted.
LiveSpec == Spec /\ WF_vars(Loop) /\ WF_vars(SyncReturn) /\ WF_vars(Restart)

\* Fault: a block that is not in memory is taken for missing.
FetchCacheMemory(i) == IF operations[i].block # None THEN operations[i].id ELSE 0

(***************************************************************************)
(* _fetch_cache, then the backend: the push whose block a fetch returns, 0 *)
(* for MissingBlock, None for the error of a file that cannot be read.     *)
(***************************************************************************)
FetchCache(i) ==
  IF operations[i].block # None THEN operations[i].id
  ELSE IF i \in DOMAIN torn THEN None
  ELSE IF journal[i].block # None THEN journal[i].id ELSE 0

Pending(a) == {i \in DOMAIN operations : operations[i].address = a}

Fetch(a) ==
  IF Pending(a) = {} THEN backend[a]
  ELSE FetchCache(CHOOSE i \in Pending(a) : IsGreatest(i, Pending(a)))

-----------------------------------------------------------------------------
(* The journal is the queue.                                               *)

Journaled == UNION {journal[i].carries : i \in DOMAIN journal}

Promise == INSTANCE WriteQueue WITH pending <- Journaled

\* The pushes are played on the backend in their order, each at least once and
\* again only before the next, as if nothing crashed, failed or left the memory.
PlaysInOrder == Promise!Spec

\* A fetch returns the last block the client stored, wherever it is: in the queue,
\* moved to the backend by a store under way, on disk only, or stored; and nothing
\* after a removal; another client's update aside.  It fails only when a file cut short
\* by a crash is taken for the last operation on the block.
ReadYourWrites ==
  pc \in {"get", "store"} =>
    \A a \in Addresses \ foreign :
      \/ Fetch(a) = latest[a]
      \/ Fetch(a) = None /\ \E i \in DOMAIN torn : IsGreatest(i, Pending(a))

\* A push that returned and was not processed is in a journal file that can be read
\* back, whatever crash comes next.
Durable == acked \ done \subseteq Journaled

\* When sync() returns, the pushes made before it was called are processed.
SyncWaits == [][sync # None /\ sync' = None /\ crashes' = crashes => sync.before \subseteq done]_vars

\* A call to sync() ends, unless an update of another client stays in the way, or an
\* operation whose file is torn, which is never processed.
SyncEnds ==
  sync # None ~> \/ sync = None
                 \/ [](foreign # {})
                 \/ [](DOMAIN torn \cap DOMAIN operations # {})

\* Every push that returned ends up processed, unless an update of another client
\* stays in its way: without a resolver the operation is refused forever.
Drains == \A n \in Pushes : n \in acked ~> n \in done \/ [](foreign # {})

Queued(q) == {q[n] : n \in 1..Len(q)}
Increasing(q) == \A m, n \in 1..Len(q) : m < n => q[m] < q[n]

\* Nothing is lost between the queue and the disk: an operation that is neither being
\* processed nor in the queue is at first_disk or after it, or its file is torn; those
\* in the queue, in increasing order, are before it.
Placed ==
  /\ Increasing(queue)
  /\ \A i \in DOMAIN operations :
       \/ hand # None /\ i = hand.index
       \/ i \in Queued(queue)
       \/ first_disk # None /\ first_disk <= i
       \/ i \in DOMAIN torn
  /\ first_disk # None => \A i \in Queued(queue) : i < first_disk

\* Placed, and what keeps it so: memory agrees with the journal, the operation being
\* processed comes before all others, a new index after all others, the journal is
\* restored in the order of the indexes, no torn file is ever processed, and the loop's
\* assertion fails only when one has become the first of the operations.
Ordered ==
  /\ pc # "aborted" => Placed
  /\ \A i \in DOMAIN torn :
       /\ i \notin DOMAIN journal /\ torn[i] = AddressOnly(torn[i])
       /\ i \in DOMAIN operations => operations[i] = torn[i]
  /\ DOMAIN operations \subseteq DOMAIN journal \cup DOMAIN torn
  /\ \A i \in DOMAIN operations :
       i <= next_index /\ (i \in DOMAIN journal => operations[i].carries = journal[i].carries)
  /\ Queued(queue) \subseteq DOMAIN operations \cap DOMAIN journal
  /\ first_disk # None => first_disk \in DOMAIN operations
  /\ pc = "init" =>
       /\ \A i \in DOMAIN operations, j \in DOMAIN journal \ DOMAIN operations : i < j
       /\ first_disk # None => Len(queue) >= MaxSize
  /\ pc # "init" => DOMAIN journal \subseteq DOMAIN operations
  /\ pc = "store" <=> hand # None
  /\ hand # None =>
       /\ hand.index \in DOMAIN journal
       /\ IsLeast(hand.index, DOMAIN operations)
       /\ hand.op.carries = journal[hand.index].carries
       /\ \A i \in Queued(queue) : hand.index < i
       /\ first_disk # None => hand.index < first_disk
  /\ pc = "aborted" => \E i \in DOMAIN torn : IsLeast(i, DOMAIN operations)
=============================================================================
