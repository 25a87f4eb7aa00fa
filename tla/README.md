# A TLA+ verification of memo

memo is a distributed block store. A node owns a silo (disk, memory, cloud
storage), joins an overlay that finds which nodes hold a block, and replicates
every mutable block with its own instance of a multi-version Paxos. The nodes
run elle's reactor: threads are cooperative, a thread runs alone until it waits
for the network, a remote silo, a lock or a timer.

This directory models the parts whose correctness depends on the order in which
things happen, checks them with TLC on small instances and proves what matters
most with TLAPS. `PROJECT.json` lists the components, the runs, the source lines
of every definition, the findings, the hazards and the theorems.

Paths below are relative to `src/`.

## The system and its parts

| Part | Source | Modules |
|---|---|---|
| Paxos acceptor | `elle/src/elle/athena/paxos/Server.hxx` | PaxosServer, PaxosServerProofs |
| Paxos client | `elle/src/elle/athena/paxos/Client.hxx` | AthenaPaxos, Consensus, AthenaPaxosProofs, AgreementProofs |
| Write queue | `src/memo/model/doughnut/Async.cc` | Async, WriteQueue, AsyncProofs |
| Storage peer | `src/memo/model/doughnut/consensus/Paxos.cc` (LocalPeer) | LocalPeer, LocalPeerProofs, SiloProofs |
| Silo of files | `src/memo/silo/Silo.cc`, `Filesystem.cc` | Silo, SiloProofs |
| Block cache | `src/memo/model/doughnut/Cache.cc` | Cache, CacheProofs |
| Kouncil overlay, and the dock as it uses it | `src/memo/overlay/kouncil/Kouncil.cc`, `src/memo/model/doughnut/Dock.cc` | Kouncil, KouncilProofs |

How they interact: a client's `store` goes down the stack Cache, Async, Paxos.
Async acknowledges the write once it is in its journal and plays it later. Paxos
looks up the owners of the block in the overlay, runs athena's `choose()` over
their peers (`Remote` through the dock, or the node's own `LocalPeer`), and
handles the conflicts and the quorum changes. A `LocalPeer` keeps athena's server
for each block in its silo, and its background threads evict lost nodes and
rebalance under-replicated blocks by electing new quorums. The modules compose
where state is shared: AthenaPaxos and LocalPeer own servers of PaxosServer, and
LocalPeer owns a silo of Silo. Cache and Async each see the stack below them as a
backend that may fail.

## Modules

Definitions marked `Fault` are wrong variants of the definition that follows
them; each makes one property fail.

### PaxosServer

The acceptor. A server holds the committed value and quorum, and the state of
the version under way: the proposal it promised and what it accepted. Every
handler is a pure operator from the state and the request to the next state
(`ProposeState`, `AcceptState`, `ConfirmState`) and to the reply
(`ProposeReply`, ...), so that other modules can own servers. `Settle` is what
`propose` does first: commit the version before, or mark the state partial if
this server cannot tell how it ended. Exceptions (wrong quorum, "someone
malicious") are replies.

### AthenaPaxos and Consensus

Clients and servers together. `choose()` makes three rounds of calls; each round
calls the peers in parallel and ends when all have answered or could not be
reached. A step is one call handled by one server, in any order. A request whose
caller gave up (peer declared unavailable, exception, dead client) stays in
`late` and may be handled at any time later, or never: this covers lost and
delayed calls. `get()` (`Client::state`) is one more round. A client submits a
value or elects a quorum; clients that follow use any quorum chosen so far. Each
`choose()` starts at round one, as a new client does; `Paxos::_store`, which keeps
its client across conflict resolutions, is not modelled.

Consensus is what `choose()` promises, version by version: values are submitted,
and at most one is decided.

### Async and WriteQueue

The journaled write queue, the only kind `Doughnut`'s configuration builds. The
state is the journal on disk, `_operations`, the queue of indexes,
`_next_index`, `_first_disk_index`, `_last_processed_index`, and where the
processing loop stands. An operation is known by its push, numbered; its block is
sealed at that number. Actions: `Restore`/`Restored` (`_init`),
`Reload`/`Reloaded` (`_load_operations`), `Get` and `Store*` (the loop and its
attempts on the backend), `Push` (`_store`, `_remove` and `_push_op` with its
squashing), `Sync`/`SyncReturn`, `Crash` anywhere, `CrashInPush` while the
journal is written, `Restart` after the loop's assertion ended the process,
`ForeignUpdate` by another client. `Fetch` is `_fetch_cache` followed by the
backend.

A crash may leave a journal file cut short. If not even its address can be read it is
as if there were none. If the address can (`torn`), `_init` skips the file while the
queue has room, but past the capacity it reads addresses only and takes it for an
operation; `_load_operations` then fails to read it and goes on, leaving it in memory,
where it is never queued. A field C++ leaves uninitialized (`Op::version`
after `Op(Op&&)`) may hold anything. What the conflict resolvers answer when
asked to squash is an input (`Squashes`); the ones in this repository always
answer `stop`, others are linked in by programs that use the library. Left out:
the destructor, a disk that loses or corrupts a file once written (on which alone the
reload before a retry can fail), and the instance without a journal. `_push_op` guards
against being reentered, and nothing it calls yields, so a push is one step.

WriteQueue is what the queue promises: pushes are played in order, each at least
once, and again only before the next is.

### Silo

A silo as operators on its state: the files, and the sizes, the space used and
the number of files kept in memory and recovered when it starts. Capacity is
checked before a write. Mirror, Strip, Crypt, Latency and Memory are left out, and
so are the cloud silos, which may yield in the middle of an operation.

### LocalPeer

A node's own peer: every call it serves for mutable blocks (`propose`, `accept`,
`confirm`, `get`, `propagate`, `reconcile`, `remove`) and immutable ones (`store`,
`confirm`, `remove`), the cache of decisions and its unloading, the two indexes
(`_quorums`, `_node_blocks`), the inspector that walks the silo at the start, the
eviction of lost nodes and the rebalancing thread. A crash may come at any point,
also in the middle of a write of the silo, which leaves a torn file. What an
election decides is an input here (`Quora`): AthenaPaxos is about that. `told` is
a history variable, what the peer answered about each block.

No thread that waits is told from another: `loading` has the blocks that threads, in
any number, read before the owners were known, and `reconcile` also stands for a removal
whose signature makes `validate_remove` fetch a group. A `confirm` may
come for a proposal whose accept this peer discarded.

The loop that unloads decisions counts up while the excess it counts to goes
down, so it unloads half of the excess; `Unload` does the same.

### Cache

The mutable blocks in memory, refreshed from the backend by the cleanup thread;
the immutable ones on disk; the fetches in progress others wait for. A call to
the backend takes effect at some point between the call and the handling of its
answer, so the threads interleave at both. The backend is what answers the cache's
fetches: with Async below, it holds a block once Async has queued it. A restart finds
the files in no particular order, maybe one that is not whole.

### Kouncil

One Kouncil and the nodes it hears of, in the protocol of version 0.8.0 and later:
discovery, the dock's attempts with their failures and duplicates, the
advertisement, the fetch of entries, the address book kept up to date by the
broadcasts of the nodes (a block stored again is broadcast again), whether nodes store,
the loss of connections, reconnection and the eviction timers. A node restarts on other
endpoints, so what is known of it goes stale. Left out: lookups that fall back on asking
other nodes, the random choice of `_allocate`, monitoring, the handshake (one that fails
otherwise than by refusing the peer too) and `Remote`'s own reconnection.

### Instances

MCAthenaPaxos, MCAsync, MCLocalPeer, MCCache and MCKouncil instantiate the
modules for TLC.

## What TLC checks

| Run | Instance | Properties |
|---|---|---|
| reachable | three servers, two clients that may die, two rounds, two versions, a reader, late requests, all peers reachable | `ImplementsConsensus`, `ReadVersion`, `ConfirmedIsFinal` |
| unreliable | three servers, two clients that share an id and may die, a reader, one unreachable peer | `Inductive`, `HonestNeverAccused`, `OneValuePerProposal`, `Validity`, `PromisesHold` |
| elections | two clients that choose values and a smaller quorum, two versions | `TypeOK`, `Agreement` |
| ends | a client with more rounds than one that may die | `ChooseEnds` |
| async_queue | capacity 1, three pushes, two blocks, a failure, two crashes, another client's update | `TypeOK`, `ReadYourWrites`, `Durable`, `Ordered`, `PlaysInOrder`, `Drains`, `SyncEnds` |
| async_squash | capacity 1, six pushes, resolvers that skip and squash at both positions | `Durable` |
| peer | a mutable and an immutable block, one other node, a silo of three units, a crash, a node lost and found | `TypeOK`, `IndexesAgree`, `KeepsItsWord`, `SiloCounts`, `SiloSpace`, `LossIsNoticed`, `LostIsEvicted` |
| refresh | a mutable and an immutable block, two threads, two calls, two faults | `TypeOK`, `Genuine`, `DiskFits`, `WaitsForOne`, `CallEnds`, `Converges` |
| overlay | one node that restarts, two blocks, three changes, two losses | `TypeOK`, `Enforced`, `KeepsTrying`, `BookIsTrue`, `StoringIsTrue`, `Reaches`, `Forgets` |

What the properties say:

- Paxos. `ImplementsConsensus`: `choose()` refines Consensus. `ReadVersion`: the
  version `get()` reports does not go back. `ConfirmedIsFinal`: what a server
  confirmed is not replaced. `HonestNeverAccused`: no request of `choose()`,
  however late, is taken for a malicious one. `OneValuePerProposal`, `Validity`,
  `PromisesHold`: as in Paxos. `ChooseEnds`: a client that outlasts the others
  returns.
- Write queue. `ReadYourWrites`: a fetch returns the last block stored, and fails only
  where a torn file is taken for the last operation on the block. `Durable`: an
  acknowledged push is processed or in the journal. `Ordered`: the queue comes before
  what is on disk only, in order, none whose file can be read is forgotten, and the
  loop's assertion fails only on a torn file that is the first of the operations.
  `PlaysInOrder`: the queue refines WriteQueue. `Drains`, `SyncEnds`: pushes are
  processed and `sync()` returns, unless a block stays updated by another client or, for
  `sync()`, a torn file stays among the operations.
- Storage peer. `KeepsItsWord`: no decision, in memory or in a file, goes back on
  what was answered. `IndexesAgree`: the two indexes never contradict each other.
  `SiloCounts`, `SiloSpace`: the accounting of the silo is that of its files, within
  its capacity. `LossIsNoticed`: a step that leaves a block with too few replicas
  schedules its rebalancing. `LostIsEvicted`: a node lost for good leaves the quorums
  of the immutable blocks.
- Cache. `Genuine`: nothing is cached that the backend never held. `DiskFits`: the
  space counted covers the files, pruning never runs out of files, and the bound
  holds until a crash. `WaitsForOne`: a thread waits for a fetch only while exactly
  one other makes it. `CallEnds`: calls return. `Converges`: once a block stops
  changing, the cache has its latest version or none.
- Overlay. `Enforced`: what the code asserts of peers, infos, endpoints and timers.
  `KeepsTrying`: a known node that is not connected is being connected to, or a timer
  will. `BookIsTrue`, `StoringIsTrue`: what is known of a connected node is true once
  nothing is under way. `Reaches`, `Forgets`: a node that is up is reached, one that
  died is forgotten.

### Bounds

Paxos has two values or more, so that clients disagree, two versions wherever committing
matters, and two rounds where a client is to be outbid and try again. The write queue
has capacity one with three pushes, so that operations reach the disk, are reloaded, and
are pushed meanwhile; squashing needs six to reach every branch of the loop. The peer
has one mutable block, so it never unloads a decision: the proofs cover that, for any
number. Its churn of two is a node discovered twice, lost in between or after, and none
after the crash. A file of the disk cache takes two units of three, so that pushed twice
it is counted past the bound. The overlay's node starts twice, so that endpoints go
stale; with three changes a block comes, goes and comes back while the broadcasts of the
others are under way. Versions, rounds, calls, crashes, failures, losses and changes are
capped in the guards by the constants named `Max...`.

Symmetry is used on servers, values or blocks where no property or bound tells
them apart, and never with liveness. Deadlock is not checked for Paxos, the write
queue and the peer: they stop when the bounded requests are served.

### Fairness

`ends` assumes that a client that does not die is scheduled and that its calls are
answered or fail, which the reactor and the RPC timeouts give; nothing is assumed
of the other clients. `async_queue` assumes that the processing thread and the
thread in `sync()` are scheduled, and that a process its assertion ended is started
again; failures of the backend are bounded, as no queue drains to a backend that never
answers. `peer` assumes that the eviction thread of a
node is scheduled and its elections end. `refresh` assumes that threads are
scheduled, that the backend answers or fails, and that the cleanup thread comes
back. `overlay` assumes that timers fire, that attempts end, that a connection to a
process that died is noticed, and (strong fairness) that a node that can be reached
again and again is not refused for ever.

## Where the code and what is said of it differ

Each of these is a run in which TLC finds the counterexample.

- `agreement`: two calls to `choose()` return different values for a version.
  `propose` reports the proposal it promised instead of the one it accepted, so
  the "highest" accepted value may be an old one. It takes two unreachable peers
  and two dead clients; `InTurn` keeps TLC to clients that follow each other.
- `stale_read`: `get()` returns the value before the latest one. A server that
  missed a version dates its old value from the version before the proposal.
- `async_sync`: `sync()` does not wait for the last push.

### Limits of the properties

Paxos: `ReadVersion` and `ConfirmedIsFinal` fail with one unreachable peer, and
`Agreement` with two; `reachable` has none. A value returned by `choose()` may be
confirmed at a single peer, and a `get()` that cannot reach it returns an older one.

Write queue; but for the first, each is a change to a configuration:

- A torn file past the capacity is taken for an operation and never queued. Until the
  next restart, a fetch of its block fails, and the loop's assertion that the index it
  takes is the first of `_operations` fails once the ones before are processed: the
  process ends, and the restart skips the file or meets it again. `Ordered` and
  `ReadYourWrites` say exactly when; nothing acknowledged is lost.
- An update that conflicts with another client's and has no resolver is retried
  forever, and the pushes behind it wait: `Drains` excepts it, as long as it lasts.
- `Squashes` may hold answers no resolver of this repository gives. With
  `at_last_position_stop` and a full queue, the loop may wait for an index while
  the operations are on disk only (`Drains`); with `skip` too and six pushes,
  `_first_disk_index` may name an erased operation, those behind it are forgotten
  and the loop's assertion fails (`Ordered`).
- `ReadYourWrites` fails when a resolver squashes at the position of an earlier
  operation past one it skips, or past one without a resolver.
- `Durable` fails if the process dies between removing the squashed operation's
  journal file and writing its replacement, or while it writes it. `async_squash`
  therefore has no crash: it shows that no squash leaves a push out of the journal once
  it returns.

Storage peer:

- `_load` throws `silo::MissingKey`, which the inspector does not catch: a block
  removed since the listing, or torn by a crash, ends it. A block removed during an
  eviction ends the eviction threads (`~running` in `LostIsEvicted`).
- A node lost before a restart is in no list of nodes and is never evicted; a
  `confirm` that names a lost node after its eviction listed its blocks leaves it in
  the index.
- `_remove` leaves the entry of `_quorums`; `propagate` creates a decision without
  scheduling it.

Cache: the answer of a refresh may replace a block stored meanwhile, and a late
answer of a store a newer one; `Converges` shows the later refreshes repair it.

Overlay: of two opposite changes of a block that wait together, `_broadcast` sends
the first (`muddled` in `BookIsTrue`). A node of the configuration that is down is
dialled once; nothing retries it until it is heard of.

## What is proved

All theorems are for every value of the constants, from the named assumptions of
the modules: sets are finite where the code's are, sizes and bounds are naturals,
model values are distinct. Each invariant is proved from an inductive one that the
initial states satisfy and every action keeps, one step per action.

**AthenaPaxosProofs**, over PaxosServerProofs: `InductiveHolds`, `TypeCorrect`,
`AcceptedUnderPromiseHolds`, `HonestNeverAccusedHolds`, `PromisesHoldAlways`,
`ValidityHolds`, and `OneValuePerProposalHolds` if any two majorities of the quorums
there may be intersect (`Intersecting`). That an accept in flight finds its promise
depends on what the client's rounds have established and on every other handler keeping
it, so `Inductive` says `Prepared` of each late request and `Established` of each
client. PaxosServerProofs proves of each handler that it keeps `WithinPromise`,
`Promised` and `AcceptedOrPast`, that it keeps `Coherent` (a `confirm` if its client was
accepted) and, when there is one quorum, that a server that answers `get`
with a version or a later one goes on doing so (`Informs`). For the values, `Voting`
says that whatever is voted for under a proposal (accepted by a server, asked for by a
client or by a late request) is one value, and that a majority took that proposal as
new and told so to one client, which is no longer waiting to hear it: a second client
with the same id and round would need a server of that majority to take it as new
again. MCAthenaPaxos assumes `Intersecting`, so TLC evaluates it for every instance.

The module ends with the argument for agreement, `DecidingHolds`, if every peer can be
reached and no quorum is elected. The usual one, that a majority accepted and a later
majority is told so, does not apply: `propose` reports the promise, not the proposal
accepted, so the answer with the highest proposal need not carry the latest value. What
makes it safe is that all servers answer. `Deciding` says that there is an outcome per
version, which what was returned, confirmed or told as confirmed agrees with, and that a
version with an outcome is `Locked`: every server accepted that value (`Bound`), every
later proposal was told of it (`Told`) and asks for nothing else (`Followed`). `Holding`
says the same of a client still having its value accepted, for the peers that answered
it, as long as none it is yet to hear from promised more (`Clear`).

**AgreementProofs**: `AgreementHolds`, `ConfirmedIsFinalHolds`, `ReadVersionHolds` and
`ConsensusImplemented`, under the same condition (`Reliable`). They fail when peers may
be out of reach, see the limits above; with elections they are not proved. Servers,
clients, shared ids, rounds, versions, crashes and late requests are arbitrary. The
first two follow from `Deciding`. For reads, `Reading` says that a version is asked for
only once all the servers have got to the one before (`Past`), and that one of them at
least then answers `get` with that one or a later one (`Informs`): as no version is
skipped, a `propose` for the next one never makes the last server that knows it forget
it, and a `get`, which asks them all, finds it. The refinement of Consensus goes by
steps: one submits a value, returns a submitted one for a version that has no other, or
is a stutter.

**AsyncProofs**: `TypesHold`; `OrderedHolds`, if no resolver squashes at the last
position; `DurableHolds`, `ReadsItsWrites` and `ImplementsWriteQueue`, if none squashes.
`Ordered` is inductive: it adds to `Placed` that the operation under way comes before
all others, that the restore goes in order, and that torn files are apart from the
journal and never queued. That the index after the last is free, and that the loop
takes the first operation unless a torn file is, rest on a set of naturals having a
least element, and a bounded one a greatest. The refinement maps every step to one of
WriteQueue or to a stutter. The assumptions are needed: see the limits above.

**LocalPeerProofs**: `PeerKeepsItsWord`, `PeerIndexesAgree`, and the action property
`PeerLossIsNoticed`. The invariant is about each block apart: the decision in memory
and the file, if any, are servers that honour what was answered (`Good`), and there
is a file once something was, which is why unloading or losing the memory is
harmless; a block under eviction has a quorum. `Good` asks of a server only that what
it accepted is within its promise (`WithinPromise`), which is less than `Coherent`: a
`confirm` of another proposal than the one accepted breaks the latter, and no promise. A
handler that loads a decision, changes it and saves it only derives the memory of that
block (`Derived`).

**SiloProofs**: `PeerSiloCounts`, `PeerSiloSpace`, `PeerTypes`. `Roomy` says that the
sizes remembered, the count and the usage are those of the files and that they fit;
they are needed together, since `erase` gives back the size remembered and a write
is refused by the usage. `SiloStep` lists all that a step of the peer may do to its
silo. The module starts with the facts about the sum of a function over a finite set
(`SumFunctionOnSet`) that this needs: induction is on the number of elements, from the
fact that a set of naturals that is not empty has a least element.

**CacheProofs**: `CacheIsGenuine`, `CacheWaitsForOne`, `CacheDiskFits`. `Held` says of
every place a version is kept, the answers under way included, that the backend has
had it. `Room` is needed because a block pushed twice is counted twice: the space
counted exceeds the files by at most the size of the disk cache, as a file that is
not whole, or any file when a restart found too many, is of a block already stored
that no thread fetches or stores, so that only a whole file that fits is counted
again.

**KouncilProofs**: `KouncilTypes`, `EnforcedHolds`, `KeepsTryingHolds`,
`StoringTruth`, `BookTruth`. The invariants relate the state of a connection to the
entries of the overlay, and what is believed of a node to what it does once the
queue and the calls under way are applied in order.

## What is only model-checked

- Liveness, which is out of the prover's reach: `ChooseEnds`, `Drains`, `SyncEnds`,
  `LostIsEvicted`, `CallEnds`, `Converges`, `Reaches`, `Forgets`.
- `Agreement` with elections, for the instance of `elections`.
- `Durable` under squashing, for the instance of `async_squash`.
- `TypeOK` of Cache.

## What is not modelled

| Part | Why |
|---|---|
| Client side of the doughnut's Paxos (`_store`, `_fetch`, `_rebalance`, `_resign`) | composes `choose()` with lookups; Cache and Async use its outcome as a backend's |
| Unreplicated consensus, `Local` without Paxos | retry loops around one peer with no state of their own |
| Kelips | gossip with random choices and timeouts: its properties are probabilistic |
| Kademlia, Stonehenge, Kalimero, Koordinate | experimental, static or delegating |
| Cloud silos, Mirror, Strip, Crypt | external services, or wrappers with no accounting |
| Blocks, signatures, users, hub, command line, RPC format, monitoring, key-value store | cryptography, input, output and conversion |
| elle's reactor | assumed: a step is atomic between two waits |
