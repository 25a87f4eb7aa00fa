----------------------------- MODULE LocalPeer -----------------------------
(***************************************************************************)
(* A node's own peer (consensus::Paxos::LocalPeer): it keeps in a silo an  *)
(* athena server for each mutable block, and the immutable blocks, answers *)
(* the calls of the clients, and runs the threads that evict the nodes it  *)
(* lost and spread the blocks that have too few replicas.                  *)
(*                                                                         *)
(* Threads are cooperative and the silo is on the local disk: but for the  *)
(* lookup of the owners of an immutable block, the states reconcile asks   *)
(* for, the group a removal may have to fetch, and the elections a thread  *)
(* waits for, nothing waits after a block is loaded: a handler is a step.  *)
(* The process may die at any time, in the middle of a write too.          *)
(*                                                                         *)
(* What choose() does is AthenaPaxos: the calls it makes to this peer are  *)
(* among the requests, whoever makes them, this node's threads included.   *)
(***************************************************************************)
EXTENDS PaxosServer, Silo, Sequences

CONSTANTS
  Me,            \* the node's id, among Servers
  Immutable,     \* the addresses of immutable blocks
  Block,         \* the content of an immutable block
  Torn,          \* the content of a file whose writing was cut short
  Factor,        \* the replication factor
  MaxAddresses,  \* _max_addresses_size
  \* Bounds
  Calls,         \* the proposals clients make for each mutable block
  Quora,         \* the quorums clients name or elect for each block
  MaxCrashes,    \* crashes of the process
  MaxChurn       \* discoveries of a node, a crash counting as two

Mutable == Addresses \ Immutable
Nodes == Servers \ {Me}

ASSUME PeerAssumption ==
  /\ Me \in Servers /\ Immutable \subseteq Addresses
  /\ Block \notin Server /\ Torn \notin Server /\ Block # Torn
  /\ Factor \in Nat /\ MaxAddresses \in Nat \ {0}
  /\ MaxCrashes \in Nat /\ MaxChurn \in Nat
  /\ Calls \in [Mutable -> SUBSET Proposal] /\ Quora \in [Addresses -> SUBSET Quorums]

VARIABLES
  silo,         \* the silo
  mem,          \* the decisions and the indexes in memory
  reconciling,  \* blocks a call to reconcile() holds while it waits
  loading,      \* immutable blocks threads read, and wait for the owners of
  inspecting,   \* what is left to the inspector of the silo
  nodes,        \* _nodes
  timers,       \* _node_timeouts
  expired,      \* timers whose callback is yet to run
  evicting,     \* evicting[n] is the thread that evicts n, or None
  spreading,    \* what _rebalance is doing for a discovered node, or None
  running,      \* FALSE once an exception escaped a thread
  told,         \* history: what the answers to proposals and accepts said
  crashes, churn

waits == <<reconciling, loading>>
churned == <<nodes, timers, expired>>
jobs == <<inspecting, evicting, spreading, running>>
threads == <<waits, churned, jobs>>
bounds == <<crashes, churn>>
vars == <<silo, mem, threads, told, bounds>>

Data == Server \cup {Block, Torn}
Thread == [left : SUBSET Addresses, using : Addresses \cup {None}]
Target == [node : Nodes, left : (SUBSET Addresses) \ {{}}]
Answer == [promised : Proposal \cup {None}, accepted : Proposal \cup {None}]

\* decisions and use are _addresses and its order of use, quorums is _quorums.
\* The channel of what is to rebalance is a set: what comes twice is done once.
Memory ==
  [decisions    : [Addresses -> Server \cup {None}],
   use          : Seq(Addresses),
   quorums      : [Addresses -> Quorums \cup {None}],
   node_blocks  : SUBSET (Servers \X Addresses),
   rebalancable : SUBSET (Addresses \cup Nodes)]

Silent == [promised |-> None, accepted |-> None]

\* What is left in memory when the process starts.
Blank ==
  [decisions |-> [a \in Addresses |-> None], use |-> << >>,
   quorums |-> [a \in Addresses |-> None], node_blocks |-> {}, rebalancable |-> {}]

Init ==
  /\ silo = Empty /\ mem = Blank
  /\ reconciling = {} /\ loading = {} /\ inspecting = {}
  /\ nodes = {} /\ timers = {} /\ expired = {}
  /\ evicting = [n \in Nodes |-> None] /\ spreading = None /\ running = TRUE
  /\ told = [a \in Mutable |-> Silent]
  /\ crashes = 0 /\ churn = 0

-----------------------------------------------------------------------------
(* The indexes and the cache of decisions.                                 *)

UnderReplicated(q) == Cardinality(q) < Factor

Without(s, x) ==
  LET At == {i \in 1..Len(s) : s[i] = x}
      i == CHOOSE j \in At : TRUE
  IN  IF At = {} THEN s ELSE SubSeq(s, 1, i - 1) \o SubSeq(s, i + 1, Len(s))

\* Fault: the node index keeps the quorum before.
CacheOver(m, a, q) ==
  [m EXCEPT !.quorums[a] = q, !.node_blocks = @ \cup (q \X {a})]

\* _cache
Cache(m, a, q) ==
  LET old == IF m.quorums[a] = None THEN {} ELSE m.quorums[a]
  IN  [m EXCEPT !.quorums[a] = q,
                !.node_blocks = (@ \ (old \X {a})) \cup (q \X {a})]

Schedule(m, a, q) ==
  IF UnderReplicated(q) THEN [m EXCEPT !.rebalancable = @ \cup {a}] ELSE m

\* A decision that is used is the last to go.
Touch(m, a) == [m EXCEPT !.use = Append(Without(@, a), a)]

Put(m, a, s) == [m EXCEPT !.decisions[a] = s]

\* Decisions leave memory, and `left' is the order of use of the others.
Drop(m, gone, left) ==
  [m EXCEPT !.decisions = [a \in Addresses |-> IF a \in gone THEN None ELSE @[a]],
            !.use = left]

Dropped(m, a) == Drop(m, {a}, Without(m.use, a))

\* Decisions past the size of the cache go, the least recently used first, up to
\* the first that is in use.  The excess shrinks as the loop counts up to it, so
\* half of them go.
Unload(m) ==
  LET excess == Len(m.use) - MaxAddresses
      Free(i) == \A j \in 1..i : m.use[j] \notin reconciling
      n == Cardinality({i \in 1..((excess + 1) \div 2) : Free(i)})
  IN  Drop(m, {m.use[i] : i \in 1..n}, SubSeq(m.use, n + 1, Len(m.use)))

\* _load_paxos, of a decision that was not in memory.
Insert(m, a, s) ==
  LET q == CurrentQuorum(s)
      c == Cache(m, a, q)
      d == IF CurrentValue(s) # None THEN Schedule(c, a, q) ELSE c
  IN  Unload(Touch(Put(d, a, s), a))

InMemory(a) == mem.decisions[a] # None
Holds(a, data) == Exists(silo, a) /\ silo.files[a].data = data
HasPaxos(a) ==
  \/ InMemory(a)
  \/ Exists(silo, a) /\ silo.files[a].data \notin {Block, Torn}
MissingKey(a) == ~InMemory(a) /\ ~Exists(silo, a)

\* The decision _load finds, and the memory it leaves.
Decision(a) == IF InMemory(a) THEN mem.decisions[a] ELSE silo.files[a].data
Load(m, a) == IF InMemory(a) THEN Touch(m, a) ELSE Insert(m, a, Decision(a))
Loaded(a) == Load(mem, a)

\* _load of an immutable block, by a thread that knows its owners, or that waited
\* for the overlay, which found them.
BlockLoads(a, found) ==
  IF found = None THEN Holds(a, Block) /\ mem.quorums[a] # None ELSE a \in loading
LoadedBlock(a, found) ==
  IF found = None THEN mem ELSE Schedule(Cache(mem, a, found), a, found)

\* The size of what is written: the more it holds, the larger.
Size(s) ==
  1 + (IF s.value # None THEN 1 ELSE 0) + (IF s.accepted # None THEN 1 ELSE 0)

\* A handler that gives up after the load: an exception, or nothing to write.
Only(m) == mem' = m /\ UNCHANGED <<silo, told>>

\* What an answer adds to those before.
Latest(old, p) == IF old = None \/ Less(old, p) THEN p ELSE old

\* Fault: the answer is sent without a write.
SaveLater(m, a, s, answer) ==
  /\ mem' = m
  /\ UNCHANGED silo
  /\ told' = [told EXCEPT ![a] = answer]

\* Store the decision, then answer; a silo that is full throws.
Save(m, a, s, answer) ==
  /\ mem' = m
  /\ IF Fits(silo, a, Size(s))
     THEN /\ silo' = Set(silo, a, s, Size(s))
          /\ told' = [told EXCEPT ![a] = answer]
     ELSE UNCHANGED <<silo, told>>

-----------------------------------------------------------------------------
(* The calls of clients.                                                   *)

Propose(a, q, p, insert) ==
  /\ HasPaxos(a) \/ (MissingKey(a) /\ insert)
  /\ LET s == IF HasPaxos(a) THEN Decision(a) ELSE NewServer(q, None)
         m == IF HasPaxos(a) THEN Loaded(a) ELSE Insert(mem, a, s)
         t == ProposeState(s, q, p)
     IN  IF ProposeReply(s, q, p).type = "response"
         THEN Save(Put(m, a, t), a, t, [told[a] EXCEPT !.promised = Latest(@, p)])
         ELSE Only(m)
  /\ UNCHANGED <<threads, bounds>>

\* `valid' is whether the value follows from the one before.
Accept(a, q, p, v, valid) ==
  /\ HasPaxos(a)
  /\ LET s == Decision(a)
         t == AcceptState(s, q, p, v)
         r == AcceptReply(s, q, p)
     IN  \/ /\ ~valid /\ v \in Values /\ CurrentValue(s) # None
            /\ Only(Loaded(a))
         \/ /\ valid /\ r.type = "minimum"
            /\ Save(Put(Loaded(a), a, t), a, t,
                    IF r.proposal = p THEN [told[a] EXCEPT !.accepted = Latest(@, p)]
                    ELSE told[a])
         \/ /\ valid /\ r.type # "minimum"
            /\ Only(Loaded(a))
  /\ UNCHANGED <<threads, bounds>>

\* _remove; _quorums keeps its entry.
Forget(m, a) ==
  [Dropped(m, a) EXCEPT !.node_blocks = {nb \in @ : nb[2] # a}]

Removed(m, s, a) ==
  /\ mem' = Forget(m, a)
  /\ silo' = Erase(s, a)
  /\ told' = [b \in Mutable |-> IF b = a THEN Silent ELSE told[b]]

\* The quorum the indexes are to follow, None if it does not change.
NewQuorum(s, t) ==
  IF CurrentValue(s) = None THEN CurrentQuorum(t)
  ELSE IF t.accepted # None /\ IsQuorum(t.accepted.value) THEN t.accepted.value
  ELSE None

\* Nothing tells a confirm from one for what this server accepted.
Confirm(a, q, p) ==
  /\ HasPaxos(a)
  /\ LET s == Decision(a)
         t == ConfirmState(s, q, p)
         m == Put(Loaded(a), a, t)
         w == Set(silo, a, t, Size(t))
         new == NewQuorum(s, t)
     IN  \/ ConfirmReply(s, q, p).type # "done" /\ Only(Loaded(a))
         \/ /\ ConfirmReply(s, q, p).type = "done"
            /\ ~Fits(silo, a, Size(t))
            /\ Only(m)
         \/ /\ ConfirmReply(s, q, p).type = "done"
            /\ Fits(silo, a, Size(t))
            /\ \/ new = None /\ mem' = m /\ silo' = w /\ UNCHANGED told
               \/ new # None /\ Me \notin new /\ Removed(m, w, a)
               \/ /\ new # None /\ Me \in new
                  /\ mem' = IF CurrentValue(t) # None
                            THEN Schedule(Cache(m, a, new), a, new) ELSE Cache(m, a, new)
                  /\ silo' = w /\ UNCHANGED told
  /\ UNCHANGED <<threads, bounds>>

Get(a) ==
  /\ HasPaxos(a)
  /\ Only(Loaded(a))
  /\ UNCHANGED <<threads, bounds>>

\* The value of a block comes with the election of q at p; each of the three
\* calls may throw, and leaves in memory what those before it did.  The answer
\* to the accept is not looked at.
Propagate(a, q, v, p) ==
  /\ ~InMemory(a)
  /\ HasPaxos(a) \/ MissingKey(a)
  /\ LET s == IF HasPaxos(a) THEN Decision(a) ELSE NewServer(q, v)
         m == Insert(mem, a, s)
         t == ProposeState(s, q, p)
         u == AcceptState(t, q, p, q)
         w == ConfirmState(u, q, p)
     IN  \/ ProposeReply(s, q, p).type # "response" /\ Only(m)
         \/ /\ ProposeReply(s, q, p).type = "response"
            /\ AcceptReply(t, q, p).type # "minimum"
            /\ Only(Put(m, a, t))
         \/ /\ ProposeReply(s, q, p).type = "response"
            /\ AcceptReply(t, q, p).type = "minimum"
            /\ IF ConfirmReply(u, q, p).type = "done"
               THEN Save(Put(m, a, w), a, w, told[a])
               ELSE Only(Put(m, a, u))
  /\ UNCHANGED <<threads, bounds>>

\* remove; `valid' is whether the signature allows it, asked if there is a value.
Remove(a, valid) ==
  /\ HasPaxos(a)
  /\ valid \/ CurrentValue(Decision(a)) # None
  /\ IF valid /\ Exists(silo, a) THEN Removed(Loaded(a), silo, a) ELSE Only(Loaded(a))
  /\ UNCHANGED <<threads, bounds>>

\* reconcile holds the decision while it asks the others for their state, and
\* removes the block if they do not have it.  A removal signed by a group, which
\* validate_remove has to fetch, waits and ends in the same way.
Reconcile(a) ==
  /\ HasPaxos(a) /\ a \notin reconciling
  /\ reconciling' = reconciling \cup {a}
  /\ Only(Loaded(a))
  /\ UNCHANGED <<loading, churned, jobs, bounds>>

Reconciled(a, trailing) ==
  /\ a \in reconciling
  /\ reconciling' = reconciling \ {a}
  /\ IF trailing /\ Exists(silo, a) THEN Removed(mem, silo, a) ELSE Only(mem)
  /\ UNCHANGED <<loading, churned, jobs, bounds>>

-----------------------------------------------------------------------------
(* Immutable blocks.                                                       *)

\* STORE_INSERT, or STORE_UPDATE where the block is stored already.
Store(a) ==
  /\ ~Exists(silo, a) \/ Holds(a, Block)
  /\ Fits(silo, a, 1)
  /\ silo' = Set(silo, a, Block, 1)
  /\ UNCHANGED <<mem, threads, told, bounds>>

\* Threads read the block and wait for its owners, any number of them: whichever
\* is done, others may still wait.
LookUp(a) ==
  /\ Holds(a, Block) /\ mem.quorums[a] = None
  /\ loading' = loading \cup {a}
  /\ UNCHANGED <<silo, mem, reconciling, churned, jobs, told, bounds>>

ConfirmBlock(a, found, q) ==
  /\ BlockLoads(a, found)
  /\ LET m == LoadedBlock(a, found) IN Only(Schedule(Cache(m, a, q), a, q))
  /\ UNCHANGED <<threads, bounds>>

RemoveBlock(a, found) ==
  /\ BlockLoads(a, found)
  /\ LET m == LoadedBlock(a, found)
     IN  IF Exists(silo, a) THEN Removed(m, silo, a) ELSE Only(m)
  /\ UNCHANGED <<threads, bounds>>

-----------------------------------------------------------------------------
(* The inspector: when the process starts, it loads every block of the     *)
(* silo so that those with too few replicas are scheduled.  It gives up on *)
(* the first it cannot load.                                               *)

InspectPaxos(a) ==
  /\ HasPaxos(a)
  /\ LET m == Loaded(a)
     IN  Only(IF UnderReplicated(m.quorums[a]) THEN m ELSE Dropped(m, a))
  /\ inspecting' = inspecting \ {a}

InspectBlock(a, found) ==
  /\ BlockLoads(a, found)
  /\ Only(LoadedBlock(a, found))
  /\ inspecting' = inspecting \ {a}

InspectFails(a) ==
  /\ MissingKey(a) \/ Holds(a, Torn)
  /\ inspecting' = {}
  /\ UNCHANGED <<mem, silo, told>>

Inspect(a, found) ==
  /\ a \in inspecting
  /\ InspectPaxos(a) \/ InspectBlock(a, found) \/ InspectFails(a)
  /\ UNCHANGED <<waits, churned, evicting, spreading, running, bounds>>

-----------------------------------------------------------------------------
(* Nodes that come and go.                                                 *)

Discovered(n) ==
  /\ n \notin nodes /\ churn + 2 * crashes < MaxChurn
  /\ nodes' = nodes \cup {n}
  /\ timers' = timers \ {n}
  /\ mem' = [mem EXCEPT !.rebalancable = @ \cup {n}]
  /\ churn' = churn + 1
  /\ UNCHANGED <<silo, waits, expired, jobs, told, crashes>>

Disappeared(n) ==
  /\ n \in nodes
  /\ nodes' = nodes \ {n}
  /\ timers' = timers \cup {n}
  /\ UNCHANGED <<silo, mem, waits, expired, jobs, told, bounds>>

\* The timer expires: its callback is queued, and a node that comes back before
\* it runs does not cancel it.
Expire(n) ==
  /\ n \in timers \ expired
  /\ expired' = expired \cup {n}
  /\ UNCHANGED <<silo, mem, waits, nodes, timers, jobs, told, bounds>>

\* The thread that evicts n has these blocks left, and uses this decision.
Evicting(n, left, using) ==
  evicting' = [evicting EXCEPT ![n] = [left |-> left, using |-> using]]

\* The callback starts the thread that evicts the node.
StartEviction(n) ==
  /\ n \in expired /\ evicting[n] = None
  /\ expired' = expired \ {n}
  /\ Evicting(n, {a \in Addresses : <<n, a>> \in mem.node_blocks}, None)
  /\ UNCHANGED <<silo, mem, waits, nodes, timers, inspecting, spreading, running, told, bounds>>

\* Fault: a node gone from an immutable block's quorum is not replaced.
EvictFromBlockQuietly(a, n) == Cache(mem, a, mem.quorums[a] \ {n})

\* Fault: the quorum is changed in a copy.
EvictFromBlockCopy(a, n) == mem

EvictFromBlock(a, n) ==
  LET q == mem.quorums[a] \ {n}
  IN  IF n \in mem.quorums[a] THEN Schedule(Cache(mem, a, q), a, q) ELSE mem

\* _disappeared_evict loads the next block that n had, and for a mutable block
\* elects a quorum without n: the thread waits, using the decision it loaded.
Evict(n, a) ==
  /\ evicting[n] # None
  /\ evicting[n].using = None /\ a \in evicting[n].left
  /\ \/ /\ HasPaxos(a)
        /\ Only(Loaded(a))
        /\ Evicting(n, evicting[n].left \ {a},
                    IF n \in CurrentQuorum(Decision(a)) THEN a ELSE None)
        /\ UNCHANGED running
     \/ /\ Holds(a, Block)
        /\ Only(EvictFromBlock(a, n))
        /\ Evicting(n, evicting[n].left \ {a}, None)
        /\ UNCHANGED running
     \/ /\ MissingKey(a)
        /\ running' = FALSE
        /\ UNCHANGED <<mem, silo, told, evicting>>
  /\ UNCHANGED <<waits, churned, inspecting, spreading, bounds>>

\* The election ends, well or not.
Elected(n) ==
  /\ evicting[n] # None /\ evicting[n].using # None
  /\ Evicting(n, evicting[n].left, None)
  /\ UNCHANGED <<silo, mem, waits, churned, inspecting, spreading, running, told, bounds>>

EvictionDone(n) ==
  /\ evicting[n] = [left |-> {}, using |-> None]
  /\ evicting' = [evicting EXCEPT ![n] = None]
  /\ UNCHANGED <<silo, mem, waits, churned, inspecting, spreading, running, told, bounds>>

-----------------------------------------------------------------------------
(* The thread that rebalances (_rebalance).                                *)

Taken(m, x) == [m EXCEPT !.rebalancable = @ \ {x}]

\* A block: once it is out of the channel it is loaded, and elections or stores
\* follow.
RebalanceBlock(a) ==
  /\ spreading = None /\ a \in mem.rebalancable
  /\ LET m == Taken(mem, a) IN Only(IF HasPaxos(a) THEN Load(m, a) ELSE m)
  /\ UNCHANGED <<threads, bounds>>

\* The blocks with too few replicas that n does not have.
Targets(n) ==
  {a \in Addresses : /\ mem.quorums[a] # None
                     /\ UnderReplicated(mem.quorums[a])
                     /\ n \notin mem.quorums[a]}

\* Fault: the thread does not go on when nothing is left.
SpreadingOn(n, left) == [node |-> n, left |-> left]

Spreading(n, left) == IF left = {} THEN None ELSE [node |-> n, left |-> left]

\* A node: the blocks it may get, one at a time.
RebalanceNode(n) ==
  /\ spreading = None /\ n \in mem.rebalancable
  /\ spreading' = Spreading(n, Targets(n))
  /\ Only(Taken(mem, n))
  /\ UNCHANGED <<waits, churned, inspecting, evicting, running, bounds>>

Gone(n) == n \notin nodes \/ n \in timers

\* The next target, unless the node is gone.  A mutable block that is not in
\* memory is skipped.
Spread(a) ==
  /\ spreading # None /\ a \in spreading.left
  /\ spreading' = Spreading(spreading.node,
                            IF Gone(spreading.node) THEN {} ELSE spreading.left \ {a})
  /\ UNCHANGED <<silo, mem, waits, churned, inspecting, evicting, running, told, bounds>>

-----------------------------------------------------------------------------
(* The process dies and starts again with what is in the silo.             *)

Restart(files) ==
  /\ crashes < MaxCrashes /\ crashes' = crashes + 1
  /\ silo' = Recover(files) /\ mem' = Blank
  /\ reconciling' = {} /\ loading' = {} /\ inspecting' = DOMAIN files
  /\ nodes' = {} /\ timers' = {} /\ expired' = {}
  /\ evicting' = [n \in Nodes |-> None] /\ spreading' = None /\ running' = TRUE
  /\ UNCHANGED <<told, churn>>

Crash == Restart(silo.files)

\* In the middle of a write: _set truncates the file it writes over.
CrashInSet(a, size) ==
  /\ running
  /\ \/ a \in Mutable /\ (HasPaxos(a) \/ MissingKey(a))
     \/ a \in Immutable /\ ~Exists(silo, a)
  /\ Fits(silo, a, size)
  /\ Restart(Filed(silo.files, a, [data |-> Torn, size |-> size]))

-----------------------------------------------------------------------------
\* A request comes from a client of a quorum this peer is in.
Requested(a) == {q \in Quora[a] : Me \in q}
Owners(a) == Quora[a] \cup {None}

ClientStep ==
  \/ \E a \in Mutable : \E p \in Calls[a], q \in Requested(a) :
       \/ \E insert \in BOOLEAN : Propose(a, q, p, insert)
       \/ \E v \in Values \cup Quora[a], valid \in BOOLEAN : Accept(a, q, p, v, valid)
       \/ Confirm(a, q, p)
       \/ \E v \in Values : Propagate(a, q, v, p)
  \/ \E a \in Mutable :
       \/ Get(a)
       \/ \E valid \in BOOLEAN : Remove(a, valid)
       \/ Reconcile(a)
       \/ \E trailing \in BOOLEAN : Reconciled(a, trailing)
  \/ \E a \in Immutable :
       \/ Store(a)
       \/ LookUp(a)
       \/ \E found \in Owners(a) : \/ \E q \in Requested(a) : ConfirmBlock(a, found, q)
                                 \/ RemoveBlock(a, found)

ThreadStep ==
  \/ \E a \in Addresses :
       \/ \E found \in Owners(a) : Inspect(a, found)
       \/ RebalanceBlock(a)
       \/ Spread(a)
  \/ \E n \in Nodes :
       \/ Discovered(n) \/ Disappeared(n) \/ Expire(n)
       \/ StartEviction(n) \/ Elected(n) \/ EvictionDone(n) \/ RebalanceNode(n)
       \/ \E a \in Addresses : Evict(n, a)

Next ==
  \/ running /\ (ClientStep \/ ThreadStep)
  \/ Crash
  \/ \E a \in Addresses, size \in 0..1 : CrashInSet(a, size)

Spec == Init /\ [][Next]_vars

\* Timers and threads run, and elections end; nobody has to call.
Eviction(n) ==
  \/ StartEviction(n) \/ Elected(n) \/ EvictionDone(n)
  \/ \E a \in Addresses : Evict(n, a)
LiveSpec == Spec /\ \A n \in Nodes : WF_vars(running /\ Eviction(n))

-----------------------------------------------------------------------------
(* Properties.                                                             *)

\* The variables have the values they are meant to have.
TypeOK ==
  /\ SiloType(silo, Data) /\ mem \in Memory
  /\ told \in [Mutable -> Answer]
  /\ reconciling \subseteq Mutable /\ loading \subseteq Immutable
  /\ inspecting \subseteq Addresses
  /\ nodes \subseteq Nodes /\ timers \subseteq Nodes /\ expired \subseteq Nodes
  /\ evicting \in [Nodes -> Thread \cup {None}]
  /\ spreading \in Target \cup {None}
  /\ running \in BOOLEAN
  /\ crashes \in 0..MaxCrashes /\ churn \in 0..MaxChurn

\* Decision s has not gone back on what this peer answered about a block.
Honours(s, answer) ==
  /\ answer.promised # None => Promised(s, answer.promised)
  /\ answer.accepted # None =>
       Promised(s, answer.accepted) /\ AcceptedOrPast(s, answer.accepted)

\* What the peer promised and accepted in its answers is kept until the block
\* is removed, in the silo and in memory, across the unloading of decisions,
\* writes that fail as the silo is full, and crashes.  The file of a write cut
\* short is the exception: it cannot be loaded, so the peer answers nothing.
KeepsItsWord ==
  \A a \in Mutable : told[a] # Silent =>
    /\ Exists(silo, a)
    /\ ~Holds(a, Torn) => Honours(silo.files[a].data, told[a])
    /\ InMemory(a) => Honours(mem.decisions[a], told[a])

\* The sizes the silo remembers and its count of blocks are those of the files
\* it has.
SiloCounts == Accounted(silo)

\* The space the silo counts as used is that of its files, and never more than
\* its capacity.
SiloSpace ==
  /\ silo.usage = Space(silo.files)
  /\ silo.usage \in 0..Capacity

\* The index of the blocks of each node is the inverse of the index of the
\* quorum of each block, but for the blocks that were removed; a decision in
\* memory has a quorum in the index, as the inspector asserts.
IndexesAgree ==
  /\ \A nb \in mem.node_blocks :
       mem.quorums[nb[2]] # None /\ nb[1] \in mem.quorums[nb[2]]
  /\ \A a \in Addresses : InMemory(a) =>
       mem.quorums[a] # None /\ mem.quorums[a] \X {a} \subseteq mem.node_blocks

\* A step that leaves a block with too few replicas in the index schedules it,
\* if it is immutable or had a value: no loss of a replica goes unnoticed.
LossIsNoticed ==
  [][\A a \in Addresses :
       /\ mem'.quorums[a] \notin {None, mem.quorums[a]}
       /\ UnderReplicated(mem'.quorums[a])
       /\ a \in Immutable \/ (HasPaxos(a) /\ CurrentValue(Decision(a)) # None)
       => a \in mem'.rebalancable]_vars

\* Once the delay of a lost node has expired, it leaves the quorum of every
\* immutable block it is known to have.
LostIsEvicted ==
  \A n \in Nodes, a \in Immutable :
    n \in expired /\ <<n, a>> \in mem.node_blocks
      ~> <<n, a>> \notin mem.node_blocks \/ ~running

=============================================================================
