-------------------------- MODULE LocalPeerProofs --------------------------
(***************************************************************************)
(* Proofs about a node's own peer: it keeps its word (KeepsItsWord), its   *)
(* indexes agree (IndexesAgree), and it schedules the blocks that lose     *)
(* replicas (LossIsNoticed).  What it does to its silo, and the types, are *)
(* in SiloProofs.                                                          *)
(*                                                                         *)
(* The inductive invariant is about each block apart: the decision in      *)
(* memory and the file, if any, are servers that honour what was answered, *)
(* and there is a file once something was.                                 *)
(***************************************************************************)
EXTENDS LocalPeer, PaxosServerProofs

\* The provers each leaf is tried with in turn, and the seconds each is given.
USE ZenonT(3), SMTT(30), ZenonT(30)

-----------------------------------------------------------------------------
(* Silo.                                                                   *)

Shaped(s) ==
  /\ s = [files |-> s.files, sizes |-> s.sizes, usage |-> s.usage, count |-> s.count]
  /\ s.files = [k \in DOMAIN s.files |-> s.files[k]]
  /\ DOMAIN s.files \subseteq Addresses

\* A file is added, or written over; the others are left alone.
LEMMA SetShaped ==
  ASSUME NEW s, Shaped(s), NEW k \in Addresses, NEW data, NEW size
  PROVE  LET t == Set(s, k, data, size)
         IN  /\ Shaped(t)
             /\ DOMAIN t.files = DOMAIN s.files \cup {k}
             /\ t.files[k].data = data
             /\ \A j \in DOMAIN s.files \ {k} : t.files[j] = s.files[j]
<1> DEFINE t == Set(s, k, data, size)
<1>1. /\ t.files = [j \in DOMAIN s.files \cup {k} |->
                     IF j = k THEN [data |-> data, size |-> size] ELSE s.files[j]]
      /\ t = [files |-> t.files, sizes |-> t.sizes, usage |-> t.usage, count |-> t.count]
  BY DEF Set, Filed
<1>2. Shaped(t)
  BY <1>1 DEF Shaped
<1> HIDE DEF t
<1> QED BY <1>1, <1>2 DEF t

\* The file goes, the others are left alone.
LEMMA EraseShaped ==
  ASSUME NEW s, Shaped(s), NEW k \in DOMAIN s.files
  PROVE  LET t == Erase(s, k)
         IN  /\ Shaped(t)
             /\ DOMAIN t.files = DOMAIN s.files \ {k}
             /\ \A j \in DOMAIN t.files : t.files[j] = s.files[j]
<1> DEFINE t == Erase(s, k)
<1>1. /\ t.files = [j \in DOMAIN s.files \ {k} |-> s.files[j]]
      /\ t = [files |-> t.files, sizes |-> t.sizes, usage |-> t.usage, count |-> t.count]
  BY DEF Erase, Unfiled
<1>2. Shaped(t)
  BY <1>1 DEF Shaped
<1> HIDE DEF t
<1> QED BY <1>1, <1>2 DEF t

\* The constructor takes the files it reads.
LEMMA RecoverShaped ==
  ASSUME NEW files, files = [k \in DOMAIN files |-> files[k]],
         DOMAIN files \subseteq Addresses
  PROVE  Shaped(Recover(files)) /\ Recover(files).files = files
BY DEF Recover, Shaped

-----------------------------------------------------------------------------
(* The decisions and the indexes in memory.                                *)

Whole(m) ==
  /\ m = [decisions |-> m.decisions, use |-> m.use, quorums |-> m.quorums,
          node_blocks |-> m.node_blocks, rebalancable |-> m.rebalancable]
  /\ m.decisions = [a \in Addresses |-> m.decisions[a]]
  /\ m.quorums \in [Addresses -> Quorums \cup {None}]
  /\ m.node_blocks \subseteq Servers \X Addresses

\* Block a has a quorum, and the node index has it.
Row(m, a) == m.quorums[a] # None /\ m.quorums[a] \X {a} \subseteq m.node_blocks

Indexed(m) ==
  /\ Whole(m)
  /\ \A nb \in m.node_blocks : m.quorums[nb[2]] # None /\ nb[1] \in m.quorums[nb[2]]
  /\ \A a \in Addresses : m.decisions[a] # None => Row(m, a)

\* n is m but for block a, of which the decision is s, and the decisions unloaded.
Derived(m, n, a, s) ==
  /\ Indexed(n)
  /\ n.decisions[a] \in {None, s}
  /\ \A b \in Addresses \ {a} : n.decisions[b] \in {None, m.decisions[b]}
  /\ \A b \in Addresses : m.quorums[b] # None => n.quorums[b] # None

\* _cache keeps the indexes inverse of each other.
LEMMA CacheIndexed ==
  ASSUME NEW m, Indexed(m), NEW a \in Addresses, NEW q \in Quorums
  PROVE  LET n == Cache(m, a, q)
         IN  /\ Indexed(n) /\ Row(n, a) /\ n.decisions = m.decisions
             /\ n.use = m.use /\ n.rebalancable = m.rebalancable
             /\ n.quorums = [m.quorums EXCEPT ![a] = q]
<1> DEFINE n == Cache(m, a, q)
           old == IF m.quorums[a] = None THEN {} ELSE m.quorums[a]
<1>1. n = [m EXCEPT !.quorums[a] = q,
                    !.node_blocks = (m.node_blocks \ (old \X {a})) \cup (q \X {a})]
  BY DEF Cache
<1>2. /\ n.quorums = [m.quorums EXCEPT ![a] = q]
      /\ n.node_blocks = (m.node_blocks \ (old \X {a})) \cup (q \X {a})
      /\ n.decisions = m.decisions /\ n.use = m.use /\ n.rebalancable = m.rebalancable
      /\ n = [decisions |-> n.decisions, use |-> n.use, quorums |-> n.quorums,
              node_blocks |-> n.node_blocks, rebalancable |-> n.rebalancable]
  BY <1>1 DEF Indexed, Whole
<1> HIDE DEF n
<1>3. Whole(n)
  BY <1>2 DEF Indexed, Whole, Quorums
<1>4. n.quorums[a] = q /\ \A b \in Addresses \ {a} : n.quorums[b] = m.quorums[b]
  BY <1>2 DEF Indexed, Whole
<1>5. q # None
  BY NoneAssumption
<1>6. Row(n, a)
  BY <1>2, <1>4, <1>5 DEF Row
<1>7. ASSUME NEW nb \in n.node_blocks
      PROVE  n.quorums[nb[2]] # None /\ nb[1] \in n.quorums[nb[2]]
  <2>1. nb \in Servers \X Addresses
    BY <1>3 DEF Whole
  <2>2. CASE nb \in q \X {a}
    BY <1>4, <1>5, <2>2
  <2>3. CASE nb \in m.node_blocks /\ nb \notin old \X {a}
    <3>1. m.quorums[nb[2]] # None /\ nb[1] \in m.quorums[nb[2]]
      BY <2>3 DEF Indexed
    <3>2. nb[2] # a
      BY <2>1, <2>3, <3>1
    <3> QED BY <1>4, <2>1, <3>1, <3>2
  <2> QED BY <1>2, <2>2, <2>3
<1>8. ASSUME NEW b \in Addresses, n.decisions[b] # None
      PROVE  Row(n, b)
  <2>1. CASE b = a
    BY <1>6, <2>1
  <2>2. CASE b # a
    BY <1>2, <1>4, <1>8, <2>2 DEF Indexed, Row
  <2> QED BY <2>1, <2>2
<1>9. Indexed(n)
  BY <1>3, <1>7, <1>8 DEF Indexed
<1> QED BY <1>2, <1>6, <1>9 DEF n

\* Scheduling leaves decisions and indexes alone.
LEMMA ScheduleIndexed ==
  ASSUME NEW m, Indexed(m), NEW a, NEW q
  PROVE  LET n == Schedule(m, a, q)
         IN  /\ Indexed(n) /\ n.decisions = m.decisions
             /\ n.quorums = m.quorums /\ n.node_blocks = m.node_blocks
<1>1. Schedule(m, a, q) \in {m, [m EXCEPT !.rebalancable = m.rebalancable \cup {a}]}
  BY DEF Schedule
<1> QED BY <1>1 DEF Indexed, Whole, Row

LEMMA TouchIndexed ==
  ASSUME NEW m, Indexed(m), NEW a
  PROVE  LET n == Touch(m, a)
         IN  /\ Indexed(n) /\ n.decisions = m.decisions
             /\ n.quorums = m.quorums /\ n.node_blocks = m.node_blocks
<1> DEFINE u == Append(Without(m.use, a), a)
<1>1. Touch(m, a) = [m EXCEPT !.use = u]
  BY DEF Touch
<1> HIDE DEF u
<1> QED BY <1>1 DEF Indexed, Whole, Row

LEMMA TakenIndexed ==
  ASSUME NEW m, Indexed(m), NEW x
  PROVE  LET n == Taken(m, x)
         IN  /\ Indexed(n) /\ n.decisions = m.decisions
             /\ n.quorums = m.quorums /\ n.node_blocks = m.node_blocks
<1>1. Taken(m, x) = [m EXCEPT !.rebalancable = m.rebalancable \ {x}]
  BY DEF Taken
<1> QED BY <1>1 DEF Indexed, Whole, Row

\* A decision may be put where the block has its row.
LEMMA PutIndexed ==
  ASSUME NEW m, Indexed(m), NEW a \in Addresses, Row(m, a), NEW s
  PROVE  LET n == Put(m, a, s)
         IN  /\ Indexed(n) /\ n.decisions = [m.decisions EXCEPT ![a] = s]
             /\ n.quorums = m.quorums /\ n.node_blocks = m.node_blocks
             /\ Row(n, a)
<1>1. Put(m, a, s) = [m EXCEPT !.decisions = [m.decisions EXCEPT ![a] = s]]
  BY DEF Put, Indexed, Whole
<1> QED BY <1>1 DEF Indexed, Whole, Row

LEMMA DropIndexed ==
  ASSUME NEW m, Indexed(m), NEW gone, NEW left
  PROVE  LET n == Drop(m, gone, left)
         IN  /\ Indexed(n)
             /\ n.quorums = m.quorums /\ n.node_blocks = m.node_blocks
             /\ \A a \in Addresses : /\ a \in gone => n.decisions[a] = None
                                     /\ a \notin gone => n.decisions[a] = m.decisions[a]
<1>1. Drop(m, gone, left) = [m EXCEPT
        !.decisions = [a \in Addresses |-> IF a \in gone THEN None ELSE m.decisions[a]],
        !.use = left]
  BY DEF Drop
<1> DEFINE n == Drop(m, gone, left)
<1>2. /\ n.decisions = [a \in Addresses |-> IF a \in gone THEN None ELSE m.decisions[a]]
      /\ n.quorums = m.quorums /\ n.node_blocks = m.node_blocks
      /\ n = [decisions |-> n.decisions, use |-> n.use, quorums |-> n.quorums,
              node_blocks |-> n.node_blocks, rebalancable |-> n.rebalancable]
  BY <1>1 DEF Indexed, Whole
<1> HIDE DEF n
<1>3. \A a \in Addresses : /\ a \in gone => n.decisions[a] = None
                           /\ a \notin gone => n.decisions[a] = m.decisions[a]
  BY <1>2
<1>4. Whole(n)
  BY <1>2 DEF Indexed, Whole
<1>5. Indexed(n)
  BY <1>2, <1>3, <1>4 DEF Indexed, Row
<1> QED BY <1>2, <1>3, <1>5 DEF n

\* _load_paxos: the block has its row, and the decision is the one loaded.
LEMMA InsertDerived ==
  ASSUME NEW m, Indexed(m), NEW a \in Addresses, NEW s, CurrentQuorum(s) \in Quorums
  PROVE  Derived(m, Insert(m, a, s), a, s) /\ Row(Insert(m, a, s), a)
<1> DEFINE q == CurrentQuorum(s)
           c == Cache(m, a, q)
           d == IF CurrentValue(s) # None THEN Schedule(c, a, q) ELSE c
           e == Touch(Put(d, a, s), a)
<1>1. Insert(m, a, s) = Unload(e)
  BY DEF Insert
<1>2. PICK gone, left : Unload(e) = Drop(e, gone, left)
  BY DEF Unload
<1>3. /\ Indexed(c) /\ Row(c, a) /\ c.decisions = m.decisions
      /\ c.quorums = [m.quorums EXCEPT ![a] = q]
  BY CacheIndexed
<1>4. /\ Indexed(d) /\ d.decisions = c.decisions
      /\ d.quorums = c.quorums /\ d.node_blocks = c.node_blocks
  <2> HIDE DEF c
  <2> QED BY <1>3, ScheduleIndexed
<1> HIDE DEF c, d
<1>5. Row(d, a)
  BY <1>3, <1>4 DEF Row
<1>6. /\ Indexed(Put(d, a, s)) /\ Put(d, a, s).quorums = d.quorums
      /\ Put(d, a, s).decisions = [d.decisions EXCEPT ![a] = s]
      /\ Row(Put(d, a, s), a)
  BY <1>4, <1>5, PutIndexed
<1>7. /\ Indexed(e) /\ e.decisions = [d.decisions EXCEPT ![a] = s]
      /\ e.quorums = d.quorums /\ Row(e, a)
  BY <1>6, TouchIndexed DEF Row
<1> HIDE DEF e
<1> DEFINE n == Drop(e, gone, left)
<1>8. /\ Indexed(n) /\ n.quorums = e.quorums /\ n.node_blocks = e.node_blocks
      /\ \A b \in Addresses : n.decisions[b] \in {None, e.decisions[b]}
  <2>1. Indexed(e)
    BY <1>7
  <2> QED BY <2>1, DropIndexed
<1> HIDE DEF n
<1>9. Row(n, a)
  BY <1>7, <1>8 DEF Row
<1>10. /\ e.decisions[a] = s
       /\ \A b \in Addresses \ {a} : e.decisions[b] = m.decisions[b]
  BY <1>3, <1>4, <1>7 DEF Indexed, Whole
<1>11. \A b \in Addresses : m.quorums[b] # None => n.quorums[b] # None
  BY <1>3, <1>4, <1>7, <1>8, NoneAssumption DEF Indexed, Whole
<1> QED BY <1>1, <1>2, <1>8, <1>9, <1>10, <1>11 DEF Derived, n

\* _load of a block that has a decision.
LEMMA LoadDerived ==
  ASSUME NEW m, Indexed(m), m.decisions = mem.decisions, NEW a \in Addresses,
         CurrentQuorum(Decision(a)) \in Quorums
  PROVE  Derived(m, Load(m, a), a, Decision(a)) /\ Row(Load(m, a), a)
<1>1. CASE InMemory(a)
  <2>1. Load(m, a) = Touch(m, a) /\ Decision(a) = m.decisions[a] /\ m.decisions[a] # None
    BY <1>1 DEF Load, Decision, InMemory
  <2>2. /\ Indexed(Touch(m, a)) /\ Touch(m, a).decisions = m.decisions
        /\ Touch(m, a).quorums = m.quorums /\ Touch(m, a).node_blocks = m.node_blocks
    BY TouchIndexed
  <2>3. Row(m, a)
    BY <2>1 DEF Indexed
  <2> QED BY <2>1, <2>2, <2>3 DEF Derived, Row
<1>2. CASE ~InMemory(a)
  <2>1. Load(m, a) = Insert(m, a, Decision(a))
    BY <1>2 DEF Load
  <2> QED BY <2>1, InsertDerived
<1> QED BY <1>1, <1>2

\* A decision put after a load.
LEMMA PutDerived ==
  ASSUME NEW m, NEW n, NEW a \in Addresses, NEW s, NEW t, Derived(m, n, a, s), Row(n, a)
  PROVE  Derived(m, Put(n, a, t), a, t) /\ Row(Put(n, a, t), a)
<1>1. /\ Indexed(Put(n, a, t)) /\ Put(n, a, t).decisions = [n.decisions EXCEPT ![a] = t]
      /\ Put(n, a, t).quorums = n.quorums /\ Row(Put(n, a, t), a)
  BY PutIndexed DEF Derived
<1> QED BY <1>1 DEF Derived, Indexed, Whole

\* A quorum indexed and scheduled, or not, after a load.
LEMMA CacheDerived ==
  ASSUME NEW m, NEW n, NEW a \in Addresses, NEW s, Derived(m, n, a, s), NEW q \in Quorums
  PROVE  /\ Derived(m, Cache(n, a, q), a, s)
         /\ Derived(m, Schedule(Cache(n, a, q), a, q), a, s)
<1> DEFINE c == Cache(n, a, q)
<1>1. /\ Indexed(c) /\ c.decisions = n.decisions /\ c.quorums = [n.quorums EXCEPT ![a] = q]
  BY CacheIndexed DEF Derived
<1> HIDE DEF c
<1>2. Derived(m, c, a, s)
  BY <1>1, NoneAssumption DEF Derived, Indexed, Whole
<1>3. /\ Indexed(Schedule(c, a, q)) /\ Schedule(c, a, q).decisions = c.decisions
      /\ Schedule(c, a, q).quorums = c.quorums
  BY <1>1, ScheduleIndexed
<1>4. Derived(m, Schedule(c, a, q), a, s)
  BY <1>2, <1>3 DEF Derived
<1> QED BY <1>2, <1>4 DEF c

\* _remove leaves no decision and no row.
LEMMA ForgetDerived ==
  ASSUME NEW m, NEW n, NEW a \in Addresses, NEW s, Derived(m, n, a, s)
  PROVE  Derived(m, Forget(n, a), a, None)
<1> DEFINE d == Dropped(n, a)
           f == Forget(n, a)
<1>1. /\ Indexed(d) /\ d.quorums = n.quorums /\ d.node_blocks = n.node_blocks
      /\ \A b \in Addresses : /\ b \in {a} => d.decisions[b] = None
                              /\ b \notin {a} => d.decisions[b] = n.decisions[b]
  BY DropIndexed DEF Derived, Dropped
<1>2. f = [d EXCEPT !.node_blocks = {nb \in d.node_blocks : nb[2] # a}]
  BY DEF Forget
<1> HIDE DEF d, f
<1>3. /\ f.decisions = d.decisions /\ f.quorums = d.quorums
      /\ f.node_blocks = {nb \in d.node_blocks : nb[2] # a} /\ Whole(f)
  BY <1>1, <1>2 DEF Indexed, Whole
<1>4. ASSUME NEW b \in Addresses, f.decisions[b] # None
      PROVE  Row(f, b)
  <2>1. b # a /\ Row(d, b)
    BY <1>1, <1>3, <1>4 DEF Indexed
  <2> QED BY <1>3, <2>1 DEF Row
<1>5. Indexed(f)
  BY <1>1, <1>3, <1>4 DEF Indexed
<1> QED BY <1>1, <1>3, <1>5 DEF Derived, f

-----------------------------------------------------------------------------
(* The inductive invariant.                                                *)

\* A server that honours what was answered.
Good(s, answer) == s \in Server /\ WithinPromise(s) /\ Honours(s, answer)

Kept ==
  /\ Shaped(silo) /\ Indexed(mem)
  /\ told \in [Mutable -> Answer]
  /\ \A a \in Mutable :
       /\ mem.decisions[a] # None => Good(mem.decisions[a], told[a])
       /\ a \in DOMAIN silo.files =>
            silo.files[a].data = Torn \/ Good(silo.files[a].data, told[a])
       /\ told[a] # Silent => a \in DOMAIN silo.files
  /\ \A a \in Immutable :
       /\ mem.decisions[a] = None
       /\ a \in DOMAIN silo.files => silo.files[a].data \in {Block, Torn}

\* A block under eviction has a quorum.
Known ==
  /\ loading \subseteq Immutable
  /\ evicting \in [Nodes -> Thread \cup {None}]
  /\ \A n \in Nodes : evicting[n] # None =>
       \A a \in evicting[n].left : mem.quorums[a] # None

Invariant == Kept /\ Known

\* No step but a restart takes a block's quorum out of the index.
StillKnown == \A b \in Addresses : mem.quorums[b] # None => mem'.quorums[b] # None

-----------------------------------------------------------------------------
(* What the invariant says of the decision a handler loads.                *)

LEMMA AddressKinds == \A a \in Addresses : (a \in Mutable) # (a \in Immutable)
BY DEF Mutable

LEMMA ImmutableAddresses == Immutable \subseteq Addresses /\ Mutable \subseteq Addresses
BY PeerAssumption DEF Mutable

LEMMA CurrentQuorumType ==
  ASSUME NEW s \in Server
  PROVE  CurrentQuorum(s) \in Quorums
BY DEF CurrentQuorum, ConfirmedQuorum, Confirmed, IsQuorum, Server, Accepted, Value

LEMMA DecisionGood ==
  ASSUME Kept, NEW a \in Addresses, HasPaxos(a)
  PROVE  a \in Mutable /\ Good(Decision(a), told[a]) /\ CurrentQuorum(Decision(a)) \in Quorums
<1>1. a \in Mutable
  BY AddressKinds DEF Kept, HasPaxos, InMemory, Exists
<1>2. Good(Decision(a), told[a])
  BY <1>1 DEF Kept, HasPaxos, InMemory, Exists, Decision
<1> QED BY <1>1, <1>2, CurrentQuorumType DEF Good

LEMMA LoadedGood ==
  ASSUME Kept, NEW a \in Addresses, HasPaxos(a)
  PROVE  Derived(mem, Loaded(a), a, Decision(a)) /\ Row(Loaded(a), a)
BY DecisionGood, LoadDerived DEF Loaded, Kept

\* Where there is no file, nothing was answered.
LEMMA MissingIsSilent ==
  ASSUME Kept, NEW a \in Mutable, MissingKey(a)
  PROVE  told[a] = Silent
BY DEF Kept, MissingKey, Exists

LEMMA NewGood ==
  ASSUME NEW q \in Quorums, NEW v \in Values \cup {None}
  PROVE  Good(NewServer(q, v), Silent) /\ CurrentQuorum(NewServer(q, v)) = q
<1>1. NewServer(q, v) \in Server
  BY DEF NewServer, Server
<1>2. WithinPromise(NewServer(q, v))
  BY DEF WithinPromise, NewServer
<1>3. Honours(NewServer(q, v), Silent)
  BY DEF Honours, Silent
<1> QED BY <1>1, <1>2, <1>3 DEF Good, NewServer, CurrentQuorum, ConfirmedQuorum, Confirmed

\* A server that recalls a good one is good.
LEMMA GoodRecalls ==
  ASSUME NEW s, NEW t, NEW answer \in Answer, Good(s, answer), Recalls(s, t)
  PROVE  Good(t, answer)
<1>1. answer.promised \in Proposal \cup {None} /\ answer.accepted \in Proposal \cup {None}
  BY DEF Answer
<1> QED BY <1>1 DEF Good, Honours, Recalls

-----------------------------------------------------------------------------
(* The ways a handler ends.                                                *)

LEMMA OnlyKeeps ==
  ASSUME Kept, NEW a \in Addresses, NEW m, NEW s, Derived(mem, m, a, s), Only(m),
         s # None => a \in Mutable /\ Good(s, told[a])
  PROVE  Kept' /\ StillKnown
<1>1. mem' = m /\ silo' = silo /\ told' = told
  BY DEF Only
<1>2. Shaped(silo)' /\ Indexed(mem)' /\ (told \in [Mutable -> Answer])'
  BY <1>1 DEF Kept, Derived
<1>3. ASSUME NEW b \in Mutable, m.decisions[b] # None
      PROVE  Good(m.decisions[b], told[b])
  BY <1>3, ImmutableAddresses DEF Derived, Kept
<1>4. ASSUME NEW b \in Immutable
      PROVE  m.decisions[b] = None
  BY AddressKinds, ImmutableAddresses DEF Derived, Kept
<1>5. StillKnown
  BY <1>1 DEF StillKnown, Derived
<1>6. Kept'
  BY <1>1, <1>2, <1>3, <1>4 DEF Kept
<1> QED BY <1>5, <1>6

LEMMA SaveKeeps ==
  ASSUME Kept, NEW a \in Mutable, NEW m, NEW t, NEW w \in Answer, Derived(mem, m, a, t),
         Good(t, told[a]), Good(t, w), Save(m, a, t, w)
  PROVE  Kept' /\ StillKnown
<1>1. CASE UNCHANGED <<silo, told>>
  <2>1. Only(m)
    BY <1>1 DEF Save, Only
  <2> QED BY <2>1, OnlyKeeps, ImmutableAddresses
<1>2. CASE silo' = Set(silo, a, t, Size(t)) /\ told' = [told EXCEPT ![a] = w]
  <2> DEFINE u == Set(silo, a, t, Size(t))
  <2>1. mem' = m
    BY DEF Save
  <2>2. /\ Shaped(u) /\ DOMAIN u.files = DOMAIN silo.files \cup {a}
        /\ u.files[a].data = t
        /\ \A j \in DOMAIN silo.files \ {a} : u.files[j] = silo.files[j]
    BY SetShaped, ImmutableAddresses DEF Kept
  <2> HIDE DEF u
  <2>3. told \in [Mutable -> Answer]
    BY DEF Kept
  <2>4. told' \in [Mutable -> Answer] /\ told'[a] = w /\ \A b \in Mutable \ {a} : told'[b] = told[b]
    BY <1>2, <2>3
  <2>5. ASSUME NEW b \in Mutable
        PROVE  /\ m.decisions[b] # None => Good(m.decisions[b], told'[b])
               /\ b \in DOMAIN u.files =>
                    u.files[b].data = Torn \/ Good(u.files[b].data, told'[b])
               /\ told'[b] # Silent => b \in DOMAIN u.files
    <3>1. CASE b = a
      BY <2>2, <2>4, <3>1 DEF Derived
    <3>2. CASE b # a
      <4>1. b \in Addresses \ {a} /\ m.decisions[b] \in {None, mem.decisions[b]}
        BY <3>2, ImmutableAddresses DEF Derived
      <4> QED BY <2>2, <2>4, <3>2, <4>1 DEF Kept
    <3> QED BY <3>1, <3>2
  <2>6. ASSUME NEW b \in Immutable
        PROVE  /\ m.decisions[b] = None
               /\ b \in DOMAIN u.files => u.files[b].data \in {Block, Torn}
    <3>1. b # a /\ b \in Addresses
      BY AddressKinds, ImmutableAddresses
    <3>2. m.decisions[b] \in {None, mem.decisions[b]}
      BY <3>1 DEF Derived
    <3> QED BY <2>2, <3>1, <3>2 DEF Kept
  <2>7. StillKnown
    BY <2>1 DEF StillKnown, Derived
  <2>8. silo' = u
    BY <1>2 DEF u
  <2>9. Kept'
    BY <2>1, <2>2, <2>4, <2>5, <2>6, <2>8 DEF Kept, Derived
  <2> QED BY <2>7, <2>9
<1> QED BY <1>1, <1>2 DEF Save

LEMMA RemovedKeeps ==
  ASSUME Kept, NEW a \in Addresses, NEW m, NEW s, Derived(mem, m, a, s), NEW r, Shaped(r),
         DOMAIN r.files = DOMAIN silo.files \cup {a},
         \A j \in DOMAIN silo.files \ {a} : r.files[j] = silo.files[j],
         Removed(m, r, a)
  PROVE  Kept' /\ StillKnown
<1> DEFINE f == Forget(m, a)
           u == Erase(r, a)
<1>1. /\ mem' = f /\ silo' = u
      /\ told' = [b \in Mutable |-> IF b = a THEN Silent ELSE told[b]]
  BY DEF Removed
<1>2. Derived(mem, f, a, None)
  BY ForgetDerived
<1>3. /\ Shaped(u) /\ DOMAIN u.files = DOMAIN silo.files \ {a}
      /\ \A j \in DOMAIN u.files : u.files[j] = silo.files[j]
  BY EraseShaped
<1> HIDE DEF f, u
<1>4. Silent \in Answer
  BY DEF Silent, Answer
<1>5. /\ told' \in [Mutable -> Answer]
      /\ a \in Mutable => told'[a] = Silent
      /\ \A b \in Mutable \ {a} : told'[b] = told[b]
  BY <1>1, <1>4 DEF Kept
<1>6. ASSUME NEW b \in Mutable
      PROVE  /\ f.decisions[b] # None => Good(f.decisions[b], told'[b])
             /\ b \in DOMAIN u.files =>
                  u.files[b].data = Torn \/ Good(u.files[b].data, told'[b])
             /\ told'[b] # Silent => b \in DOMAIN u.files
  <2>1. CASE b = a
    BY <1>2, <1>3, <1>5, <2>1 DEF Derived
  <2>2. CASE b # a
    <3>1. b \in Addresses \ {a} /\ f.decisions[b] \in {None, mem.decisions[b]}
      BY <1>2, <2>2, ImmutableAddresses DEF Derived
    <3> QED BY <1>3, <1>5, <2>2, <3>1 DEF Kept
  <2> QED BY <2>1, <2>2
<1>7. ASSUME NEW b \in Immutable
      PROVE  /\ f.decisions[b] = None
             /\ b \in DOMAIN u.files => u.files[b].data \in {Block, Torn}
  <2>1. b \in Addresses /\ f.decisions[b] \in {None, mem.decisions[b]}
    BY <1>2, ImmutableAddresses DEF Derived
  <2> QED BY <1>3, <2>1 DEF Kept
<1>8. StillKnown
  BY <1>1, <1>2 DEF StillKnown, Derived
<1>9. Kept'
  BY <1>1, <1>2, <1>3, <1>5, <1>6, <1>7 DEF Kept, Derived
<1> QED BY <1>8, <1>9

\* The block of a file that is there.
LEMMA RemovedFile ==
  ASSUME Kept, NEW a \in Addresses, NEW m, NEW s, Derived(mem, m, a, s), Exists(silo, a),
         Removed(m, silo, a)
  PROVE  Kept' /\ StillKnown
<1>1. DOMAIN silo.files = DOMAIN silo.files \cup {a}
  BY DEF Exists
<1> QED BY <1>1, RemovedKeeps DEF Kept

\* A memory that is as it was.
LEMMA SameDerived ==
  ASSUME Kept, NEW a \in Addresses
  PROVE  Derived(mem, mem, a, mem.decisions[a])
BY DEF Kept, Derived

-----------------------------------------------------------------------------
(* The calls of clients keep the invariant.                                *)

\* An answer to a proposal is honoured, with those before.
LEMMA AnswerPromise ==
  ASSUME NEW t, NEW w \in Answer, NEW p \in Proposal, Good(t, w), Promised(t, p)
  PROVE  /\ Good(t, [w EXCEPT !.promised = Latest(w.promised, p)])
         /\ [w EXCEPT !.promised = Latest(w.promised, p)] \in Answer
<1>1. Latest(w.promised, p) \in {p, w.promised} /\ Latest(w.promised, p) \in Proposal \cup {None}
  BY DEF Latest, Answer
<1> QED BY <1>1 DEF Good, Honours, Answer

LEMMA AnswerAccept ==
  ASSUME NEW t, NEW w \in Answer, NEW p \in Proposal, Good(t, w),
         Promised(t, p), AcceptedOrPast(t, p)
  PROVE  /\ Good(t, [w EXCEPT !.accepted = Latest(w.accepted, p)])
         /\ [w EXCEPT !.accepted = Latest(w.accepted, p)] \in Answer
<1>1. Latest(w.accepted, p) \in {p, w.accepted} /\ Latest(w.accepted, p) \in Proposal \cup {None}
  BY DEF Latest, Answer
<1> QED BY <1>1 DEF Good, Honours, Answer

LEMMA ProposeKeeps ==
  ASSUME Kept, NEW a \in Mutable, NEW q \in Quorums, NEW p \in Proposal,
         NEW insert \in BOOLEAN, Propose(a, q, p, insert)
  PROVE  Kept' /\ StillKnown
<1> DEFINE s == IF HasPaxos(a) THEN Decision(a) ELSE NewServer(q, None)
           m == IF HasPaxos(a) THEN Loaded(a) ELSE Insert(mem, a, s)
           t == ProposeState(s, q, p)
<1>0. a \in Addresses /\ told[a] \in Answer
  BY ImmutableAddresses DEF Kept
<1>1. Good(s, told[a]) /\ Derived(mem, m, a, s) /\ Row(m, a)
  <2>1. CASE HasPaxos(a)
    BY <1>0, <2>1, DecisionGood, LoadedGood
  <2>2. CASE ~HasPaxos(a)
    <3>1. told[a] = Silent
      BY <2>2, MissingIsSilent DEF Propose
    <3>2. Good(NewServer(q, None), Silent) /\ CurrentQuorum(NewServer(q, None)) = q
      BY NewGood
    <3>3. s = NewServer(q, None) /\ m = Insert(mem, a, NewServer(q, None))
      BY <2>2
    <3> QED BY <1>0, <3>1, <3>2, <3>3, InsertDerived DEF Kept
  <2> QED BY <2>1, <2>2
<1>2. CASE ProposeReply(s, q, p).type = "response"
  <2> DEFINE w == [told[a] EXCEPT !.promised = Latest(told[a].promised, p)]
  <2>1. Save(Put(m, a, t), a, t, w)
    BY <1>2 DEF Propose
  <2> HIDE DEF s, m
  <2>2. Recalls(s, t) /\ Promised(t, p)
    BY <1>1, <1>2, ProposeRecalls, ProposePromises DEF Good
  <2> HIDE DEF t
  <2>3. Good(t, told[a])
    BY <1>0, <1>1, <2>2, GoodRecalls
  <2>4. Good(t, w) /\ w \in Answer
    BY <1>0, <2>2, <2>3, AnswerPromise
  <2>5. Derived(mem, Put(m, a, t), a, t)
    BY <1>0, <1>1, PutDerived
  <2> HIDE DEF w
  <2> QED BY <2>1, <2>3, <2>4, <2>5, SaveKeeps
<1>3. CASE ProposeReply(s, q, p).type # "response"
  <2>1. Only(m)
    BY <1>3 DEF Propose
  <2> HIDE DEF s, m
  <2> QED BY <1>0, <1>1, <2>1, OnlyKeeps
<1> QED BY <1>2, <1>3

LEMMA AcceptKeeps ==
  ASSUME Kept, NEW a \in Mutable, NEW q \in Quorums, NEW p \in Proposal, NEW v \in Value,
         NEW valid \in BOOLEAN, Accept(a, q, p, v, valid)
  PROVE  Kept' /\ StillKnown
<1> DEFINE s == Decision(a)
           t == AcceptState(s, q, p, v)
           r == AcceptReply(s, q, p)
           w == IF r.proposal = p THEN [told[a] EXCEPT !.accepted = Latest(told[a].accepted, p)]
                ELSE told[a]
<1>0. a \in Addresses /\ told[a] \in Answer /\ HasPaxos(a)
  BY ImmutableAddresses DEF Kept, Accept
<1>1. Good(s, told[a]) /\ Derived(mem, Loaded(a), a, s) /\ Row(Loaded(a), a)
  BY <1>0, DecisionGood, LoadedGood
<1>2. CASE r.type = "minimum" /\ Save(Put(Loaded(a), a, t), a, t, w)
  <2> HIDE DEF s
  <2>1. /\ Recalls(s, t) /\ r.proposal \in Proposal
        /\ ~Less(p, r.proposal) => AcceptedOrPast(t, p)
    BY <1>1, <1>2, AcceptRecalls DEF Good
  <2>2. Good(t, told[a])
    BY <1>0, <1>1, <2>1, GoodRecalls
  <2>3. Good(t, w) /\ w \in Answer
    <3>1. CASE r.proposal = p
      <4>1. AcceptedOrPast(t, p)
        BY <2>1, <3>1, LessTotal
      <4>2. s.proposal = p
        BY <1>2, <3>1 DEF AcceptReply, WrongQuorum, Malicious
      <4>3. Promised(t, p)
        <5>1. Promised(s, p)
          BY <4>2, LessTotal, NoneAssumption DEF Promised
        <5> QED BY <2>1, <5>1 DEF Recalls
      <4> HIDE DEF t, r
      <4> QED BY <1>0, <2>2, <3>1, <4>1, <4>3, AnswerAccept
    <3>2. CASE r.proposal # p
      BY <1>0, <2>2, <3>2
    <3> QED BY <3>1, <3>2
  <2>4. Derived(mem, Put(Loaded(a), a, t), a, t)
    BY <1>0, <1>1, PutDerived
  <2> HIDE DEF t, w
  <2> QED BY <1>2, <2>2, <2>3, <2>4, SaveKeeps
<1>3. CASE Only(Loaded(a))
  <2> HIDE DEF s
  <2> QED BY <1>0, <1>1, <1>3, OnlyKeeps
<1> QED BY <1>2, <1>3 DEF Accept

\* A confirm changes nothing that was answered.
LEMMA ConfirmGood ==
  ASSUME NEW s, NEW w \in Answer, NEW q \in Quorums, NEW p \in Proposal, Good(s, w)
  PROVE  Good(ConfirmState(s, q, p), w)
BY ConfirmRecalls, GoodRecalls DEF Good

LEMMA ConfirmKeeps ==
  ASSUME Kept, NEW a \in Mutable, NEW q \in Quorums, NEW p \in Proposal, Confirm(a, q, p)
  PROVE  Kept' /\ StillKnown
<1> DEFINE s == Decision(a)
           t == ConfirmState(s, q, p)
           m == Put(Loaded(a), a, t)
           w == Set(silo, a, t, Size(t))
           new == NewQuorum(s, t)
<1>0. a \in Addresses /\ told[a] \in Answer /\ HasPaxos(a)
  BY ImmutableAddresses DEF Kept, Confirm
<1>1. Good(s, told[a]) /\ Derived(mem, Loaded(a), a, s) /\ Row(Loaded(a), a)
  BY <1>0, DecisionGood, LoadedGood
<1>2. Good(t, told[a])
  BY <1>0, <1>1, ConfirmGood
<1>3. Derived(mem, m, a, t)
  BY <1>0, <1>1, PutDerived
<1>4. new \in Quorums \cup {None}
  <2>1. t \in Server
    BY <1>2 DEF Good
  <2> HIDE DEF t, s
  <2>2. CurrentQuorum(t) \in Quorums
    BY <2>1, CurrentQuorumType
  <2>3. t.accepted # None /\ IsQuorum(t.accepted.value) => t.accepted.value \in Quorums
    BY <2>1 DEF Server, Accepted, Value, IsQuorum
  <2> QED BY <2>2, <2>3 DEF NewQuorum
<1>5. told = [told EXCEPT ![a] = told[a]]
  BY DEF Kept
<1>6. CASE Only(Loaded(a))
  <2> HIDE DEF s
  <2> QED BY <1>0, <1>1, <1>6, OnlyKeeps
<1>7. CASE Only(m)
  <2> HIDE DEF m, t
  <2> QED BY <1>0, <1>2, <1>3, <1>7, OnlyKeeps
<1>8. ASSUME NEW n, Derived(mem, n, a, t), mem' = n, silo' = w, UNCHANGED told,
             Fits(silo, a, Size(t))
      PROVE  Kept' /\ StillKnown
  <2>1. Save(n, a, t, told[a])
    BY <1>5, <1>8 DEF Save
  <2> HIDE DEF t
  <2> QED BY <1>0, <1>2, <1>8, <2>1, SaveKeeps
<1>9. CASE Removed(m, w, a)
  <2>1. /\ Shaped(w) /\ DOMAIN w.files = DOMAIN silo.files \cup {a}
        /\ \A j \in DOMAIN silo.files \ {a} : w.files[j] = silo.files[j]
    <3>1. Shaped(silo)
      BY <1>0 DEF Kept
    <3> HIDE DEF t
    <3> QED BY <1>0, <3>1, SetShaped
  <2> HIDE DEF m, w, t
  <2> QED BY <1>0, <1>3, <1>9, <2>1, RemovedKeeps
<1>10. CASE /\ new # None /\ silo' = w /\ UNCHANGED told /\ Fits(silo, a, Size(t))
            /\ mem' = IF CurrentValue(t) # None
                      THEN Schedule(Cache(m, a, new), a, new) ELSE Cache(m, a, new)
  <2>1. new \in Quorums
    BY <1>4, <1>10
  <2> HIDE DEF m, new, t, w
  <2>2. /\ Derived(mem, Cache(m, a, new), a, t)
        /\ Derived(mem, Schedule(Cache(m, a, new), a, new), a, t)
    BY <1>0, <1>3, <2>1, CacheDerived
  <2> QED BY <1>8, <1>10, <2>2
<1>11. CASE mem' = m /\ silo' = w /\ UNCHANGED told /\ Fits(silo, a, Size(t))
  BY <1>3, <1>8, <1>11
<1> QED BY <1>6, <1>7, <1>9, <1>10, <1>11 DEF Confirm

LEMMA PropagateKeeps ==
  ASSUME Kept, NEW a \in Mutable, NEW q \in Quorums, NEW v \in Values, NEW p \in Proposal,
         Propagate(a, q, v, p)
  PROVE  Kept' /\ StillKnown
<1> DEFINE s == IF HasPaxos(a) THEN Decision(a) ELSE NewServer(q, v)
           m == Insert(mem, a, s)
           t == ProposeState(s, q, p)
           u == AcceptState(t, q, p, q)
           w == ConfirmState(u, q, p)
<1>0. a \in Addresses /\ told[a] \in Answer /\ told[a] = [told EXCEPT ![a] = told[a]][a]
  BY ImmutableAddresses DEF Kept
<1>1. Good(s, told[a]) /\ CurrentQuorum(s) \in Quorums
  <2>1. CASE HasPaxos(a)
    BY <1>0, <2>1, DecisionGood
  <2>2. CASE ~HasPaxos(a)
    <3>1. told[a] = Silent
      BY <2>2, MissingIsSilent DEF Propagate
    <3> QED BY <2>2, <3>1, NewGood
  <2> QED BY <2>1, <2>2
<1>2. Derived(mem, m, a, s) /\ Row(m, a)
  <2> HIDE DEF s
  <2> QED BY <1>0, <1>1, InsertDerived DEF Kept
<1>3. Good(t, told[a])
  <2> HIDE DEF s
  <2>1. Recalls(s, t)
    BY <1>1, ProposeRecalls DEF Good
  <2> QED BY <1>0, <1>1, <2>1, GoodRecalls
<1>4. Good(u, told[a])
  <2> HIDE DEF t
  <2>1. Recalls(t, u)
    BY <1>3, AcceptRecalls DEF Good, Value
  <2> QED BY <1>0, <1>3, <2>1, GoodRecalls
<1>5. \A x : Derived(mem, Put(m, a, x), a, x)
  <2> HIDE DEF m, s
  <2> QED BY <1>0, <1>2, PutDerived
<1>6. CASE Only(m)
  <2> HIDE DEF m, s
  <2> QED BY <1>0, <1>1, <1>2, <1>6, OnlyKeeps
<1>7. CASE Only(Put(m, a, t))
  <2> HIDE DEF m, t
  <2> QED BY <1>0, <1>3, <1>5, <1>7, OnlyKeeps
<1>8. CASE Only(Put(m, a, u))
  <2> HIDE DEF m, u
  <2> QED BY <1>0, <1>4, <1>5, <1>8, OnlyKeeps
<1>9. CASE Save(Put(m, a, w), a, w, told[a])
  <2> HIDE DEF u
  <2>1. Good(w, told[a])
    BY <1>0, <1>4, ConfirmGood
  <2> HIDE DEF m, w
  <2> QED BY <1>0, <1>5, <1>9, <2>1, SaveKeeps
<1> QED BY <1>6, <1>7, <1>8, <1>9 DEF Propagate

\* A load, and no more.
LEMMA LoadKeeps ==
  ASSUME Kept, NEW a \in Addresses, HasPaxos(a), Only(Loaded(a))
  PROVE  Kept' /\ StillKnown
BY DecisionGood, LoadedGood, OnlyKeeps

LEMMA RemoveKeeps ==
  ASSUME Kept, NEW a \in Mutable, NEW valid \in BOOLEAN, Remove(a, valid)
  PROVE  Kept' /\ StillKnown
<1>0. a \in Addresses /\ HasPaxos(a)
  BY ImmutableAddresses DEF Remove
<1>1. CASE Only(Loaded(a))
  BY <1>0, <1>1, LoadKeeps
<1>2. CASE Exists(silo, a) /\ Removed(Loaded(a), silo, a)
  BY <1>0, <1>2, LoadedGood, RemovedFile
<1> QED BY <1>1, <1>2 DEF Remove

LEMMA ReconciledKeeps ==
  ASSUME Kept, NEW a \in Mutable, NEW trailing \in BOOLEAN, Reconciled(a, trailing)
  PROVE  Kept' /\ StillKnown
<1>0. a \in Addresses /\ Derived(mem, mem, a, mem.decisions[a])
  BY ImmutableAddresses, SameDerived
<1>1. CASE Only(mem)
  BY <1>0, <1>1, OnlyKeeps DEF Kept
<1>2. CASE Exists(silo, a) /\ Removed(mem, silo, a)
  BY <1>0, <1>2, RemovedFile
<1> QED BY <1>1, <1>2 DEF Reconciled

-----------------------------------------------------------------------------
(* Immutable blocks, and the threads.                                      *)

LEMMA StoreKeeps ==
  ASSUME Kept, NEW a \in Immutable, Store(a)
  PROVE  Kept' /\ StillKnown
<1> DEFINE u == Set(silo, a, Block, 1)
<1>1. silo' = u /\ mem' = mem /\ told' = told
  BY DEF Store
<1>2. /\ Shaped(u) /\ DOMAIN u.files = DOMAIN silo.files \cup {a}
      /\ u.files[a].data = Block
      /\ \A j \in DOMAIN silo.files \ {a} : u.files[j] = silo.files[j]
  BY SetShaped, ImmutableAddresses DEF Kept
<1> HIDE DEF u
<1>3. \A b \in Mutable : b # a
  BY AddressKinds, ImmutableAddresses
<1>4. \A b \in Mutable : b \in DOMAIN u.files <=> b \in DOMAIN silo.files
  BY <1>2, <1>3
<1>5. Kept'
  BY <1>1, <1>2, <1>3, <1>4 DEF Kept
<1> QED BY <1>1, <1>5 DEF StillKnown

LEMMA LoadedBlockDerived ==
  ASSUME Kept, NEW a \in Immutable, NEW found \in Quorums \cup {None}
  PROVE  Derived(mem, LoadedBlock(a, found), a, None)
<1>1. a \in Addresses /\ Derived(mem, mem, a, None)
  BY ImmutableAddresses, SameDerived DEF Kept
<1> QED BY <1>1, CacheDerived DEF LoadedBlock

LEMMA ConfirmBlockKeeps ==
  ASSUME Kept, NEW a \in Immutable, NEW found \in Quorums \cup {None}, NEW q \in Quorums,
         ConfirmBlock(a, found, q)
  PROVE  Kept' /\ StillKnown
<1> DEFINE m == LoadedBlock(a, found)
<1>1. a \in Addresses /\ Derived(mem, m, a, None)
  BY ImmutableAddresses, LoadedBlockDerived
<1>2. Only(Schedule(Cache(m, a, q), a, q))
  BY DEF ConfirmBlock
<1> HIDE DEF m
<1>3. Derived(mem, Schedule(Cache(m, a, q), a, q), a, None)
  BY <1>1, CacheDerived
<1> QED BY <1>1, <1>2, <1>3, OnlyKeeps

LEMMA RemoveBlockKeeps ==
  ASSUME Kept, NEW a \in Immutable, NEW found \in Quorums \cup {None}, RemoveBlock(a, found)
  PROVE  Kept' /\ StillKnown
<1> DEFINE m == LoadedBlock(a, found)
<1>1. a \in Addresses /\ Derived(mem, m, a, None)
  BY ImmutableAddresses, LoadedBlockDerived
<1>2. CASE Only(m)
  <2> HIDE DEF m
  <2> QED BY <1>1, <1>2, OnlyKeeps
<1>3. CASE Exists(silo, a) /\ Removed(m, silo, a)
  <2> HIDE DEF m
  <2> QED BY <1>1, <1>3, RemovedFile
<1> QED BY <1>2, <1>3 DEF RemoveBlock

\* Decisions dropped after a load.
LEMMA DropDerived ==
  ASSUME NEW m, NEW n, NEW a \in Addresses, NEW s, Derived(m, n, a, s), NEW gone, NEW left
  PROVE  Derived(m, Drop(n, gone, left), a, s)
<1>1. Indexed(n)
  BY DEF Derived
<1>2. /\ Indexed(Drop(n, gone, left)) /\ Drop(n, gone, left).quorums = n.quorums
      /\ \A b \in Addresses : Drop(n, gone, left).decisions[b] \in {None, n.decisions[b]}
  BY <1>1, DropIndexed
<1> QED BY <1>2 DEF Derived

LEMMA InspectKeeps ==
  ASSUME Kept, NEW a \in Addresses, NEW found \in Quorums \cup {None}, Inspect(a, found),
         loading \subseteq Immutable
  PROVE  Kept' /\ StillKnown
<1>1. CASE InspectPaxos(a)
  <2>1. HasPaxos(a)
    BY <1>1 DEF InspectPaxos
  <2>2. Derived(mem, Loaded(a), a, Decision(a))
    BY <2>1, LoadedGood
  <2>3. Derived(mem, Dropped(Loaded(a), a), a, Decision(a))
    BY <2>2, DropDerived DEF Dropped
  <2>4. a \in Mutable /\ Good(Decision(a), told[a])
    BY <2>1, DecisionGood
  <2>5. Only(Loaded(a)) \/ Only(Dropped(Loaded(a), a))
    BY <1>1 DEF InspectPaxos
  <2> QED BY <2>2, <2>3, <2>4, <2>5, OnlyKeeps
<1>2. CASE InspectBlock(a, found)
  <2>1. a \in Immutable
    <3>1. CASE a \in Mutable
      <4>1. Holds(a, Block)
        BY <1>2, <3>1, AddressKinds DEF InspectBlock, BlockLoads
      <4> QED BY <3>1, <4>1, PeerAssumption DEF Kept, Holds, Exists, Good
    <3> QED BY <3>1, AddressKinds
  <2>2. Only(LoadedBlock(a, found))
    BY <1>2 DEF InspectBlock
  <2> QED BY <2>1, <2>2, LoadedBlockDerived, OnlyKeeps
<1>3. CASE InspectFails(a)
  BY <1>3 DEF InspectFails, Kept, StillKnown
<1> QED BY <1>1, <1>2, <1>3 DEF Inspect

LEMMA DiscoveredKeeps ==
  ASSUME Kept, NEW n \in Nodes, Discovered(n)
  PROVE  Kept' /\ StillKnown
<1>1. mem' = [mem EXCEPT !.rebalancable = mem.rebalancable \cup {n}] /\ UNCHANGED <<silo, told>>
  BY DEF Discovered
<1>2. /\ mem'.decisions = mem.decisions /\ mem'.quorums = mem.quorums
      /\ mem'.node_blocks = mem.node_blocks /\ Indexed(mem)'
  BY <1>1 DEF Kept, Indexed, Whole, Row
<1> QED BY <1>1, <1>2 DEF Kept, StillKnown

\* Out of the channel, then loaded.
LEMMA RebalanceBlockKeeps ==
  ASSUME Kept, NEW a \in Addresses, RebalanceBlock(a)
  PROVE  Kept' /\ StillKnown
<1> DEFINE m == Taken(mem, a)
<1>1. /\ Indexed(m) /\ m.decisions = mem.decisions /\ m.quorums = mem.quorums
  BY TakenIndexed DEF Kept
<1>2. Only(IF HasPaxos(a) THEN Load(m, a) ELSE m)
  BY DEF RebalanceBlock
<1> HIDE DEF m
<1>3. CASE HasPaxos(a)
  <2>1. a \in Mutable /\ Good(Decision(a), told[a]) /\ CurrentQuorum(Decision(a)) \in Quorums
    BY <1>3, DecisionGood
  <2>2. Derived(m, Load(m, a), a, Decision(a))
    BY <1>1, <2>1, LoadDerived
  <2>3. Derived(mem, Load(m, a), a, Decision(a))
    BY <1>1, <2>2 DEF Derived
  <2> QED BY <1>2, <1>3, <2>1, <2>3, OnlyKeeps
<1>4. CASE ~HasPaxos(a)
  <2>1. Derived(mem, m, a, mem.decisions[a])
    BY <1>1 DEF Derived
  <2>2. Only(m)
    BY <1>2, <1>4
  <2>3. mem.decisions[a] = None
    BY <1>4 DEF HasPaxos, InMemory
  <2> QED BY <2>1, <2>2, <2>3, OnlyKeeps
<1> QED BY <1>3, <1>4

LEMMA RebalanceNodeKeeps ==
  ASSUME Kept, NEW n \in Nodes, RebalanceNode(n)
  PROVE  Kept' /\ StillKnown
<1> DEFINE m == Taken(mem, n)
<1>1. /\ Indexed(m) /\ m.decisions = mem.decisions /\ m.quorums = mem.quorums
  BY TakenIndexed DEF Kept
<1>2. mem' = m /\ UNCHANGED <<silo, told>>
  BY DEF RebalanceNode, Only
<1> HIDE DEF m
<1> QED BY <1>1, <1>2 DEF Kept, StillKnown

\* The blocks under eviction keep a quorum as long as the index does.
LEMMA KnownStays ==
  ASSUME Known, StillKnown, UNCHANGED evicting, loading' \subseteq Immutable
  PROVE  Known'
<1>1. ASSUME NEW n \in Nodes, evicting[n] # None, NEW a \in evicting[n].left
      PROVE  a \in Addresses
  BY <1>1 DEF Known, Thread
<1> QED BY <1>1 DEF Known, StillKnown

LEMMA StartEvictionKeeps ==
  ASSUME Kept, Known, NEW n \in Nodes, StartEviction(n)
  PROVE  Kept' /\ Known'
<1> DEFINE l == {a \in Addresses : <<n, a>> \in mem.node_blocks}
           r == [left |-> l, using |-> None]
<1>1. UNCHANGED <<silo, mem, told, loading>> /\ evicting' = [evicting EXCEPT ![n] = r]
  BY DEF StartEviction, Evicting, waits
<1>2. r \in Thread
  BY DEF Thread
<1>3. r.left = l /\ \A a \in l : mem.quorums[a] # None
  BY DEF Kept, Indexed
<1> HIDE DEF r, l
<1>4. Kept'
  BY <1>1 DEF Kept
<1>5. evicting' \in [Nodes -> Thread \cup {None}]
  BY <1>1, <1>2 DEF Known
<1>6. ASSUME NEW k \in Nodes, evicting'[k] # None, NEW a \in evicting'[k].left
      PROVE  mem'.quorums[a] # None
  <2>1. CASE k = n
    BY <1>1, <1>3, <1>6, <2>1 DEF Known
  <2>2. CASE k # n
    BY <1>1, <1>6, <2>2 DEF Known
  <2> QED BY <2>1, <2>2
<1> QED BY <1>1, <1>4, <1>5, <1>6 DEF Known

\* A thread that has less to do.
LEMMA EvictingLess ==
  ASSUME Known, StillKnown, NEW n \in Nodes, UNCHANGED loading,
         NEW r \in Thread, evicting[n] # None, r.left \subseteq evicting[n].left,
         evicting' = [evicting EXCEPT ![n] = r]
  PROVE  Known'
<1>1. evicting' \in [Nodes -> Thread \cup {None}]
  BY DEF Known
<1>2. ASSUME NEW k \in Nodes, evicting'[k] # None, NEW a \in evicting'[k].left
      PROVE  mem'.quorums[a] # None
  <2>1. evicting[k] # None /\ a \in evicting[k].left
    BY <1>2 DEF Known
  <2>2. a \in Addresses /\ mem.quorums[a] # None
    BY <2>1 DEF Known, Thread
  <2> QED BY <2>2 DEF StillKnown
<1> QED BY <1>1, <1>2 DEF Known

LEMMA EvictKeeps ==
  ASSUME Kept, Known, NEW n \in Nodes, NEW a \in Addresses, Evict(n, a)
  PROVE  Kept' /\ Known'
<1> DEFINE e == evicting[n]
<1>0. /\ e # None /\ e \in Thread /\ a \in e.left /\ UNCHANGED loading
      /\ mem.quorums[a] # None
  BY DEF Evict, Known, waits
<1>1. CASE /\ HasPaxos(a) /\ Only(Loaded(a))
           /\ Evicting(n, e.left \ {a}, IF n \in CurrentQuorum(Decision(a)) THEN a ELSE None)
  <2>1. Kept' /\ StillKnown
    BY <1>1, LoadKeeps
  <2> DEFINE r == [left |-> e.left \ {a},
                   using |-> IF n \in CurrentQuorum(Decision(a)) THEN a ELSE None]
  <2>2. r \in Thread /\ r.left \subseteq e.left
    BY <1>0 DEF Thread
  <2>3. evicting' = [evicting EXCEPT ![n] = r]
    BY <1>1 DEF Evicting
  <2> HIDE DEF r
  <2>4. Known'
    BY <1>0, <2>1, <2>2, <2>3, EvictingLess
  <2> QED BY <2>1, <2>4
<1>2. CASE /\ Holds(a, Block) /\ Only(EvictFromBlock(a, n))
           /\ Evicting(n, e.left \ {a}, None)
  <2>1. a \in Immutable
    <3>1. CASE a \in Mutable
      BY <1>2, <3>1, PeerAssumption DEF Kept, Holds, Exists, Good
    <3> QED BY <3>1, AddressKinds
  <2>2. Derived(mem, mem, a, None)
    BY <2>1, SameDerived DEF Kept
  <2>3. mem.quorums[a] \ {n} \in Quorums
    BY <1>0 DEF Kept, Indexed, Whole, Quorums
  <2>4. Derived(mem, EvictFromBlock(a, n), a, None)
    BY <2>2, <2>3, CacheDerived DEF EvictFromBlock
  <2>5. Kept' /\ StillKnown
    BY <1>2, <2>4, OnlyKeeps
  <2> DEFINE r == [left |-> e.left \ {a}, using |-> None]
  <2>6. r \in Thread /\ r.left \subseteq e.left
    BY <1>0 DEF Thread
  <2>7. evicting' = [evicting EXCEPT ![n] = r]
    BY <1>2 DEF Evicting
  <2> HIDE DEF r
  <2>8. Known'
    BY <1>0, <2>5, <2>6, <2>7, EvictingLess
  <2> QED BY <2>5, <2>8
<1>3. CASE UNCHANGED <<mem, silo, told, evicting>>
  BY <1>0, <1>3 DEF Kept, Known
<1> QED BY <1>1, <1>2, <1>3 DEF Evict

-----------------------------------------------------------------------------
(* The process starts again.                                               *)

LEMMA RestartKeeps ==
  ASSUME Invariant, NEW files, files = [k \in DOMAIN files |-> files[k]],
         DOMAIN files \subseteq Addresses, DOMAIN silo.files \subseteq DOMAIN files,
         \A k \in DOMAIN files : \/ files[k].data = Torn
                                 \/ k \in DOMAIN silo.files /\ files[k] = silo.files[k],
         Restart(files)
  PROVE  Invariant'
<1>1. /\ silo' = Recover(files) /\ mem' = Blank /\ told' = told
      /\ loading' = {} /\ evicting' = [n \in Nodes |-> None]
  BY DEF Restart
<1>2. Shaped(Recover(files)) /\ Recover(files).files = files
  BY RecoverShaped
<1>3. Indexed(Blank)
  BY DEF Blank, Indexed, Whole
<1>4. \A a \in Addresses : Blank.decisions[a] = None
  BY DEF Blank
<1>5. Kept'
  <2>1. \A a \in Mutable \cup Immutable : mem'.decisions[a] = None
    BY <1>1, <1>4, ImmutableAddresses
  <2>2. silo'.files = files /\ Shaped(silo)' /\ Indexed(mem)'
    BY <1>1, <1>2, <1>3
  <2>3. ASSUME NEW a \in Mutable
        PROVE  /\ a \in DOMAIN files => files[a].data = Torn \/ Good(files[a].data, told[a])
               /\ told[a] # Silent => a \in DOMAIN files
    BY DEF Invariant, Kept
  <2>4. ASSUME NEW a \in Immutable, a \in DOMAIN files
        PROVE  files[a].data \in {Block, Torn}
    BY <2>4 DEF Invariant, Kept
  <2> QED BY <1>1, <2>1, <2>2, <2>3, <2>4 DEF Invariant, Kept
<1>6. Known'
  BY <1>1 DEF Known
<1> QED BY <1>5, <1>6 DEF Invariant

LEMMA CrashKeeps ==
  ASSUME Invariant, Crash
  PROVE  Invariant'
BY RestartKeeps DEF Crash, Invariant, Kept, Shaped

LEMMA CrashInSetKeeps ==
  ASSUME Invariant, NEW a \in Addresses, NEW size \in 0..1, CrashInSet(a, size)
  PROVE  Invariant'
<1> DEFINE x == [data |-> Torn, size |-> size]
           files == Filed(silo.files, a, x)
<1>1. Restart(files)
  BY DEF CrashInSet
<1>2. /\ DOMAIN files = DOMAIN silo.files \cup {a} /\ files[a] = x
      /\ \A k \in DOMAIN silo.files \ {a} : files[k] = silo.files[k]
      /\ files = [k \in DOMAIN files |-> files[k]]
  BY DEF Filed
<1>3. x.data = Torn /\ DOMAIN silo.files \subseteq Addresses
  BY DEF Invariant, Kept, Shaped
<1> HIDE DEF files, x
<1> QED BY <1>1, <1>2, <1>3, RestartKeeps

-----------------------------------------------------------------------------
(* The theorems.                                                           *)

LEMMA InitInvariant == Init => Invariant
<1> SUFFICES ASSUME Init PROVE Invariant
  OBVIOUS
<1>1. Shaped(Empty) /\ DOMAIN Empty.files = {}
  <2> DEFINE f == [k \in {} |-> 0]
  <2>1. f = [k \in DOMAIN f |-> f[k]] /\ DOMAIN f = {}
    OBVIOUS
  <2> HIDE DEF f
  <2>2. Shaped(Recover(f)) /\ Recover(f).files = f
    BY <2>1, RecoverShaped
  <2> QED BY <2>1, <2>2 DEF Empty, f
<1>2. Indexed(Blank) /\ \A a \in Addresses : Blank.decisions[a] = None
  BY DEF Blank, Indexed, Whole
<1>3. Silent \in Answer
  BY DEF Silent, Answer
<1>4. Kept
  BY <1>1, <1>2, <1>3, ImmutableAddresses DEF Init, Kept
<1>5. Known
  BY DEF Init, Known
<1> QED BY <1>4, <1>5 DEF Invariant

\* Frames of the steps that leave the eviction threads alone.
LEMMA ClientStepKeeps ==
  ASSUME Invariant, ClientStep
  PROVE  Invariant'
<1>0. Kept /\ Known /\ loading \subseteq Immutable
  BY DEF Invariant, Known
<1>1. \A a \in Addresses : \A q \in Quora[a] : q \in Quorums
  BY PeerAssumption
<1>2. \A a \in Mutable : a \in Addresses /\ \A p \in Calls[a] : p \in Proposal
  BY PeerAssumption, ImmutableAddresses
<1>3. SUFFICES Kept' /\ StillKnown /\ UNCHANGED evicting /\ loading' \subseteq Immutable
  BY <1>0, KnownStays DEF Invariant
<1>4. ASSUME NEW a \in Mutable, NEW p \in Calls[a], NEW q \in Requested(a),
             \/ \E insert \in BOOLEAN : Propose(a, q, p, insert)
             \/ \E v \in Values \cup Quora[a], valid \in BOOLEAN : Accept(a, q, p, v, valid)
             \/ Confirm(a, q, p)
             \/ \E v \in Values : Propagate(a, q, v, p)
      PROVE  Kept' /\ StillKnown /\ UNCHANGED evicting /\ loading' \subseteq Immutable
  <2>1. p \in Proposal /\ q \in Quorums /\ \A v \in Values \cup Quora[a] : v \in Value
    BY <1>1, <1>2 DEF Requested, Value
  <2>2. UNCHANGED <<evicting, loading>>
    BY <1>4 DEF Propose, Accept, Confirm, Propagate, threads, waits, jobs
  <2>3. Kept' /\ StillKnown
    BY <1>0, <1>4, <2>1, ProposeKeeps, AcceptKeeps, ConfirmKeeps, PropagateKeeps
  <2> QED BY <1>0, <2>2, <2>3
<1>5. ASSUME NEW a \in Mutable,
             \/ Get(a) \/ \E valid \in BOOLEAN : Remove(a, valid)
             \/ Reconcile(a) \/ \E trailing \in BOOLEAN : Reconciled(a, trailing)
      PROVE  Kept' /\ StillKnown /\ UNCHANGED evicting /\ loading' \subseteq Immutable
  <2>1. UNCHANGED <<evicting, loading>>
    BY <1>5 DEF Get, Remove, Reconcile, Reconciled, threads, waits, jobs
  <2>2. ASSUME Get(a) \/ Reconcile(a) PROVE Kept' /\ StillKnown
    BY <1>0, <1>2, <2>2, LoadKeeps DEF Get, Reconcile
  <2>3. Kept' /\ StillKnown
    BY <1>0, <1>5, <2>2, RemoveKeeps, ReconciledKeeps
  <2> QED BY <1>0, <2>1, <2>3
<1>6. ASSUME NEW a \in Immutable,
             \/ Store(a) \/ LookUp(a)
             \/ \E found \in Owners(a) : \/ \E q \in Requested(a) : ConfirmBlock(a, found, q)
                                         \/ RemoveBlock(a, found)
      PROVE  Kept' /\ StillKnown /\ UNCHANGED evicting /\ loading' \subseteq Immutable
  <2>1. a \in Addresses /\ \A q \in Quora[a] : q \in Quorums
    BY <1>1, ImmutableAddresses
  <2>2. UNCHANGED evicting /\ loading' \subseteq Immutable
    BY <1>0, <1>6 DEF Store, LookUp, ConfirmBlock, RemoveBlock, threads, waits, jobs
  <2>3. ASSUME LookUp(a) PROVE Kept' /\ StillKnown
    BY <1>0, <2>3 DEF LookUp, Kept, StillKnown
  <2>4. Kept' /\ StillKnown
    BY <1>0, <1>6, <2>1, <2>3, StoreKeeps, ConfirmBlockKeeps, RemoveBlockKeeps
       DEF Requested, Owners
  <2> QED BY <2>2, <2>4
<1> QED BY <1>4, <1>5, <1>6 DEF ClientStep

LEMMA ThreadStepKeeps ==
  ASSUME Invariant, ThreadStep
  PROVE  Invariant'
<1>0. Kept /\ Known /\ loading \subseteq Immutable
  BY DEF Invariant, Known
<1>1. ASSUME Kept', StillKnown, UNCHANGED evicting, loading' \subseteq Immutable
      PROVE  Invariant'
  BY <1>0, <1>1, KnownStays DEF Invariant
<1>2. ASSUME NEW a \in Addresses, NEW found \in Owners(a), Inspect(a, found)
      PROVE  Invariant'
  <2>1. found \in Quorums \cup {None}
    BY PeerAssumption DEF Owners
  <2>2. Kept' /\ StillKnown
    BY <1>0, <1>2, <2>1, InspectKeeps
  <2>3. UNCHANGED evicting /\ loading' \subseteq Immutable
    BY <1>0, <1>2 DEF Inspect, InspectPaxos, InspectBlock, InspectFails, waits
  <2> QED BY <1>1, <2>2, <2>3
<1>3. ASSUME NEW a \in Addresses, RebalanceBlock(a) \/ Spread(a)
      PROVE  Invariant'
  <2>1. UNCHANGED <<evicting, loading>>
    BY <1>3 DEF RebalanceBlock, Spread, threads, waits, jobs
  <2>2. ASSUME Spread(a) PROVE Kept' /\ StillKnown
    BY <1>0, <2>2 DEF Spread, Kept, StillKnown
  <2>3. Kept' /\ StillKnown
    BY <1>0, <1>3, <2>2, RebalanceBlockKeeps
  <2> QED BY <1>0, <1>1, <2>1, <2>3
<1>4. ASSUME NEW n \in Nodes,
             Discovered(n) \/ Disappeared(n) \/ Expire(n) \/ RebalanceNode(n)
      PROVE  Invariant'
  <2>1. UNCHANGED <<evicting, loading>>
    BY <1>4 DEF Discovered, Disappeared, Expire, RebalanceNode, waits, jobs
  <2>2. ASSUME Disappeared(n) \/ Expire(n) PROVE Kept' /\ StillKnown
    BY <1>0, <2>2 DEF Disappeared, Expire, Kept, StillKnown
  <2>3. Kept' /\ StillKnown
    BY <1>0, <1>4, <2>2, DiscoveredKeeps, RebalanceNodeKeeps
  <2> QED BY <1>0, <1>1, <2>1, <2>3
<1>5. ASSUME NEW n \in Nodes, StartEviction(n)
      PROVE  Invariant'
  BY <1>0, <1>5, StartEvictionKeeps DEF Invariant
<1>6. ASSUME NEW n \in Nodes, Elected(n)
      PROVE  Invariant'
  <2> DEFINE r == [left |-> evicting[n].left, using |-> None]
  <2>1. /\ UNCHANGED <<silo, mem, told, loading>> /\ evicting[n] # None
        /\ evicting' = [evicting EXCEPT ![n] = r]
    BY <1>6 DEF Elected, Evicting, waits
  <2>2. r \in Thread /\ r.left \subseteq evicting[n].left
    BY <1>0, <2>1 DEF Known, Thread
  <2> HIDE DEF r
  <2>3. Kept' /\ StillKnown
    BY <1>0, <2>1 DEF Kept, StillKnown
  <2> QED BY <1>0, <2>1, <2>2, <2>3, EvictingLess DEF Invariant
<1>7. ASSUME NEW n \in Nodes, EvictionDone(n)
      PROVE  Invariant'
  <2>1. UNCHANGED <<silo, mem, told, loading>> /\ evicting' = [evicting EXCEPT ![n] = None]
    BY <1>7 DEF EvictionDone, waits
  <2> QED BY <1>0, <2>1 DEF Invariant, Kept, Known
<1>8. ASSUME NEW n \in Nodes, NEW a \in Addresses, Evict(n, a)
      PROVE  Invariant'
  BY <1>0, <1>8, EvictKeeps DEF Invariant
<1> QED BY <1>2, <1>3, <1>4, <1>5, <1>6, <1>7, <1>8 DEF ThreadStep

LEMMA InvariantHolds == Spec => []Invariant
<1>1. Invariant /\ [Next]_vars => Invariant'
  <2> SUFFICES ASSUME Invariant, [Next]_vars PROVE Invariant'
    OBVIOUS
  <2>1. CASE ClientStep
    BY <2>1, ClientStepKeeps
  <2>2. CASE ThreadStep
    BY <2>2, ThreadStepKeeps
  <2>3. CASE Crash
    BY <2>3, CrashKeeps
  <2>4. CASE \E a \in Addresses, size \in 0..1 : CrashInSet(a, size)
    BY <2>4, CrashInSetKeeps
  <2>5. CASE UNCHANGED vars
    BY <2>5 DEF vars, threads, waits, jobs, Invariant, Kept, Known
  <2> QED BY <2>1, <2>2, <2>3, <2>4, <2>5 DEF Next
<1> QED BY InitInvariant, <1>1, PTL DEF Spec

\* Whatever is called, in any order, with any number of crashes, also in the
\* middle of a write, and with a silo that may be full, the peer never goes back
\* on what it answered to a proposal or an accept.
THEOREM PeerKeepsItsWord == Spec => []KeepsItsWord
<1>1. Invariant => KeepsItsWord
  BY DEF Invariant, Kept, KeepsItsWord, Good, InMemory, Exists, Holds
<1> QED BY InvariantHolds, <1>1, PTL

\* The two indexes of where blocks are never disagree, and a decision in memory
\* always has its quorum in them.
THEOREM PeerIndexesAgree == Spec => []IndexesAgree
<1>1. Invariant => IndexesAgree
  BY DEF Invariant, Kept, Indexed, IndexesAgree, InMemory, Row
<1> QED BY InvariantHolds, <1>1, PTL

-----------------------------------------------------------------------------
(* Blocks that lose replicas are scheduled.                                *)

\* Whether the loss of a replica of block a is to be noticed.
Counts(a) == a \in Immutable \/ (HasPaxos(a) /\ CurrentValue(Decision(a)) # None)

\* Memory n follows mem, changed for block a only, and a is scheduled if its quorum
\* changed for one that is too small.
Noticed(n, a) ==
  /\ \A b \in Addresses \ {a} : n.quorums[b] = mem.quorums[b]
  /\ (Counts(a) /\ n.quorums[a] # mem.quorums[a] /\ UnderReplicated(n.quorums[a]))
       => a \in n.rebalancable

SameIndex(m, n) == n.quorums = m.quorums /\ n.rebalancable = m.rebalancable

LEMMA SameNoticed ==
  ASSUME NEW m, NEW n, SameIndex(m, n), NEW a, Noticed(m, a)
  PROVE  Noticed(n, a)
BY DEF SameIndex, Noticed

\* Decisions come and go without a change of the index of quorums.
LEMMA SameIndexes ==
  ASSUME NEW m, Whole(m), NEW a \in Addresses
  PROVE  /\ SameIndex(m, Touch(m, a)) /\ \A s : SameIndex(m, Put(m, a, s))
         /\ SameIndex(m, Forget(m, a)) /\ \A gone, left : SameIndex(m, Drop(m, gone, left))
<1>1. SameIndex(m, Touch(m, a))
  <2> DEFINE u == Append(Without(m.use, a), a)
  <2>1. Touch(m, a) = [m EXCEPT !.use = u]
    BY DEF Touch
  <2> HIDE DEF u
  <2> QED BY <2>1 DEF Whole, SameIndex
<1>2. ASSUME NEW s PROVE SameIndex(m, Put(m, a, s))
  <2>1. Put(m, a, s) = [m EXCEPT !.decisions = [m.decisions EXCEPT ![a] = s]]
    BY DEF Put, Whole
  <2> QED BY <2>1 DEF Whole, SameIndex
<1>3. ASSUME NEW g, NEW u
      PROVE  /\ SameIndex(m, Drop(m, g, u))
             /\ \E d : Drop(m, g, u) = [m EXCEPT !.decisions = d, !.use = u]
  <2> DEFINE d == [b \in Addresses |-> IF b \in g THEN None ELSE m.decisions[b]]
  <2>1. Drop(m, g, u) = [m EXCEPT !.decisions = d, !.use = u]
    BY DEF Drop
  <2> HIDE DEF d
  <2> QED BY <2>1 DEF Whole, SameIndex
<1>4. SameIndex(m, Forget(m, a))
  <2> DEFINE d == Dropped(m, a)
             w == Without(m.use, a)
  <2>0. d = Drop(m, {a}, w)
    BY DEF Dropped
  <2>1. Forget(m, a) = [d EXCEPT !.node_blocks = {nb \in d.node_blocks : nb[2] # a}]
    BY DEF Forget
  <2> HIDE DEF d, w
  <2>2. PICK e : d = [m EXCEPT !.decisions = e, !.use = w]
    BY <1>3, <2>0
  <2>3. SameIndex(m, d)
    BY <1>3, <2>0
  <2>4. d = [decisions |-> d.decisions, use |-> d.use, quorums |-> d.quorums,
             node_blocks |-> d.node_blocks, rebalancable |-> d.rebalancable]
    <3> HIDE DEF d
    <3> QED BY <2>2 DEF Whole
  <2> HIDE DEF d
  <2> QED BY <2>1, <2>3, <2>4 DEF SameIndex
<1> QED BY <1>1, <1>2, <1>3, <1>4

\* A quorum that is indexed and scheduled.
LEMMA CacheNotices ==
  ASSUME NEW m, Indexed(m), NEW a \in Addresses, NEW q \in Quorums,
         \A b \in Addresses \ {a} : m.quorums[b] = mem.quorums[b]
  PROVE  /\ Noticed(Schedule(Cache(m, a, q), a, q), a)
         /\ ~Counts(a) => Noticed(Cache(m, a, q), a)
<1> DEFINE c == Cache(m, a, q)
           n == Schedule(c, a, q)
<1>1. Indexed(c) /\ c.quorums = [m.quorums EXCEPT ![a] = q]
  BY CacheIndexed
<1> HIDE DEF c
<1>2. c.quorums[a] = q /\ \A b \in Addresses \ {a} : c.quorums[b] = m.quorums[b]
  BY <1>1 DEF Indexed, Whole
<1>3. n.quorums = c.quorums
  BY <1>1, ScheduleIndexed
<1>4. UnderReplicated(q) => a \in n.rebalancable
  BY <1>1 DEF Schedule, Indexed, Whole
<1> HIDE DEF n
<1> QED BY <1>2, <1>3, <1>4 DEF Noticed, c, n

\* _load_paxos schedules a block that has a value.
LEMMA InsertNotices ==
  ASSUME NEW m, Indexed(m), m.quorums = mem.quorums, NEW a \in Addresses, NEW s,
         CurrentQuorum(s) \in Quorums, Counts(a) => CurrentValue(s) # None
  PROVE  Noticed(Insert(m, a, s), a)
<1> DEFINE q == CurrentQuorum(s)
           c == Cache(m, a, q)
           d == IF CurrentValue(s) # None THEN Schedule(c, a, q) ELSE c
           p == Put(d, a, s)
           e == Touch(p, a)
<1>1. Insert(m, a, s) = Unload(e)
  BY DEF Insert
<1>2. PICK gone, left : Unload(e) = Drop(e, gone, left)
  BY DEF Unload
<1>3. Noticed(d, a)
  BY CacheNotices
<1>4. Indexed(d) /\ Row(d, a)
  <2>1. Indexed(c) /\ Row(c, a)
    BY CacheIndexed
  <2> DEFINE w == Schedule(c, a, q)
  <2> HIDE DEF c
  <2>2. Indexed(w) /\ w.quorums = c.quorums /\ w.node_blocks = c.node_blocks
    BY <2>1, ScheduleIndexed
  <2> HIDE DEF w
  <2>3. Indexed(w) /\ Row(w, a)
    BY <2>1, <2>2 DEF Row
  <2> QED BY <2>1, <2>3 DEF w
<1> HIDE DEF d
<1>5. Indexed(p)
  BY <1>4, PutIndexed
<1>6. Noticed(p, a)
  BY <1>3, <1>4, SameIndexes, SameNoticed DEF Indexed
<1> HIDE DEF p
<1>7. Indexed(e)
  BY <1>5, TouchIndexed
<1>8. Noticed(e, a)
  BY <1>5, <1>6, SameIndexes, SameNoticed DEF Indexed
<1> HIDE DEF e
<1>9. Noticed(Drop(e, gone, left), a)
  BY <1>7, <1>8, SameIndexes, SameNoticed DEF Indexed
<1> QED BY <1>1, <1>2, <1>9

LEMMA LoadNotices ==
  ASSUME Kept, NEW m, Indexed(m), m.quorums = mem.quorums, NEW a \in Addresses, HasPaxos(a)
  PROVE  Noticed(Load(m, a), a)
<1>1. CurrentQuorum(Decision(a)) \in Quorums /\ a \notin Immutable
  BY DecisionGood, AddressKinds
<1>2. CASE InMemory(a)
  <2>1. Noticed(m, a)
    BY DEF Noticed
  <2>2. Noticed(Touch(m, a), a)
    BY <2>1, SameIndexes, SameNoticed DEF Indexed
  <2> QED BY <1>2, <2>2 DEF Load
<1>3. CASE ~InMemory(a)
  BY <1>1, <1>3, InsertNotices DEF Load, Counts
<1> QED BY <1>2, <1>3

LEMMA LoadedNotices ==
  ASSUME Kept, NEW a \in Addresses, HasPaxos(a)
  PROVE  /\ Noticed(Loaded(a), a) /\ Indexed(Loaded(a)) /\ Row(Loaded(a), a)
         /\ \A s : Noticed(Put(Loaded(a), a, s), a)
         /\ Noticed(Forget(Loaded(a), a), a) /\ Noticed(Dropped(Loaded(a), a), a)
<1>1. Noticed(Loaded(a), a)
  BY LoadNotices DEF Loaded, Kept
<1>2. Indexed(Loaded(a)) /\ Row(Loaded(a), a)
  BY LoadedGood DEF Derived
<1> DEFINE m == Loaded(a)
<1> HIDE DEF m
<1>3. Noticed(m, a) /\ Whole(m)
  BY <1>1, <1>2 DEF Indexed, m
<1>4. /\ \A s : SameIndex(m, Put(m, a, s))
      /\ SameIndex(m, Forget(m, a)) /\ SameIndex(m, Dropped(m, a))
  BY <1>3, SameIndexes DEF Dropped
<1>5. /\ \A s : Noticed(Put(m, a, s), a)
      /\ Noticed(Forget(m, a), a) /\ Noticed(Dropped(m, a), a)
  BY <1>3, <1>4, SameNoticed
<1> QED BY <1>1, <1>2, <1>5 DEF m

\* A confirm does not take away the value of a block.
LEMMA ConfirmKeepsValue ==
  ASSUME NEW s \in Server, NEW q \in Quorums, NEW p \in Proposal, CurrentValue(s) # None
  PROVE  CurrentValue(ConfirmState(s, q, p)) # None
<1> DEFINE t == ConfirmState(s, q, p)
           new == [s.accepted EXCEPT !.confirmed = TRUE]
<1>1. CASE t = s
  BY <1>1
<1>2. CASE /\ s.proposal # None /\ s.accepted # None /\ ~Confirmed(s)
           /\ t = [s EXCEPT !.accepted.confirmed = TRUE,
                            !.quorum = IF s.partial THEN q ELSE @,
                            !.partial = FALSE]
  <2>1. s.accepted \in Accepted /\ s.proposal \in Proposal
    BY <1>2 DEF Server
  <2>2. new \in Accepted /\ new # None /\ new.value = s.accepted.value /\ new.confirmed = TRUE
    BY <2>1, NoneAssumption DEF Accepted
  <2>3. t.accepted = new /\ t.proposal = s.proposal /\ t.value = s.value
    BY <1>2, <2>1, <2>2 DEF Server
  <2>4. s.value # None /\ s.value \in Values
    BY <1>2 DEF CurrentValue, Server
  <2> HIDE DEF t, new
  <2>5. Confirmed(t)
    BY <2>2, <2>3 DEF Confirmed
  <2>6. CASE ~IsQuorum(new.value)
    BY <2>2, <2>3, <2>5, <2>6 DEF CurrentValue, t
  <2>7. CASE IsQuorum(new.value)
    <3>1. CurrentProposal(t) = s.proposal /\ s.proposal # None
      BY <1>2, <2>3, <2>5 DEF CurrentProposal
    <3>2. CurrentValue(t) = [proposal |-> s.proposal, value |-> s.value, confirmed |-> TRUE]
      BY <2>3, <2>4, <2>7, <3>1 DEF CurrentValue
    <3>3. [proposal |-> s.proposal, value |-> s.value, confirmed |-> TRUE] \in Accepted
      BY <2>1, <2>4 DEF Accepted, Value
    <3> QED BY <3>2, <3>3, NoneAssumption DEF t
  <2> QED BY <2>6, <2>7 DEF t
<1> QED BY <1>1, <1>2 DEF ConfirmState, ConfirmUnannounced

\* What a step does to the index of quorums: it changes for one block, and the
\* change is noticed; or it is blank, as the process starts.
NoticedStep == (\E a \in Addresses : Noticed(mem', a)) \/ mem' = Blank

LEMMA QuietStep ==
  ASSUME NEW a \in Addresses, mem'.quorums = mem.quorums
  PROVE  NoticedStep
BY DEF NoticedStep, Noticed

LEMMA ProposeNotices ==
  ASSUME Kept, NEW a \in Mutable, NEW q \in Quorums, NEW p \in Proposal,
         NEW insert \in BOOLEAN, Propose(a, q, p, insert)
  PROVE  NoticedStep
<1> DEFINE s == IF HasPaxos(a) THEN Decision(a) ELSE NewServer(q, None)
           m == IF HasPaxos(a) THEN Loaded(a) ELSE Insert(mem, a, s)
           t == ProposeState(s, q, p)
<1>0. a \in Addresses /\ a \notin Immutable
  BY ImmutableAddresses, AddressKinds
<1>1. Noticed(m, a) /\ Indexed(m)
  <2>1. CASE HasPaxos(a)
    BY <1>0, <2>1, LoadedNotices
  <2>2. CASE ~HasPaxos(a)
    <3>1. CurrentQuorum(NewServer(q, None)) = q
      BY NewGood
    <3>2. Noticed(Insert(mem, a, NewServer(q, None)), a)
      BY <1>0, <2>2, <3>1, InsertNotices DEF Kept, Counts
    <3>3. Indexed(Insert(mem, a, NewServer(q, None)))
      BY <1>0, <3>1, InsertDerived DEF Kept, Derived
    <3> QED BY <2>2, <3>2, <3>3
  <2> QED BY <2>1, <2>2
<1>2. mem' = m \/ mem' = Put(m, a, t)
  BY DEF Propose, Save, Only
<1> HIDE DEF m, t
<1>3. Noticed(Put(m, a, t), a)
  BY <1>0, <1>1, SameIndexes, SameNoticed DEF Indexed
<1> QED BY <1>0, <1>1, <1>2, <1>3 DEF NoticedStep

LEMMA AcceptNotices ==
  ASSUME Kept, NEW a \in Mutable, NEW q, NEW p, NEW v, NEW valid, Accept(a, q, p, v, valid)
  PROVE  NoticedStep
<1>0. a \in Addresses /\ HasPaxos(a)
  BY ImmutableAddresses DEF Accept
<1>1. mem' = Loaded(a) \/ \E t : mem' = Put(Loaded(a), a, t)
  BY DEF Accept, Save, Only
<1> QED BY <1>0, <1>1, LoadedNotices DEF NoticedStep

LEMMA ConfirmNotices ==
  ASSUME Kept, NEW a \in Mutable, NEW q \in Quorums, NEW p \in Proposal, Confirm(a, q, p)
  PROVE  NoticedStep
<1> DEFINE s == Decision(a)
           t == ConfirmState(s, q, p)
           m == Put(Loaded(a), a, t)
           w == Set(silo, a, t, Size(t))
           new == NewQuorum(s, t)
<1>0. a \in Addresses /\ told[a] \in Answer /\ HasPaxos(a) /\ a \notin Immutable
  BY ImmutableAddresses, AddressKinds DEF Kept, Confirm
<1>1. Good(s, told[a])
  BY <1>0, DecisionGood
<1>2. Good(t, told[a])
  BY <1>0, <1>1, ConfirmGood
<1>3. Indexed(m) /\ Noticed(m, a) /\ Noticed(Loaded(a), a)
  <2>1. Indexed(Loaded(a)) /\ Row(Loaded(a), a) /\ Noticed(m, a) /\ Noticed(Loaded(a), a)
    BY <1>0, LoadedNotices
  <2>2. Indexed(m)
    BY <1>0, <2>1, PutIndexed
  <2> QED BY <2>1, <2>2
<1>4. new \in Quorums \cup {None}
  <2>1. t \in Server
    BY <1>2 DEF Good
  <2> HIDE DEF t, s
  <2>2. CurrentQuorum(t) \in Quorums
    BY <2>1, CurrentQuorumType
  <2>3. t.accepted # None /\ IsQuorum(t.accepted.value) => t.accepted.value \in Quorums
    BY <2>1 DEF Server, Accepted, Value, IsQuorum
  <2> QED BY <2>2, <2>3 DEF NewQuorum
<1>5. Counts(a) => CurrentValue(t) # None
  BY <1>0, <1>1, ConfirmKeepsValue DEF Counts, Good
<1>6. \/ mem' = Loaded(a) \/ mem' = m \/ mem' = Forget(m, a)
      \/ /\ new # None
         /\ mem' = IF CurrentValue(t) # None
                   THEN Schedule(Cache(m, a, new), a, new) ELSE Cache(m, a, new)
  BY DEF Confirm, Only, Removed
<1> HIDE DEF m, t, new
<1>7. Noticed(Forget(m, a), a)
  BY <1>0, <1>3, SameIndexes, SameNoticed DEF Indexed
<1>8. ASSUME new # None
      PROVE  /\ Noticed(Schedule(Cache(m, a, new), a, new), a)
             /\ ~Counts(a) => Noticed(Cache(m, a, new), a)
  <2>1. new \in Quorums /\ \A b \in Addresses \ {a} : m.quorums[b] = mem.quorums[b]
    BY <1>3, <1>4, <1>8 DEF Noticed
  <2> QED BY <1>0, <1>3, <2>1, CacheNotices
<1> QED BY <1>0, <1>3, <1>5, <1>6, <1>7, <1>8 DEF NoticedStep

LEMMA PropagateNotices ==
  ASSUME Kept, NEW a \in Mutable, NEW q \in Quorums, NEW v \in Values, NEW p \in Proposal,
         Propagate(a, q, v, p)
  PROVE  NoticedStep
<1> DEFINE s == IF HasPaxos(a) THEN Decision(a) ELSE NewServer(q, v)
           m == Insert(mem, a, s)
<1>0. a \in Addresses /\ a \notin Immutable
  BY ImmutableAddresses, AddressKinds
<1>1. CurrentQuorum(s) \in Quorums
  <2>1. CASE HasPaxos(a)
    BY <1>0, <2>1, DecisionGood
  <2>2. CASE ~HasPaxos(a)
    BY <2>2, NewGood
  <2> QED BY <2>1, <2>2
<1>2. Counts(a) => CurrentValue(s) # None
  BY <1>0 DEF Counts
<1>3. mem' = m \/ \E t : mem' = Put(m, a, t)
  BY DEF Propagate, Save, Only
<1>4. Noticed(m, a) /\ Indexed(m)
  <2> HIDE DEF s
  <2>1. Indexed(mem)
    BY DEF Kept
  <2>2. Noticed(m, a)
    BY <1>0, <1>1, <1>2, <2>1, InsertNotices
  <2>3. Indexed(m)
    BY <1>0, <1>1, <2>1, InsertDerived DEF Derived
  <2> QED BY <2>2, <2>3
<1> HIDE DEF m
<1>5. \A t : Noticed(Put(m, a, t), a)
  BY <1>0, <1>4, SameIndexes, SameNoticed DEF Indexed
<1> QED BY <1>0, <1>3, <1>4, <1>5 DEF NoticedStep

LEMMA LoadedBlockNotices ==
  ASSUME Kept, NEW a \in Immutable, NEW found \in Quorums \cup {None}
  PROVE  Noticed(LoadedBlock(a, found), a) /\ Indexed(LoadedBlock(a, found))
<1>1. Indexed(LoadedBlock(a, found))
  BY LoadedBlockDerived DEF Derived
<1>2. a \in Addresses /\ Indexed(mem)
  BY ImmutableAddresses DEF Kept
<1>3. Noticed(mem, a)
  BY DEF Noticed
<1>4. found # None => Noticed(Schedule(Cache(mem, a, found), a, found), a)
  BY <1>2, CacheNotices
<1> QED BY <1>1, <1>3, <1>4 DEF LoadedBlock

LEMMA BlockNotices ==
  ASSUME Kept, NEW a \in Immutable, NEW found \in Quorums \cup {None},
         (\E q \in Quorums : ConfirmBlock(a, found, q)) \/ RemoveBlock(a, found)
  PROVE  NoticedStep
<1> DEFINE m == LoadedBlock(a, found)
<1>1. a \in Addresses /\ Noticed(m, a) /\ Indexed(m)
  BY ImmutableAddresses, LoadedBlockNotices
<1>2. \/ mem' = m \/ mem' = Forget(m, a)
      \/ \E q \in Quorums : mem' = Schedule(Cache(m, a, q), a, q)
  BY DEF ConfirmBlock, RemoveBlock, Only, Removed
<1> HIDE DEF m
<1>3. Noticed(Forget(m, a), a)
  BY <1>1, SameIndexes, SameNoticed DEF Indexed
<1>4. \A b \in Addresses \ {a} : m.quorums[b] = mem.quorums[b]
  BY <1>1 DEF Noticed
<1>5. \A q \in Quorums : Noticed(Schedule(Cache(m, a, q), a, q), a)
  BY <1>1, <1>4, CacheNotices
<1> QED BY <1>1, <1>2, <1>3, <1>5 DEF NoticedStep

LEMMA ClientNotices ==
  ASSUME Kept, ClientStep
  PROVE  NoticedStep
<1>1. \A a \in Addresses : \A q \in Quora[a] : q \in Quorums
  BY PeerAssumption
<1>2. \A a \in Mutable : a \in Addresses /\ \A p \in Calls[a] : p \in Proposal
  BY PeerAssumption, ImmutableAddresses
<1>3. ASSUME NEW a \in Mutable, NEW p \in Calls[a], NEW q \in Requested(a),
             \/ \E insert \in BOOLEAN : Propose(a, q, p, insert)
             \/ \E v \in Values \cup Quora[a], valid \in BOOLEAN : Accept(a, q, p, v, valid)
             \/ Confirm(a, q, p)
             \/ \E v \in Values : Propagate(a, q, v, p)
      PROVE  NoticedStep
  <2>1. p \in Proposal /\ q \in Quorums
    BY <1>1, <1>2 DEF Requested
  <2> QED BY <1>3, <2>1, ProposeNotices, AcceptNotices, ConfirmNotices, PropagateNotices
<1>4. ASSUME NEW a \in Mutable, NEW b \in BOOLEAN,
             Get(a) \/ Reconcile(a) \/ Remove(a, b) \/ Reconciled(a, b)
      PROVE  NoticedStep
  <2>0. a \in Addresses
    BY <1>2
  <2>1. CASE Get(a) \/ Reconcile(a) \/ Remove(a, b)
    <3>1. HasPaxos(a) /\ (mem' = Loaded(a) \/ mem' = Forget(Loaded(a), a))
      BY <2>1 DEF Get, Reconcile, Remove, Only, Removed
    <3> QED BY <2>0, <3>1, LoadedNotices DEF NoticedStep
  <2>2. CASE Reconciled(a, b)
    <3>1. mem' = mem \/ mem' = Forget(mem, a)
      BY <2>2 DEF Reconciled, Only, Removed
    <3>2. mem'.quorums = mem.quorums
      BY <2>0, <3>1, SameIndexes DEF Kept, Indexed, SameIndex
    <3> QED BY <2>0, <3>2, QuietStep
  <2> QED BY <1>4, <2>1, <2>2
<1>5. ASSUME NEW a \in Immutable,
             \/ Store(a) \/ LookUp(a)
             \/ \E found \in Owners(a) : \/ \E q \in Requested(a) : ConfirmBlock(a, found, q)
                                         \/ RemoveBlock(a, found)
      PROVE  NoticedStep
  <2>1. a \in Addresses /\ \A q \in Quora[a] : q \in Quorums
    BY <1>1, ImmutableAddresses
  <2>2. ASSUME Store(a) \/ LookUp(a) PROVE NoticedStep
    BY <2>1, <2>2, QuietStep DEF Store, LookUp
  <2> QED BY <1>5, <2>1, <2>2, BlockNotices DEF Requested, Owners
<1> QED BY <1>3, <1>4, <1>5 DEF ClientStep

LEMMA InspectNotices ==
  ASSUME Kept, Known, NEW a \in Addresses, NEW found \in Quorums \cup {None}, Inspect(a, found)
  PROVE  NoticedStep
<1>1. CASE InspectPaxos(a)
  <2>1. HasPaxos(a) /\ (mem' = Loaded(a) \/ mem' = Dropped(Loaded(a), a))
    BY <1>1 DEF InspectPaxos, Only
  <2> QED BY <2>1, LoadedNotices DEF NoticedStep
<1>2. CASE InspectBlock(a, found)
  <2>1. a \in Immutable
    <3>1. CASE a \in Mutable
      <4>1. Holds(a, Block)
        BY <1>2, <3>1, AddressKinds DEF InspectBlock, BlockLoads, Known
      <4> QED BY <3>1, <4>1, PeerAssumption DEF Kept, Holds, Exists, Good
    <3> QED BY <3>1, AddressKinds
  <2>2. mem' = LoadedBlock(a, found)
    BY <1>2 DEF InspectBlock, Only
  <2> QED BY <2>1, <2>2, LoadedBlockNotices DEF NoticedStep
<1>3. CASE InspectFails(a)
  BY <1>3, QuietStep DEF InspectFails
<1> QED BY <1>1, <1>2, <1>3 DEF Inspect

LEMMA RebalanceBlockNotices ==
  ASSUME Kept, NEW a \in Addresses, RebalanceBlock(a)
  PROVE  NoticedStep
<1> DEFINE m == Taken(mem, a)
<1>1. Indexed(m) /\ m.quorums = mem.quorums
  BY TakenIndexed DEF Kept
<1>2. mem' = IF HasPaxos(a) THEN Load(m, a) ELSE m
  BY DEF RebalanceBlock, Only
<1> HIDE DEF m
<1>3. CASE HasPaxos(a)
  BY <1>1, <1>2, <1>3, LoadNotices DEF NoticedStep
<1>4. CASE ~HasPaxos(a)
  BY <1>1, <1>2, <1>4, QuietStep
<1> QED BY <1>3, <1>4

LEMMA EvictNotices ==
  ASSUME Kept, Known, NEW n \in Nodes, NEW a \in Addresses, Evict(n, a)
  PROVE  NoticedStep
<1>1. CASE HasPaxos(a) /\ Only(Loaded(a))
  BY <1>1, LoadedNotices DEF NoticedStep, Only
<1>2. CASE Holds(a, Block) /\ Only(EvictFromBlock(a, n))
  <2>1. mem.quorums[a] # None
    BY DEF Evict, Known
  <2>2. mem.quorums[a] \ {n} \in Quorums /\ Indexed(mem)
    BY <2>1 DEF Kept, Indexed, Whole, Quorums
  <2> DEFINE q == mem.quorums[a] \ {n}
  <2>3. mem' = mem \/ mem' = Schedule(Cache(mem, a, q), a, q)
    BY <1>2 DEF Only, EvictFromBlock
  <2>4. Noticed(Schedule(Cache(mem, a, q), a, q), a)
    BY <2>2, CacheNotices
  <2> HIDE DEF q
  <2> QED BY <2>3, <2>4, QuietStep DEF NoticedStep
<1>3. CASE UNCHANGED mem
  BY <1>3, QuietStep
<1> QED BY <1>1, <1>2, <1>3 DEF Evict

LEMMA ThreadNotices ==
  ASSUME Kept, Known, ThreadStep, NEW x \in Addresses
  PROVE  NoticedStep
<1>1. ASSUME NEW a \in Addresses, NEW found \in Owners(a), Inspect(a, found)
      PROVE  NoticedStep
  <2>1. found \in Quorums \cup {None}
    BY PeerAssumption DEF Owners
  <2> QED BY <1>1, <2>1, InspectNotices
<1>2. ASSUME NEW a \in Addresses, RebalanceBlock(a) \/ Spread(a)
      PROVE  NoticedStep
  <2>1. ASSUME Spread(a) PROVE NoticedStep
    BY <2>1, QuietStep DEF Spread
  <2> QED BY <1>2, <2>1, RebalanceBlockNotices
<1>3. ASSUME NEW n \in Nodes,
             \/ Disappeared(n) \/ Expire(n) \/ StartEviction(n) \/ Elected(n) \/ EvictionDone(n)
      PROVE  NoticedStep
  <2>1. mem' = mem
    BY <1>3 DEF Disappeared, Expire, StartEviction, Elected, EvictionDone
  <2> QED BY <2>1, QuietStep
<1>4. ASSUME NEW n \in Nodes, Discovered(n) \/ RebalanceNode(n)
      PROVE  NoticedStep
  <2>1. \/ mem' = [mem EXCEPT !.rebalancable = mem.rebalancable \cup {n}]
        \/ mem' = [mem EXCEPT !.rebalancable = mem.rebalancable \ {n}]
    BY <1>4 DEF Discovered, RebalanceNode, Only, Taken
  <2>2. mem'.quorums = mem.quorums
    BY <2>1 DEF Kept, Indexed, Whole
  <2> QED BY <2>2, QuietStep
<1>5. ASSUME NEW n \in Nodes, NEW a \in Addresses, Evict(n, a)
      PROVE  NoticedStep
  BY <1>5, EvictNotices
<1> QED BY <1>1, <1>2, <1>3, <1>4, <1>5 DEF ThreadStep

\* No step leaves a block with too few replicas in the index, be it a load, a
\* confirm, the lookup of owners or an eviction, without scheduling it.
THEOREM PeerLossIsNoticed == Spec => LossIsNoticed
<1> DEFINE Body == \A a \in Addresses :
       ( /\ mem'.quorums[a] \notin {None, mem.quorums[a]}
         /\ UnderReplicated(mem'.quorums[a])
         /\ a \in Immutable \/ (HasPaxos(a) /\ CurrentValue(Decision(a)) # None))
       => a \in mem'.rebalancable
<1>1. Invariant /\ [Next]_vars => [Body]_vars
  <2> SUFFICES ASSUME Invariant, Next, NEW a \in Addresses,
                      mem'.quorums[a] \notin {None, mem.quorums[a]},
                      UnderReplicated(mem'.quorums[a]), Counts(a)
               PROVE  a \in mem'.rebalancable
    BY DEF Counts
  <2>1. CASE NoticedStep
    <3>1. CASE mem' = Blank
      BY <3>1 DEF Blank
    <3>2. ASSUME NEW b \in Addresses, Noticed(mem', b)
          PROVE  a \in mem'.rebalancable
      BY <3>2 DEF Noticed
    <3> QED BY <2>1, <3>1, <3>2 DEF NoticedStep
  <2>2. CASE ClientStep \/ ThreadStep
    BY <2>1, <2>2, ClientNotices, ThreadNotices DEF Invariant
  <2>3. CASE Crash \/ \E b \in Addresses, size \in 0..1 : CrashInSet(b, size)
    BY <2>1, <2>3 DEF Crash, CrashInSet, Restart, NoticedStep
  <2> QED BY <2>2, <2>3 DEF Next
<1> QED BY <1>1, InvariantHolds, PTL DEF Spec, LossIsNoticed

=============================================================================
