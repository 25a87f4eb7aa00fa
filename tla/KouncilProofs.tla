--------------------------- MODULE KouncilProofs ---------------------------
(***************************************************************************)
(* What Kouncil enforces, that it keeps trying to connect, and that what   *)
(* it says of the other nodes is true once their calls are served, for any *)
(* nodes, blocks and bounds.                                               *)
(***************************************************************************)
EXTENDS Kouncil, TLAPS

\* The provers each leaf is tried with in turn, and the seconds each is given.
USE ZenonT(3), SMTT(30), ZenonT(30)

\* What the steps on a connection leave true of each node: the thread of a
\* connection runs for the nodes of _peers, and those it has advertised to are
\* known.
Sound(n) ==
  /\ storing[n] = "yes" => n \in peers
  /\ n \in peers => n \in stale /\ n \notin evicting
  /\ n \in peers <=> link[n] # "none"
  /\ link[n] = "advertised" => reply[n].stamp # 0
  /\ link[n] \in {"fetch", "fetched", "serve"} => infos[n] # 0
  /\ n \notin peers /\ infos[n] # 0 =>
       n \in retrying \/ (slot[n] # None /\ Attempt(n, slot[n]))

Connections ==
  /\ TypeOK
  /\ \A n \in Nodes : Sound(n)
  /\ \A e \in book : e[1] \in peers

-----------------------------------------------------------------------------
LEMMA MergedType ==
  ASSUME NEW q \in Seq(EntryChange)
  PROVE  Merged(q) \subseteq EntryChange /\ Changing(q) \subseteq Blocks
  BY DEF Merged, Changing, EntryChange

LEMMA CallTypes ==
  ASSUME NEW x \in SUBSET EntryChange
  PROVE  /\ [entries |-> x, storing |-> "unknown"] \in Call
         /\ [entries |-> {}, storing |-> "yes"] \in Call
         /\ [entries |-> {}, storing |-> "no"] \in Call
  BY DEF Call, Storing

LEMMA KeyUnion ==
  ASSUME NEW a \in Keys, NEW b \in Keys
  PROVE  a \cup b \in Keys
  BY DEF Keys

LEMMA BlankType == Blank \in Answer
  BY KouncilAssumption DEF Blank, Answer, Storing

LEMMA InitSound == Init => Connections
<1> SUFFICES ASSUME Init PROVE Connections
  OBVIOUS
<1>1. TypeOK
  BY BlankType, KouncilAssumption DEF Init, TypeOK, Stamps, Keys, Storing
<1>2. \A n \in Nodes : Sound(n)
  BY DEF Init, Sound
<1> QED
  BY <1>1, <1>2 DEF Init, Connections

-----------------------------------------------------------------------------
LEMMA HearSteps ==
  ASSUME Connections, NEW m \in Nodes, NEW i \in Stamps, Discover(m, i) \/ Hear(m, i)
  PROVE  Connections'
<1> USE KouncilAssumption
<1>0. TypeOK /\ i \in 1..starts[m] /\ {i} \in Keys /\ i # 0
  BY DEF Connections, Discover, Hear, Keys, Stamps
<1>1. CASE Discover(m, i)
  <2>1. TypeOK'
    BY <1>0, <1>1 DEF TypeOK, Discover, Remember, Dial, known, connection, servers, Keys
  <2>2. \A n \in Nodes : Sound(n)'
    BY <1>0, <1>1 DEF Connections, TypeOK, Sound, Attempt, Discover, Remember, Dial,
       known, connection, servers
  <2> QED
    BY <1>1, <2>1, <2>2 DEF Connections, Discover
<1>2. CASE Hear(m, i)
  <2>0. {i} # None /\ i \in 0..MaxStarts
    BY <1>0 DEF Stamps
  <2>1. CASE m \in peers
    <3>0. UNCHANGED <<connecting, slot>>
      BY <1>2, <2>1 DEF Hear
    <3>1. TypeOK'
      BY <1>0, <1>2, <2>0, <3>0 DEF TypeOK, Hear, Remember, Dial, connection, servers, Keys
    <3>2. \A n \in Nodes : Sound(n)'
      BY <1>0, <1>2, <2>1 DEF Connections, TypeOK, Sound, Attempt, Hear, connection, servers,
         Remember
    <3> QED
      BY <1>2, <3>1, <3>2 DEF Connections, Hear
  <2>2. CASE m \notin peers
    <3>a. endpoints[m] \cup {i} \in Keys
      BY <1>0, KeyUnion DEF TypeOK
    <3>b. endpoints' \in [Nodes -> Keys] /\ stale' \subseteq Nodes
      BY <1>0, <1>2, <3>a DEF TypeOK, Hear, Remember
    <3> DEFINE k == {i}
    <3>c. /\ slot' = [slot EXCEPT ![m] = k] /\ infos' = [infos EXCEPT ![m] = i]
          /\ connecting' = connecting \cup {<<m, k>>} /\ k \in Keys
      BY <1>0, <1>2, <2>2 DEF Hear, Dial
    <3> HIDE DEF k
    <3>d. /\ slot' \in [Nodes -> {None} \cup Keys] /\ infos' \in [Nodes -> 0..MaxStarts]
          /\ connecting' \subseteq Nodes \X Keys
      BY <1>0, <2>0, <3>c DEF TypeOK
    <3>1. TypeOK'
      BY <1>0, <1>2, <3>b, <3>d DEF TypeOK, Hear, connection, servers
    <3>2. k # None
      BY <3>c
    <3>3. \A n \in Nodes : Sound(n)'
      BY <1>0, <1>2, <2>2, <3>c, <3>2 DEF Connections, TypeOK, Sound, Attempt, Hear, Dial,
         connection, servers, Remember
    <3> QED
      BY <1>2, <3>1, <3>3 DEF Connections, Hear
  <2> QED
    BY <2>1, <2>2
<1> QED
  BY <1>1, <1>2

LEMMA AttemptSteps ==
  ASSUME Connections, NEW m \in Nodes, NEW key \in Keys, AttemptStep(m, key)
  PROVE  Connections'
<1> USE KouncilAssumption
<1>0. TypeOK /\ key # None
  BY DEF Connections
<1>1. CASE Connected(m, key)
  <2>1. TypeOK'
    BY <1>0, <1>1 DEF TypeOK, Connected, Over, Clear, servers, Storing
  <2>2. \A n \in Nodes : Sound(n)'
    BY <1>0, <1>1 DEF Connections, TypeOK, Sound, Attempt, Connected, Over, Clear, servers
  <2> QED
    BY <1>1, <2>1, <2>2 DEF Connections, Connected
<1>2. CASE Duplicate(m, key)
  <2>1. TypeOK'
    BY <1>0, <1>2 DEF TypeOK, Duplicate, Over, known, connection, servers
  <2>2. \A n \in Nodes : Sound(n)'
    BY <1>0, <1>2 DEF Connections, TypeOK, Sound, Attempt, Duplicate, Over, known, connection,
       servers
  <2> QED
    BY <1>2, <2>1, <2>2 DEF Connections, Duplicate
<1>3. CASE Refused(m, key)
  <2>1. TypeOK'
    BY <1>0, <1>3 DEF TypeOK, Refused, Failed, Over, known, connection, servers
  <2>2. \A n \in Nodes : Sound(n)'
    BY <1>0, <1>3 DEF Connections, TypeOK, Sound, Attempt, Refused, Failed, Over, known,
       connection, servers
  <2> QED
    BY <1>3, <2>1, <2>2 DEF Connections, Refused
<1> QED
  BY <1>1, <1>2, <1>3 DEF AttemptStep

LEMMA TimerSteps ==
  ASSUME Connections, NEW m \in Nodes, RetryTimer(m) \/ EvictTimer(m)
  PROVE  Connections'
<1> USE KouncilAssumption
<1>0. TypeOK /\ endpoints[m] \in Keys /\ endpoints[m] # None
  BY DEF Connections, TypeOK
<1>1. CASE RetryTimer(m)
  <2>1. TypeOK'
    BY <1>0, <1>1 DEF TypeOK, RetryTimer, Connect, Dial, known, connection, servers
  <2>2. \A n \in Nodes : Sound(n)'
    BY <1>0, <1>1 DEF Connections, TypeOK, Sound, Attempt, RetryTimer, Connect, Dial, known,
       connection, servers
  <2> QED
    BY <1>1, <2>1, <2>2 DEF Connections, RetryTimer
<1>2. CASE EvictTimer(m)
  <2>1. TypeOK'
    BY <1>0, <1>2 DEF TypeOK, EvictTimer, Clear, Erase, connection, servers, Storing, Keys
  <2>2. \A n \in Nodes : Sound(n)'
    <3>1. m \notin peers
      BY <1>2 DEF Connections, Sound, EvictTimer
    <3>2. infos'[m] = 0 /\ storing'[m] # "yes"
      BY <1>0, <1>2 DEF TypeOK, EvictTimer
    <3>3. Sound(m)'
      BY <1>2, <3>1, <3>2 DEF Connections, Sound, EvictTimer, connection, servers
    <3>4. ASSUME NEW n \in Nodes \ {m} PROVE Sound(n)'
      <4>1. /\ infos'[n] = infos[n] /\ storing'[n] = storing[n] /\ slot'[n] = slot[n]
            /\ n \in stale' <=> n \in stale
            /\ n \in evicting' <=> n \in evicting
            /\ n \in retrying' <=> n \in retrying
        BY <1>0, <1>2 DEF TypeOK, EvictTimer, Clear
      <4>2. UNCHANGED <<peers, link, reply, connecting>>
        BY <1>2 DEF EvictTimer, connection
      <4> QED
        BY <4>1, <4>2 DEF Connections, Sound, Attempt
    <3> QED
      BY <3>3, <3>4
  <2> QED
    BY <1>2, <2>1, <2>2 DEF Connections, EvictTimer, Erase
<1> QED
  BY <1>1, <1>2

LEMMA ConnectionSteps ==
  ASSUME Connections, NEW m \in Nodes,
         Advertise(m) \/ Advertised(m) \/ FetchEntries(m) \/ Fetched(m) \/ Serve(m)
  PROVE  Connections'
<1> USE KouncilAssumption
<1>0. TypeOK
  BY DEF Connections
<1>1. CASE Advertise(m)
  <2>0. starts[m] \in 0..MaxStarts /\ starts[m] # 0 /\ accepting[m] \in Storing
    BY <1>0 DEF TypeOK, Stamps, Storing
  <2> DEFINE r == [stamp |-> starts[m], storing |-> accepting[m], blocks |-> {}]
  <2>2. reply' = [reply EXCEPT ![m] = r]
    BY <1>1 DEF Advertise
  <2>3. r \in Answer /\ r.stamp # 0
    BY <2>0 DEF Answer
  <2> HIDE DEF r
  <2>4. TypeOK'
    <3>0. link' = [link EXCEPT ![m] = "advertised"]
      BY <1>1 DEF Advertise
    <3>1. reply' \in [Nodes -> Answer]
      BY <1>0, <2>2, <2>3 DEF TypeOK
    <3>2. UNCHANGED <<kouncil, connecting, inbox, servers>>
      BY <1>1 DEF Advertise
    <3> QED
      BY <1>0, <3>0, <3>1, <3>2 DEF TypeOK, kouncil, known, entries, servers
  <2>5. \A n \in Nodes : Sound(n)'
    BY <1>0, <1>1, <2>2, <2>3 DEF Connections, TypeOK, Sound, Attempt, Advertise, kouncil,
       known, entries, servers
  <2> QED
    BY <1>1, <2>4, <2>5 DEF Connections, Advertise, kouncil
<1>2. CASE Advertised(m)
  <2>0. /\ Blank \in Answer /\ reply[m] \in Answer
        /\ reply[m].stamp \in Stamps /\ reply[m].storing \in Storing
        /\ {reply[m].stamp} \in Keys
    BY <1>0, <1>2, BlankType DEF Connections, Sound, TypeOK, Advertised, Answer, Stamps, Keys
  <2> DEFINE s == reply[m].stamp
             t == reply[m].storing
  <2>a. s \in Stamps /\ t \in Storing /\ {s} \in Keys /\ s \in 0..MaxStarts /\ s # 0
    BY <2>0 DEF Stamps
  <2>b. /\ link[m] = "advertised" /\ link' = [link EXCEPT ![m] = "fetch"]
        /\ storing' = [storing EXCEPT ![m] = t]
        /\ reply' = [reply EXCEPT ![m] = Blank]
        /\ \/ /\ infos[m] < s /\ infos' = [infos EXCEPT ![m] = s]
              /\ stale' = stale \cup {m}
              /\ endpoints' = [endpoints EXCEPT ![m] = @ \cup {s}]
           \/ /\ ~(infos[m] < s)
              /\ UNCHANGED <<infos, stale, endpoints>>
    BY <1>2 DEF Advertised, AnsweredStoring, Remember
  <2>1. /\ s \in Stamps /\ t \in Storing /\ {s} \in Keys /\ s \in 0..MaxStarts /\ s # 0
        /\ link[m] = "advertised" /\ link' = [link EXCEPT ![m] = "fetch"]
        /\ storing' = [storing EXCEPT ![m] = t]
        /\ reply' = [reply EXCEPT ![m] = Blank]
        /\ \/ /\ infos[m] < s /\ infos' = [infos EXCEPT ![m] = s]
              /\ stale' = stale \cup {m}
              /\ endpoints' = [endpoints EXCEPT ![m] = @ \cup {s}]
           \/ /\ ~(infos[m] < s)
              /\ UNCHANGED <<infos, stale, endpoints>>
    BY <2>a, <2>b
  <2>2. UNCHANGED <<peers, book, slot, retrying, evicting, connecting, inbox, up, starts,
                    stored, accepting, queue, muddled>>
    BY <1>2 DEF Advertised, servers
  <2> HIDE DEF s, t
  <2>3. TypeOK'
    <3> DEFINE k == endpoints[m] \cup {s}
    <3>0. k \in Keys
      BY <1>0, <2>1, KeyUnion DEF TypeOK
    <3>1. CASE infos[m] < s
      <4>1. /\ infos' = [infos EXCEPT ![m] = s] /\ stale' = stale \cup {m}
            /\ endpoints' = [endpoints EXCEPT ![m] = k]
        BY <2>1, <3>1
      <4> HIDE DEF k
      <4> QED
        BY <1>0, <2>0, <2>1, <2>2, <3>0, <4>1 DEF TypeOK
    <3>2. CASE ~(infos[m] < s)
      <4>1. UNCHANGED <<infos, stale, endpoints>>
        BY <2>1, <3>2
      <4> QED
        BY <1>0, <2>0, <2>1, <2>2, <4>1 DEF TypeOK
    <3> QED
      BY <3>1, <3>2
  <2>4. \A n \in Nodes : Sound(n)'
    <3>1. infos'[m] # 0 /\ \A n \in Nodes \ {m} : infos'[n] = infos[n]
      BY <1>0, <2>1 DEF TypeOK, Stamps
    <3>2. m \in peers
      BY <2>1 DEF Connections, Sound
    <3> QED
      BY <1>0, <2>1, <2>2, <3>1, <3>2 DEF Connections, TypeOK, Sound, Attempt
  <2> QED
    BY <2>2, <2>3, <2>4 DEF Connections
<1>3. CASE FetchEntries(m)
  <2>1. [stamp |-> 0, storing |-> "unknown", blocks |-> stored[m]] \in Answer
    BY <1>0 DEF TypeOK, Answer, Storing
  <2>2. TypeOK'
    BY <1>0, <1>3, <2>1 DEF TypeOK, FetchEntries, kouncil, known, entries, servers
  <2>3. \A n \in Nodes : Sound(n)'
    BY <1>0, <1>3 DEF Connections, TypeOK, Sound, Attempt, FetchEntries, kouncil,
       known, entries, servers
  <2> QED
    BY <1>3, <2>2, <2>3 DEF Connections, FetchEntries, kouncil
<1>4. CASE Fetched(m)
  <2>1. Blank \in Answer /\ reply[m].blocks \subseteq Blocks /\ m \in peers
    BY <1>0, <1>4, BlankType DEF Connections, Sound, Fetched, TypeOK, Answer
  <2>2. book' \subseteq Nodes \X Blocks /\ \A e \in book' : e \in book \/ e[1] = m
    BY <1>0, <1>4, <2>1 DEF Fetched, TypeOK
  <2>3. TypeOK'
    BY <1>0, <1>4, <2>1, <2>2 DEF TypeOK, Fetched, known, entries, servers
  <2>4. \A n \in Nodes : Sound(n)'
    BY <1>0, <1>4 DEF Connections, TypeOK, Sound, Attempt, Fetched, known, entries, servers
  <2> QED
    BY <1>4, <2>1, <2>2, <2>3, <2>4 DEF Connections, Fetched
<1>5. CASE Serve(m)
  <2> DEFINE c == Head(inbox[m])
  <2>1. c \in Call /\ Tail(inbox[m]) \in Seq(Call) /\ m \in peers
    BY <1>0, <1>5 DEF Connections, Sound, Serve, TypeOK
  <2>2. c.entries \subseteq EntryChange /\ c.storing \in Storing
    BY <2>1 DEF Call
  <2>3. /\ book' = Changed(m, c)
        /\ storing' = IF c.storing = "unknown" THEN storing
                      ELSE [storing EXCEPT ![m] = c.storing]
    BY <1>5 DEF Serve
  <2> HIDE DEF c
  <2>4. book' \subseteq Nodes \X Blocks /\ \A e \in book' : e \in book \/ e[1] = m
    BY <1>0, <2>2, <2>3 DEF Changed, TypeOK, EntryChange
  <2>5. TypeOK'
    BY <1>0, <1>5, <2>1, <2>2, <2>3, <2>4 DEF TypeOK, Serve, entries, servers
  <2>6. \A n \in Nodes : Sound(n)'
    BY <1>0, <1>5, <2>1, <2>3 DEF Connections, TypeOK, Sound, Attempt, Serve, entries, servers
  <2> QED
    BY <1>5, <2>1, <2>4, <2>5, <2>6 DEF Connections, Serve
<1> QED
  BY <1>1, <1>2, <1>3, <1>4, <1>5

LEMMA LossSteps ==
  ASSUME Connections, NEW m \in Nodes, Noticed(m) \/ Lost(m)
  PROVE  Connections'
<1> USE KouncilAssumption
<1>0. TypeOK /\ endpoints[m] \in Keys /\ endpoints[m] # None /\ Blank \in Answer
  BY BlankType DEF Connections, TypeOK
<1>1. Disconnected(m) /\ link[m] # "none"
  BY DEF Noticed, Lost
<1>2. m \in stale
  BY <1>1 DEF Connections, Sound
<1>3. TypeOK'
  BY <1>0, <1>1 DEF TypeOK, Disconnected, Erase, Reconnect, Connect, Dial, Storing
<1>4. \A n \in Nodes : Sound(n)'
  BY <1>0, <1>1, <1>2 DEF Connections, TypeOK, Sound, Attempt, Disconnected, Reconnect,
     Connect, Dial
<1> QED
  BY <1>1, <1>3, <1>4 DEF Connections, Disconnected, Erase

LEMMA NodeSteps ==
  ASSUME Connections, NEW m \in Nodes,
         \/ \E b \in Blocks : Store(m, b) \/ Remove(m, b)
         \/ StoringChanges(m) \/ Broadcast(m) \/ Down(m) \/ Up(m)
  PROVE  Connections'
<1> USE KouncilAssumption
<1>0. TypeOK /\ Blank \in Answer
  BY BlankType DEF Connections
<1>1. UNCHANGED <<peers, infos, storing, book, stale, endpoints, slot, retrying, evicting,
                  connecting>>
  BY DEF Store, Remove, StoringChanges, Broadcast, Down, Up, kouncil, known, entries
<1>2. \/ link' = link /\ reply' = reply
      \/ /\ link' = [link EXCEPT ![m] = IF @ = "none" THEN @ ELSE "broken"]
         /\ reply' = [reply EXCEPT ![m] = Blank]
  BY DEF Store, Remove, StoringChanges, Broadcast, Down, Up, connection
<1>3. \A n \in Nodes : Sound(n)'
  BY <1>0, <1>1, <1>2 DEF Connections, TypeOK, Sound, Attempt
<1>4. ASSUME NEW b \in Blocks, Store(m, b) \/ Remove(m, b)
      PROVE  TypeOK'
  <2>1. PICK v \in BOOLEAN : queue' = [queue EXCEPT ![m] = Append(@, <<b, v>>)]
    BY <1>4 DEF Store, Remove
  <2>2. <<b, v>> \in EntryChange
    BY DEF EntryChange
  <2>3. queue' \in [Nodes -> Seq(EntryChange)]
    BY <1>0, <2>1, <2>2 DEF TypeOK
  <2>4. stored' \in [Nodes -> SUBSET Blocks]
    <3>1. PICK x \in SUBSET Blocks : stored' = [stored EXCEPT ![m] = x]
      <4>1. stored[m] \cup {b} \in SUBSET Blocks /\ stored[m] \ {b} \in SUBSET Blocks
        BY <1>0 DEF TypeOK
      <4> QED
        BY <1>4, <4>1 DEF Store, Remove
    <3> QED
      BY <1>0, <3>1 DEF TypeOK
  <2>5. UNCHANGED <<link, reply, inbox, up, starts, accepting, muddled>>
    BY <1>4 DEF Store, Remove, connection
  <2> QED
    BY <1>0, <1>1, <2>3, <2>4, <2>5 DEF TypeOK
<1>5. ASSUME StoringChanges(m) PROVE TypeOK'
  <2> DEFINE v == IF accepting[m] = "yes" THEN "no" ELSE "yes"
             c == [entries |-> {}, storing |-> v]
  <2>0. v \in {"yes", "no"} /\ c \in Call
    BY CallTypes
  <2>a. accepting' = [accepting EXCEPT ![m] = v] /\ Tell(m, c)
    BY <1>5 DEF StoringChanges
  <2> HIDE DEF v, c
  <2>1. /\ accepting' \in [Nodes -> {"yes", "no"}]
        /\ inbox' \in [Nodes -> Seq(Call)]
    BY <1>0, <2>0, <2>a DEF TypeOK, Tell
  <2> QED
    BY <1>0, <1>1, <1>5, <2>1 DEF TypeOK, StoringChanges
<1>6. ASSUME Broadcast(m) PROVE TypeOK'
  <2>1. /\ queue[m] \in Seq(EntryChange) /\ Changing(queue[m]) \subseteq Blocks
        /\ Muddles(queue[m]) \subseteq Blocks
        /\ [entries |-> Merged(queue[m]), storing |-> "unknown"] \in Call
    BY <1>0, MergedType, CallTypes DEF TypeOK, Muddles
  <2>2. inbox' \in [Nodes -> Seq(Call)]
    BY <1>0, <1>6, <2>1 DEF TypeOK, Broadcast, Tell
  <2>3. muddled' \subseteq Nodes \X Blocks
    BY <1>0, <1>6, <2>1 DEF TypeOK, Broadcast
  <2>4. queue' \in [Nodes -> Seq(EntryChange)]
    BY <1>0, <1>6 DEF TypeOK, Broadcast
  <2>5. UNCHANGED <<link, reply, up, starts, stored, accepting>>
    BY <1>6 DEF Broadcast
  <2> QED
    BY <1>0, <1>1, <2>2, <2>3, <2>4, <2>5 DEF TypeOK
<1>7. ASSUME Down(m) PROVE TypeOK'
  BY <1>0, <1>1, <1>7 DEF TypeOK, Down
<1>8. ASSUME Up(m) PROVE TypeOK'
  <2>1. starts' \in [Nodes -> Stamps]
    BY <1>0, <1>8 DEF TypeOK, Up, Stamps
  <2>2. up' \subseteq Nodes /\ accepting' \in [Nodes -> {"yes", "no"}]
    BY <1>0, <1>8 DEF TypeOK, Up
  <2>3. UNCHANGED <<link, reply, inbox, stored, queue, muddled>>
    BY <1>8 DEF Up, connection
  <2> QED
    BY <1>0, <1>1, <2>1, <2>2, <2>3 DEF TypeOK
<1>9. TypeOK'
  BY <1>4, <1>5, <1>6, <1>7, <1>8
<1> QED
  BY <1>1, <1>3, <1>9 DEF Connections

LEMMA NextSound == Connections /\ [Next]_vars => Connections'
<1> SUFFICES ASSUME Connections, [Next]_vars PROVE Connections'
  OBVIOUS
<1>1. CASE UNCHANGED vars
  BY <1>1 DEF vars, kouncil, known, entries, connection, servers, Connections, TypeOK, Sound,
     Attempt
<1>2. CASE Next
  <2>1. PICK m \in Nodes : Step(m)
    BY <1>2 DEF Next
  <2> QED
    BY <2>1, HearSteps, AttemptSteps, TimerSteps, ConnectionSteps, LossSteps, NodeSteps DEF Step
<1> QED
  BY <1>1, <1>2

\* The invariant holds of every behaviour.
THEOREM ConnectionsHold == Spec => []Connections
  BY InitSound, NextSound, PTL DEF Spec

\* What the code of Kouncil enforces or asserts holds.
THEOREM EnforcedHolds == Spec => []Enforced
<1>1. ASSUME Connections PROVE Enforced
  <2>1. Allocatable \subseteq peers
    BY <1>1 DEF Connections, Sound, Allocatable
  <2>2. peers \subseteq stale /\ peers \cap evicting = {}
    BY <1>1 DEF Connections, TypeOK, Sound
  <2>3. \A n \in Nodes : link[n] = "serve" => infos[n] # 0
    BY <1>1 DEF Connections, Sound
  <2> QED
    BY <1>1, <2>1, <2>2, <2>3 DEF Connections, Enforced
<1> QED
  BY <1>1, ConnectionsHold, PTL

\* Kouncil keeps trying to connect to the nodes it knows of.
THEOREM KeepsTryingHolds == Spec => []KeepsTrying
<1>1. Connections => KeepsTrying
  BY DEF Connections, Sound, KeepsTrying
<1> QED
  BY <1>1, ConnectionsHold, PTL

\* The variables of Kouncil have the values they are meant to have.
THEOREM KouncilTypes == Spec => []TypeOK
<1>1. Connections => TypeOK
  BY DEF Connections
<1> QED
  BY <1>1, ConnectionsHold, PTL

-----------------------------------------------------------------------------
(* What the Kouncil says of a connected node, corrected by the calls that  *)
(* wait to be served and the changes that wait to be broadcast.            *)

Settled(q) == \A i \in 1..Len(q) : ChangesEntries(q[i])

\* The last call of q that configures, if any, says v.
LastSays(q, v) ==
  \A i \in 1..Len(q) :
    ~ChangesEntries(q[i]) /\ (\A j \in (i + 1)..Len(q) : ChangesEntries(q[j]))
      => q[i].storing = v

\* The calls of q say of b that it is stored, if v.
Says(q, b, v) ==
  \A i \in 1..Len(q) : \A w \in BOOLEAN : <<b, w>> \in q[i].entries => (w <=> v)
Silent(q, b) == \A i \in 1..Len(q) : \A w \in BOOLEAN : <<b, w>> \notin q[i].entries

\* A call that configures changes no entry.
Bare(q) == \A i \in 1..Len(q) : ~ChangesEntries(q[i]) => q[i].entries = {}

\* The last change of b that q holds is to v.
Ends(q, b, v) == \E i \in 1..Len(q) : Last(q, i) /\ q[i][1] = b /\ (q[i][2] <=> v)

Heard(n) ==
  /\ n \notin up => ~Live(n)
  /\ ~Live(n) => inbox[n] = << >>
  /\ LastSays(inbox[n], accepting[n])
  /\ Settled(inbox[n]) =>
       /\ link[n] = "advertised" => reply[n].storing = accepting[n]
       /\ link[n] \in {"fetch", "fetched", "serve"} => storing[n] = accepting[n]

Agrees(n, b) ==
  /\ b \in Changing(queue[n]) => Ends(queue[n], b, b \in stored[n])
  /\ link[n] \notin {"serve", "broken"} => <<n, b>> \notin book
  /\ (Live(n) /\ b \notin Changing(queue[n]) /\ <<n, b>> \notin muddled) =>
       /\ Says(inbox[n], b, b \in stored[n])
       /\ Silent(inbox[n], b) =>
            /\ link[n] = "fetched" => (b \in reply[n].blocks <=> b \in stored[n])
            /\ link[n] = "serve" => (<<n, b>> \in book <=> b \in stored[n])

True(n) == Heard(n) /\ Bare(inbox[n]) /\ \A b \in Blocks : Agrees(n, b)

\* Calls that arrive.
LEMMA ConfigureArrives ==
  ASSUME NEW q \in Seq(Call), NEW c \in Call, ~ChangesEntries(c), c.entries = {},
         NEW b
  PROVE  /\ LastSays(Append(q, c), c.storing) /\ ~Settled(Append(q, c))
         /\ Bare(q) => Bare(Append(q, c))
         /\ Silent(Append(q, c), b) => Silent(q, b)
         /\ \A v \in BOOLEAN : Says(q, b, v) => Says(Append(q, c), b, v)
<1> DEFINE r == Append(q, c)
<1>1. /\ Len(r) = Len(q) + 1 /\ r[Len(q) + 1] = c /\ Len(q) \in Nat
      /\ \A i \in 1..Len(q) : r[i] = q[i]
  OBVIOUS
<1> HIDE DEF r
<1>2. \A i \in 1..Len(r) : (i \in 1..Len(q) /\ r[i] = q[i] /\ Len(r) \in (i + 1)..Len(r))
                           \/ (i = Len(r) /\ r[i] = c)
  BY <1>1
<1>3. Len(r) \in 1..Len(r) /\ r[Len(r)] = c /\ 1..Len(q) \subseteq 1..Len(r)
  BY <1>1
<1>4. LastSays(r, c.storing) /\ ~Settled(r)
  BY <1>2, <1>3 DEF LastSays, Settled
<1>5. Bare(q) => Bare(r)
  BY <1>2 DEF Bare
<1>6. Silent(r, b) => Silent(q, b)
  BY <1>1, <1>3 DEF Silent
<1>7. \A v \in BOOLEAN : Says(q, b, v) => Says(r, b, v)
  BY <1>2 DEF Says
<1> QED BY <1>4, <1>5, <1>6, <1>7 DEF r

LEMMA EntriesArrive ==
  ASSUME NEW q \in Seq(Call), NEW c \in Call, ChangesEntries(c), NEW b, NEW v
  PROVE  /\ LastSays(q, v) => LastSays(Append(q, c), v)
         /\ Settled(Append(q, c)) => Settled(q)
         /\ Bare(q) => Bare(Append(q, c))
         /\ Silent(Append(q, c), b) =>
              Silent(q, b) /\ \A w \in BOOLEAN : <<b, w>> \notin c.entries
<1> DEFINE r == Append(q, c)
<1>1. /\ Len(r) = Len(q) + 1 /\ r[Len(q) + 1] = c /\ Len(q) \in Nat
      /\ \A i \in 1..Len(q) : r[i] = q[i]
  OBVIOUS
<1> HIDE DEF r
<1>2. \A i \in 1..Len(r) : (i \in 1..Len(q) /\ r[i] = q[i]) \/ (i = Len(r) /\ r[i] = c)
  BY <1>1
<1>3. Len(r) \in 1..Len(r) /\ r[Len(r)] = c /\ 1..Len(q) \subseteq 1..Len(r)
  BY <1>1
<1>4. ASSUME LastSays(q, v) PROVE LastSays(r, v)
  <2>1. ASSUME NEW i \in 1..Len(r), ~ChangesEntries(r[i]),
               \A j \in (i + 1)..Len(r) : ChangesEntries(r[j])
        PROVE  r[i].storing = v
    <3>1. i \in 1..Len(q) /\ r[i] = q[i]
      BY <1>2, <2>1
    <3>2. \A j \in (i + 1)..Len(q) : j \in (i + 1)..Len(r) /\ r[j] = q[j]
      BY <1>1, <3>1
    <3> QED BY <1>4, <2>1, <3>1, <3>2 DEF LastSays
  <2> QED BY <2>1 DEF LastSays
<1>5. Settled(r) => Settled(q)
  BY <1>1, <1>3 DEF Settled
<1>6. Bare(q) => Bare(r)
  BY <1>2 DEF Bare
<1>7. Silent(r, b) => Silent(q, b) /\ \A w \in BOOLEAN : <<b, w>> \notin c.entries
  BY <1>1, <1>3 DEF Silent
<1> QED BY <1>4, <1>5, <1>6, <1>7 DEF r

\* What a broadcast says of a block of which no call says anything.
LEMMA SaysArrives ==
  ASSUME NEW q \in Seq(Call), NEW c \in Call, NEW b, NEW u, Silent(q, b),
         \A w \in BOOLEAN : <<b, w>> \in c.entries => (w <=> u)
  PROVE  /\ Says(Append(q, c), b, u)
         /\ (\E w \in BOOLEAN : <<b, w>> \in c.entries) => ~Silent(Append(q, c), b)
<1> DEFINE r == Append(q, c)
<1>1. /\ Len(r) = Len(q) + 1 /\ r[Len(q) + 1] = c /\ Len(q) \in Nat
      /\ \A i \in 1..Len(q) : r[i] = q[i]
  OBVIOUS
<1> HIDE DEF r
<1>2. \A i \in 1..Len(r) : (i \in 1..Len(q) /\ r[i] = q[i]) \/ (i = Len(r) /\ r[i] = c)
  BY <1>1
<1>3. Len(r) \in 1..Len(r) /\ r[Len(r)] = c
  BY <1>1
<1>4. Says(r, b, u)
  BY <1>2 DEF Says, Silent
<1>5. (\E w \in BOOLEAN : <<b, w>> \in c.entries) => ~Silent(r, b)
  BY <1>3 DEF Silent
<1> QED BY <1>4, <1>5 DEF r

\* A call that is served.
LEMMA CallServed ==
  ASSUME NEW q \in Seq(Call), q # << >>, NEW v
  PROVE  /\ LastSays(q, v) =>
              /\ LastSays(Tail(q), v)
              /\ Settled(Tail(q)) /\ ~ChangesEntries(Head(q)) => Head(q).storing = v
         /\ Settled(Tail(q)) /\ ChangesEntries(Head(q)) => Settled(q)
         /\ Bare(q) => Bare(Tail(q)) /\ (~ChangesEntries(Head(q)) => Head(q).entries = {})
<1> DEFINE r == Tail(q)
           c == Head(q)
<1>1. /\ Len(r) = Len(q) - 1 /\ c = q[1] /\ Len(q) \in Nat /\ Len(q) # 0
      /\ \A i \in 1..Len(r) : r[i] = q[i + 1]
  OBVIOUS
<1> HIDE DEF r, c
<1>2. \A i \in 1..Len(r) : i + 1 \in 1..Len(q) /\ r[i] = q[i + 1]
  BY <1>1
<1>3. \A i \in 1..Len(q) : (i = 1 /\ q[i] = c) \/ (i - 1 \in 1..Len(r) /\ q[i] = r[i - 1])
  BY <1>1
<1>4. 1 \in 1..Len(q)
  BY <1>1
<1>5. ASSUME LastSays(q, v), NEW i \in 1..Len(r), ~ChangesEntries(r[i]),
             \A j \in (i + 1)..Len(r) : ChangesEntries(r[j])
      PROVE  r[i].storing = v
  <2>1. \A j \in ((i + 1) + 1)..Len(q) : j - 1 \in (i + 1)..Len(r) /\ q[j] = r[j - 1]
    BY <1>1, <1>3
  <2>2. \A j \in ((i + 1) + 1)..Len(q) : ChangesEntries(q[j])
    BY <1>5, <2>1
  <2> QED BY <1>2, <1>5, <2>2 DEF LastSays
<1>6. ASSUME LastSays(q, v), Settled(r), ~ChangesEntries(c)
      PROVE  c.storing = v
  <2>1. \A j \in (1 + 1)..Len(q) : j - 1 \in 1..Len(r) /\ q[j] = r[j - 1]
    BY <1>1, <1>3
  <2>2. \A j \in (1 + 1)..Len(q) : ChangesEntries(q[j])
    BY <1>6, <2>1 DEF Settled
  <2> QED BY <1>1, <1>4, <1>6, <2>2 DEF LastSays
<1>7. Settled(r) /\ ChangesEntries(c) => Settled(q)
  BY <1>3 DEF Settled
<1>8. Bare(q) => Bare(r) /\ (~ChangesEntries(c) => c.entries = {})
  BY <1>1, <1>2, <1>4 DEF Bare
<1>9. LastSays(q, v) => LastSays(r, v)
  BY <1>5 DEF LastSays
<1> QED BY <1>6, <1>7, <1>8, <1>9 DEF r, c

LEMMA EntriesServed ==
  ASSUME NEW q \in Seq(Call), q # << >>, NEW b, NEW u \in BOOLEAN, Says(q, b, u)
  PROVE  /\ Says(Tail(q), b, u)
         /\ \A w \in BOOLEAN : <<b, w>> \in Head(q).entries => (w <=> u)
         /\ (Silent(Tail(q), b) /\ \A w \in BOOLEAN : <<b, w>> \notin Head(q).entries)
              => Silent(q, b)
<1> DEFINE r == Tail(q)
           c == Head(q)
<1>1. /\ Len(r) = Len(q) - 1 /\ c = q[1] /\ Len(q) \in Nat /\ Len(q) # 0
      /\ \A i \in 1..Len(r) : r[i] = q[i + 1]
  OBVIOUS
<1> HIDE DEF r, c
<1>2. \A i \in 1..Len(r) : i + 1 \in 1..Len(q) /\ r[i] = q[i + 1]
  BY <1>1
<1>3. \A i \in 1..Len(q) : (i = 1 /\ q[i] = c) \/ (i - 1 \in 1..Len(r) /\ q[i] = r[i - 1])
  BY <1>1
<1>4. 1 \in 1..Len(q)
  BY <1>1
<1>5. Says(r, b, u) /\ \A w \in BOOLEAN : <<b, w>> \in c.entries => (w <=> u)
  BY <1>1, <1>2, <1>4 DEF Says
<1>6. (Silent(r, b) /\ \A w \in BOOLEAN : <<b, w>> \notin c.entries) => Silent(q, b)
  BY <1>3 DEF Silent
<1> QED BY <1>5, <1>6 DEF r, c

\* No call.
LEMMA NoCall ==
  ASSUME NEW b, NEW v
  PROVE  /\ LastSays(<< >>, v) /\ Settled(<< >>) /\ Bare(<< >>)
         /\ Says(<< >>, b, v) /\ Silent(<< >>, b)
BY DEF LastSays, Settled, Bare, Says, Silent

\* A change that is queued.
LEMMA ChangeQueued ==
  ASSUME NEW q \in Seq(EntryChange), NEW e \in EntryChange
  PROVE  /\ Changing(Append(q, e)) = Changing(q) \cup {e[1]}
         /\ Ends(Append(q, e), e[1], e[2])
         /\ \A b, v : b # e[1] /\ Ends(q, b, v) => Ends(Append(q, e), b, v)
<1> DEFINE r == Append(q, e)
<1>1. /\ Len(r) = Len(q) + 1 /\ r[Len(q) + 1] = e /\ Len(q) \in Nat
      /\ \A i \in 1..Len(q) : r[i] = q[i]
  OBVIOUS
<1> HIDE DEF r
<1>2. \A i \in 1..Len(r) : (i \in 1..Len(q) /\ r[i] = q[i]) \/ (i = Len(r) /\ r[i] = e)
  BY <1>1
<1>3. Len(r) \in 1..Len(r) /\ r[Len(r)] = e /\ 1..Len(q) \subseteq 1..Len(r)
  BY <1>1
<1>4. Changing(r) = Changing(q) \cup {e[1]}
  BY <1>1, <1>2, <1>3 DEF Changing
<1>5. Ends(r, e[1], e[2])
  <2>1. Last(r, Len(r))
    BY <1>1 DEF Last
  <2> QED BY <1>3, <2>1 DEF Ends
<1>6. ASSUME NEW b, NEW v, b # e[1], Ends(q, b, v)
      PROVE  Ends(r, b, v)
  <2>1. PICK i \in 1..Len(q) : Last(q, i) /\ q[i][1] = b /\ (q[i][2] <=> v)
    BY <1>6 DEF Ends
  <2>2. i \in 1..Len(r) /\ r[i] = q[i]
    BY <1>1, <1>3
  <2>3. ASSUME NEW j \in (i + 1)..Len(r) PROVE r[j][1] # r[i][1]
    <3>1. CASE j = Len(r)
      BY <1>3, <1>6, <2>1, <2>2, <3>1
    <3>2. CASE j # Len(r)
      <4>1. j \in (i + 1)..Len(q) /\ r[j] = q[j]
        BY <1>1, <2>1, <2>3, <3>2
      <4> QED BY <2>1, <2>2, <4>1 DEF Last
    <3> QED BY <3>1, <3>2
  <2>4. Last(r, i)
    BY <2>3 DEF Last
  <2> QED BY <2>1, <2>2, <2>4 DEF Ends
<1> QED BY <1>4, <1>5, <1>6 DEF r

\* What is broadcast of a block that is not muddled is its last change.
LEMMA MergedLast ==
  ASSUME NEW q \in Seq(EntryChange), NEW b \in Changing(q), b \notin Muddles(q),
         NEW v \in BOOLEAN, Ends(q, b, v)
  PROVE  /\ \A w \in BOOLEAN : <<b, w>> \in Merged(q) => (w <=> v)
         /\ \E w \in BOOLEAN : <<b, w>> \in Merged(q)
<1>1. PICK i \in 1..Len(q) : Last(q, i) /\ q[i][1] = b /\ (q[i][2] <=> v)
  BY DEF Ends
<1>2. q[i] \in Merged(q) /\ q[i] \in EntryChange
  BY <1>1 DEF Muddles
<1>3. q[i] = <<b, q[i][2]>> /\ q[i][2] \in BOOLEAN
  BY <1>1, <1>2 DEF EntryChange
<1>4. ASSUME NEW w \in BOOLEAN, <<b, w>> \in Merged(q)
      PROVE  w <=> v
  <2>1. PICK k \in 1..Len(q) : First(q, k) /\ q[k] = q[i]
    BY <1>2 DEF Merged
  <2>2. PICK j \in 1..Len(q) : First(q, j) /\ q[j] = <<b, w>>
    BY <1>4 DEF Merged
  <2>3. q[j][1] = b /\ q[k][1] = b
    BY <1>1, <2>1, <2>2
  <2>4. ~(k \in 1..(j - 1)) /\ ~(j \in 1..(k - 1))
    BY <2>1, <2>2, <2>3 DEF First
  <2>5. k = j
    BY <2>4
  <2>6. q[i][2] = w
    BY <2>1, <2>2, <2>5
  <2> QED BY <1>1, <2>6
<1> QED BY <1>2, <1>3, <1>4

-----------------------------------------------------------------------------
(* The steps.                                                              *)

\* The step is not about n.
Aside(n) ==
  /\ (n \in up') = (n \in up)
  /\ link'[n] = link[n] /\ reply'[n] = reply[n] /\ inbox'[n] = inbox[n]
  /\ accepting'[n] = accepting[n] /\ storing'[n] = storing[n]
  /\ stored'[n] = stored[n] /\ queue'[n] = queue[n]
  /\ \A b \in Blocks : (<<n, b>> \in book') = (<<n, b>> \in book)
  /\ \A b \in Blocks : (<<n, b>> \in muddled') = (<<n, b>> \in muddled)

LEMMA AsideTrue ==
  ASSUME NEW n \in Nodes, True(n), Aside(n)
  PROVE  True(n)'
<1>1. Heard(n)'
  BY DEF True, Heard, Aside, Live
<1>2. \A b \in Blocks : Agrees(n, b)'
  BY DEF True, Agrees, Aside, Live
<1> QED BY <1>1, <1>2 DEF True, Aside

LEMMA OthersAside ==
  ASSUME TypeOK, NEW m \in Nodes, Step(m), NEW n \in Nodes, n # m
  PROVE  Aside(n)
<1> USE DEF TypeOK, Aside, kouncil, known, entries, connection, servers
<1>1. ASSUME NEW i \in Stamps, Discover(m, i) \/ Hear(m, i) PROVE Aside(n)
  BY <1>1 DEF Discover, Hear
<1>2. ASSUME NEW key \in Keys, AttemptStep(m, key) PROVE Aside(n)
  BY <1>2 DEF AttemptStep, Connected, Duplicate, Refused
<1>3. CASE RetryTimer(m) \/ EvictTimer(m)
  BY <1>3 DEF RetryTimer, EvictTimer, Erase
<1>4. CASE Advertise(m) \/ Advertised(m) \/ FetchEntries(m)
  BY <1>4 DEF Advertise, Advertised, AnsweredStoring, FetchEntries
<1>5. CASE Fetched(m)
  BY <1>5 DEF Fetched
<1>6. CASE Serve(m)
  BY <1>6 DEF Serve, Changed
<1>7. CASE Noticed(m) \/ Lost(m)
  BY <1>7 DEF Noticed, Lost, Disconnected, Erase
<1>8. ASSUME NEW b \in Blocks, Store(m, b) \/ Remove(m, b) PROVE Aside(n)
  BY <1>8 DEF Store, Remove
<1>9. CASE StoringChanges(m)
  BY <1>9 DEF StoringChanges, Tell
<1>10. CASE Broadcast(m)
  BY <1>10 DEF Broadcast, Tell
<1>11. CASE Down(m) \/ Up(m)
  BY <1>11 DEF Down, Up
<1> QED BY <1>1, <1>2, <1>3, <1>4, <1>5, <1>6, <1>7, <1>8, <1>9, <1>10, <1>11 DEF Step

\* The node hears of m, or an attempt to connect to it ends.
LEMMA HearTrue ==
  ASSUME Connections, NEW m \in Nodes, True(m), NEW i \in Stamps, Discover(m, i) \/ Hear(m, i)
  PROVE  True(m)'
<1>1. Aside(m)
  BY DEF Discover, Hear, Aside, known, connection, servers
<1> QED BY <1>1, AsideTrue

LEMMA AttemptTrue ==
  ASSUME Connections, NEW m \in Nodes, True(m), NEW key \in Keys, AttemptStep(m, key)
  PROVE  True(m)'
<1>1. CASE Duplicate(m, key) \/ Refused(m, key)
  <2>1. Aside(m)
    BY <1>1 DEF Duplicate, Refused, Aside, known, connection, servers
  <2> QED BY <2>1, AsideTrue
<1>2. CASE Connected(m, key)
  <2>1. /\ m \in up /\ link[m] = "none" /\ link'[m] = "advertise" /\ inbox' = inbox /\ up' = up
        /\ book' = book /\ queue' = queue /\ stored' = stored /\ accepting' = accepting
    BY <1>2 DEF Connections, TypeOK, Connected, Reached, servers
  <2>2. inbox[m] = << >> /\ inbox'[m] = << >>
    BY <2>1 DEF True, Heard, Live
  <2>3. Heard(m)'
    BY <2>1, <2>2, NoCall DEF Heard, Live
  <2>4. \A b \in Blocks : Agrees(m, b)'
    BY <2>1, <2>2, NoCall DEF True, Agrees, Live
  <2> QED BY <2>2, <2>3, <2>4, NoCall DEF True
<1> QED BY <1>1, <1>2 DEF AttemptStep

LEMMA TimerTrue ==
  ASSUME Connections, NEW m \in Nodes, True(m), RetryTimer(m) \/ EvictTimer(m)
  PROVE  True(m)'
<1>1. CASE RetryTimer(m)
  <2>1. Aside(m)
    BY <1>1 DEF RetryTimer, Aside, known, connection, servers
  <2> QED BY <2>1, AsideTrue
<1>2. CASE EvictTimer(m)
  <2>1. link[m] = "none" /\ link' = link /\ inbox' = inbox /\ up' = up /\ queue' = queue
        /\ stored' = stored /\ accepting' = accepting
        /\ \A b \in Blocks : <<m, b>> \notin book'
    BY <1>2 DEF Connections, Sound, EvictTimer, Erase, connection, servers
  <2>2. Heard(m)'
    BY <2>1 DEF True, Heard, Live
  <2>3. \A b \in Blocks : Agrees(m, b)'
    BY <2>1 DEF True, Agrees, Live
  <2> QED BY <2>1, <2>2, <2>3 DEF True
<1> QED BY <1>1, <1>2

\* The thread of the connection goes on.
LEMMA AdvertiseTrue ==
  ASSUME Connections, NEW m \in Nodes, True(m), Advertise(m) \/ Advertised(m)
  PROVE  True(m)'
<1>1. /\ inbox' = inbox /\ up' = up /\ accepting' = accepting /\ book' = book
      /\ stored' = stored /\ queue' = queue /\ muddled' = muddled
      /\ link[m] \in {"advertise", "advertised"} /\ link'[m] \in {"advertised", "fetch"}
  BY DEF Connections, TypeOK, Advertise, Advertised, kouncil, servers
<1>2. Heard(m)'
  <2>1. CASE Advertise(m)
    <3>1. link'[m] = "advertised" /\ reply'[m].storing = accepting[m]
      BY <2>1 DEF Connections, TypeOK, Advertise
    <3> QED BY <1>1, <3>1 DEF True, Heard, Live
  <2>2. CASE Advertised(m)
    <3>1. link[m] = "advertised" /\ link'[m] = "fetch" /\ storing'[m] = reply[m].storing
      BY <2>2 DEF Connections, TypeOK, Advertised, AnsweredStoring
    <3> QED BY <1>1, <3>1 DEF True, Heard, Live
  <2> QED BY <2>1, <2>2
<1>3. \A b \in Blocks : Agrees(m, b)'
  BY <1>1 DEF True, Agrees, Live
<1> QED BY <1>1, <1>2, <1>3 DEF True

LEMMA FetchTrue ==
  ASSUME Connections, NEW m \in Nodes, True(m), FetchEntries(m) \/ Fetched(m)
  PROVE  True(m)'
<1>1. /\ inbox' = inbox /\ up' = up /\ accepting' = accepting /\ storing' = storing
      /\ stored' = stored /\ queue' = queue /\ muddled' = muddled
  BY DEF FetchEntries, Fetched, kouncil, known, servers
<1>2. CASE FetchEntries(m)
  <2>1. /\ link[m] = "fetch" /\ link'[m] = "fetched" /\ reply'[m].blocks = stored[m]
        /\ book' = book
    BY <1>2 DEF Connections, TypeOK, FetchEntries, kouncil
  <2>2. Heard(m)'
    BY <1>1, <2>1 DEF True, Heard, Live
  <2>3. \A b \in Blocks : Agrees(m, b)'
    BY <1>1, <2>1 DEF True, Agrees, Live
  <2> QED BY <1>1, <2>2, <2>3 DEF True
<1>3. CASE Fetched(m)
  <2>1. link[m] = "fetched" /\ link'[m] = "serve"
    BY <1>3 DEF Connections, TypeOK, Fetched
  <2>2. \A b \in Blocks : <<m, b>> \in book' <=> b \in reply[m].blocks
    <3>1. \A b \in Blocks : <<m, b>> \notin book
      BY <2>1 DEF True, Agrees
    <3> QED BY <1>3, <3>1 DEF Fetched
  <2>3. Heard(m)'
    BY <1>1, <2>1 DEF True, Heard, Live
  <2>4. \A b \in Blocks : Agrees(m, b)'
    BY <1>1, <2>1, <2>2 DEF True, Agrees, Live
  <2> QED BY <1>1, <2>3, <2>4 DEF True
<1> QED BY <1>2, <1>3

LEMMA ServeTrue ==
  ASSUME Connections, NEW m \in Nodes, True(m), Serve(m)
  PROVE  True(m)'
<1> DEFINE q == inbox[m]
           c == Head(q)
<1>0. TypeOK /\ q \in Seq(Call) /\ q # << >> /\ c \in Call
  BY DEF Connections, TypeOK, Serve
<1>1. /\ link[m] = "serve" /\ link' = link /\ reply' = reply /\ up' = up
      /\ accepting' = accepting /\ stored' = stored /\ queue' = queue /\ muddled' = muddled
      /\ inbox'[m] = Tail(q) /\ book' = Changed(m, c)
      /\ storing'[m] = IF c.storing = "unknown" THEN storing[m] ELSE c.storing
  BY <1>0 DEF TypeOK, Serve, servers
<1> HIDE DEF c
<1>2. /\ LastSays(q, accepting[m]) /\ Bare(q)
      /\ Settled(q) => storing[m] = accepting[m]
  BY <1>1 DEF True, Heard
<1>3. /\ LastSays(Tail(q), accepting[m])
      /\ Settled(Tail(q)) /\ ~ChangesEntries(c) => c.storing = accepting[m]
      /\ Settled(Tail(q)) /\ ChangesEntries(c) => Settled(q)
      /\ Bare(Tail(q))
  BY <1>0, <1>2, CallServed DEF c
<1>4. Heard(m)'
  <2>1. Settled(Tail(q)) => storing'[m] = accepting[m]
    BY <1>1, <1>2, <1>3 DEF ChangesEntries
  <2>2. m \in up
    BY <1>1 DEF True, Heard, Live
  <2> QED BY <1>1, <1>3, <2>1, <2>2 DEF Heard, Live
<1>5. ASSUME NEW b \in Blocks PROVE Agrees(m, b)'
  <2>1. ASSUME b \notin Changing(queue[m]), <<m, b>> \notin muddled
        PROVE  /\ Says(Tail(q), b, b \in stored[m])
               /\ Silent(Tail(q), b) => (<<m, b>> \in book' <=> b \in stored[m])
    <3> DEFINE u == b \in stored[m]
    <3>1. Says(q, b, u) /\ (Silent(q, b) => (<<m, b>> \in book <=> u)) /\ u \in BOOLEAN
      BY <1>1, <2>1 DEF True, Agrees, Live
    <3> HIDE DEF u
    <3>2. /\ Says(Tail(q), b, u)
          /\ \A w \in BOOLEAN : <<b, w>> \in c.entries => (w <=> u)
          /\ (Silent(Tail(q), b) /\ \A w \in BOOLEAN : <<b, w>> \notin c.entries) => Silent(q, b)
      BY <1>0, <3>1, EntriesServed DEF c
    <3>3. c.entries \subseteq EntryChange
      BY <1>0 DEF Call
    <3>4. <<m, b>> \in book' <=> \/ <<b, TRUE>> \in c.entries
                                 \/ <<m, b>> \in book /\ <<b, FALSE>> \notin c.entries
      <4>1. \A e \in c.entries : e = <<e[1], e[2]>> /\ e[2] \in BOOLEAN
        BY <3>3 DEF EntryChange
      <4> DEFINE gone == {<<m, e[1]>> : e \in {x \in c.entries : ~x[2]}}
                 come == {<<m, e[1]>> : e \in {x \in c.entries : x[2]}}
      <4>2. <<m, b>> \in gone <=> <<b, FALSE>> \in c.entries
        <5>1. ASSUME <<m, b>> \in gone PROVE <<b, FALSE>> \in c.entries
          <6>1. PICK e \in c.entries : ~e[2] /\ e[1] = b
            BY <5>1
          <6>2. e = <<b, FALSE>>
            BY <4>1, <6>1
          <6> QED BY <6>2
        <5>2. ASSUME <<b, FALSE>> \in c.entries PROVE <<m, b>> \in gone
          <6>1. <<b, FALSE>>[1] = b /\ <<b, FALSE>>[2] = FALSE
            OBVIOUS
          <6>2. \E e \in c.entries : ~e[2] /\ <<m, b>> = <<m, e[1]>>
            BY <5>2, <6>1
          <6> QED BY <6>2
        <5> QED BY <5>1, <5>2
      <4>3. <<m, b>> \in come <=> <<b, TRUE>> \in c.entries
        <5>1. ASSUME <<m, b>> \in come PROVE <<b, TRUE>> \in c.entries
          <6>1. PICK e \in c.entries : e[2] /\ e[1] = b
            BY <5>1
          <6>2. e = <<b, TRUE>>
            BY <4>1, <6>1
          <6> QED BY <6>2
        <5>2. ASSUME <<b, TRUE>> \in c.entries PROVE <<m, b>> \in come
          <6>1. <<b, TRUE>>[1] = b /\ <<b, TRUE>>[2] = TRUE
            OBVIOUS
          <6>2. \E e \in c.entries : e[2] /\ <<m, b>> = <<m, e[1]>>
            BY <5>2, <6>1
          <6> QED BY <6>2
        <5> QED BY <5>1, <5>2
      <4>4. book' = (book \ gone) \cup come
        BY <1>1 DEF Changed
      <4> HIDE DEF gone, come
      <4> QED BY <4>2, <4>3, <4>4
    <3>5. ASSUME Silent(Tail(q), b)
          PROVE  <<m, b>> \in book' <=> u
      <4>1. CASE <<b, TRUE>> \in c.entries
        BY <3>2, <3>4, <4>1
      <4>2. CASE <<b, TRUE>> \notin c.entries /\ <<b, FALSE>> \in c.entries
        BY <3>1, <3>2, <3>4, <4>2
      <4>3. CASE <<b, TRUE>> \notin c.entries /\ <<b, FALSE>> \notin c.entries
        BY <3>1, <3>2, <3>4, <3>5, <4>3
      <4> QED BY <4>1, <4>2, <4>3
    <3> QED BY <3>2, <3>5 DEF u
  <2> QED BY <1>1, <2>1 DEF True, Agrees, Live
<1> QED BY <1>1, <1>3, <1>4, <1>5 DEF True

LEMMA LossTrue ==
  ASSUME Connections, NEW m \in Nodes, True(m), Noticed(m) \/ Lost(m)
  PROVE  True(m)'
<1>1. /\ link'[m] = "none" /\ inbox'[m] = << >> /\ up' = up /\ accepting' = accepting
      /\ stored' = stored /\ queue' = queue /\ \A b \in Blocks : <<m, b>> \notin book'
  BY DEF Connections, TypeOK, Noticed, Lost, Disconnected, Erase
<1>2. Heard(m)'
  BY <1>1, NoCall DEF Heard, Live
<1>3. \A b \in Blocks : Agrees(m, b)'
  BY <1>1, NoCall DEF True, Agrees, Live
<1> QED BY <1>1, <1>2, <1>3, NoCall DEF True

\* The node changes.
LEMMA StoreTrue ==
  ASSUME Connections, NEW m \in Nodes, True(m), NEW a \in Blocks, Store(m, a) \/ Remove(m, a)
  PROVE  True(m)'
<1>1. /\ UNCHANGED <<link, reply, inbox, up, accepting, storing, book, muddled>>
      /\ \E v \in BOOLEAN : /\ queue' = [queue EXCEPT ![m] = Append(@, <<a, v>>)]
                            /\ (a \in stored'[m]) = v
      /\ \A b \in Blocks \ {a} : (b \in stored'[m]) = (b \in stored[m])
  <2>0. stored \in [Nodes -> SUBSET Blocks] /\ queue \in [Nodes -> Seq(EntryChange)]
    BY DEF Connections, TypeOK
  <2>1. UNCHANGED <<link, reply, inbox, up, accepting, storing, book, muddled>>
    BY DEF Store, Remove, kouncil, known, connection
  <2>2. CASE Store(m, a)
    <3>1. /\ queue' = [queue EXCEPT ![m] = Append(@, <<a, TRUE>>)]
          /\ stored'[m] = stored[m] \cup {a}
      BY <2>0, <2>2 DEF Store
    <3>2. (a \in stored'[m]) = TRUE
      BY <3>1
    <3>3. \A b \in Blocks \ {a} : (b \in stored'[m]) = (b \in stored[m])
      BY <3>1
    <3> QED BY <2>1, <3>1, <3>2, <3>3
  <2>3. CASE Remove(m, a)
    <3>1. /\ queue' = [queue EXCEPT ![m] = Append(@, <<a, FALSE>>)]
          /\ stored'[m] = stored[m] \ {a}
      BY <2>0, <2>3 DEF Remove
    <3>2. (a \in stored'[m]) = FALSE
      BY <3>1
    <3>3. \A b \in Blocks \ {a} : (b \in stored'[m]) = (b \in stored[m])
      BY <3>1
    <3> QED BY <2>1, <3>1, <3>2, <3>3
  <2> QED BY <2>2, <2>3
<1>2. PICK v \in BOOLEAN : /\ queue' = [queue EXCEPT ![m] = Append(@, <<a, v>>)]
                           /\ (a \in stored'[m]) = v
  BY <1>1
<1>3. queue[m] \in Seq(EntryChange) /\ queue'[m] = Append(queue[m], <<a, v>>)
  BY <1>2 DEF Connections, TypeOK
<1> DEFINE e == <<a, v>>
<1>4. e \in EntryChange /\ e[1] = a /\ e[2] = v
  BY DEF EntryChange
<1>5. /\ Changing(queue'[m]) = Changing(queue[m]) \cup {a}
      /\ Ends(queue'[m], a, v)
      /\ \A b, w : b # a /\ Ends(queue[m], b, w) => Ends(queue'[m], b, w)
  <2> HIDE DEF e
  <2>1. queue'[m] = Append(queue[m], e)
    BY <1>3 DEF e
  <2> QED BY <1>3, <1>4, <2>1, ChangeQueued
<1>6. Heard(m)'
  BY <1>1 DEF True, Heard, Live
<1>7. ASSUME NEW b \in Blocks PROVE Agrees(m, b)'
  <2>1. CASE b = a
    BY <1>1, <1>2, <1>5, <2>1 DEF True, Agrees, Live
  <2>2. CASE b # a
    <3>1. b \in Changing(queue'[m]) <=> b \in Changing(queue[m])
      BY <1>5, <2>2
    <3>2. (b \in stored'[m]) = (b \in stored[m])
      BY <1>1, <2>2
    <3> QED BY <1>1, <1>5, <2>2, <3>1, <3>2 DEF True, Agrees, Live
  <2> QED BY <2>1, <2>2
<1> QED BY <1>1, <1>6, <1>7 DEF True

LEMMA StoringTrue ==
  ASSUME Connections, NEW m \in Nodes, True(m), StoringChanges(m)
  PROVE  True(m)'
<1> DEFINE v == IF accepting[m] = "yes" THEN "no" ELSE "yes"
           c == [entries |-> {}, storing |-> v]
<1>0. v \in {"yes", "no"} /\ c \in Call /\ inbox[m] \in Seq(Call)
  BY CallTypes DEF Connections, TypeOK
<1>1. accepting'[m] = v /\ Tell(m, c)
  BY DEF Connections, TypeOK, StoringChanges
<1>2. UNCHANGED <<storing, book, link, reply, up, stored, queue, muddled>> /\ m \in up
  BY DEF StoringChanges, Changes, kouncil, known
<1>3. c.storing = v /\ c.entries = {} /\ ~ChangesEntries(c)
  BY DEF ChangesEntries
<1> HIDE DEF v, c
<1>4. CASE Live(m)
  <2>1. inbox'[m] = Append(inbox[m], c)
    BY <1>1, <1>4 DEF Tell, Connections, TypeOK
  <2>2. /\ LastSays(inbox'[m], v) /\ ~Settled(inbox'[m])
        /\ Bare(inbox'[m])
    BY <1>0, <1>3, <2>1, ConfigureArrives DEF True
  <2>3. Heard(m)'
    BY <1>1, <1>2, <1>4, <2>2 DEF Heard, Live
  <2>4. ASSUME NEW b \in Blocks PROVE Agrees(m, b)'
    <3>1. /\ Silent(inbox'[m], b) => Silent(inbox[m], b)
          /\ Says(inbox[m], b, b \in stored[m]) => Says(inbox'[m], b, b \in stored[m])
      <4> DEFINE u == b \in stored[m]
      <4>1. u \in BOOLEAN
        OBVIOUS
      <4> HIDE DEF u
      <4>2. /\ Silent(inbox'[m], b) => Silent(inbox[m], b)
            /\ Says(inbox[m], b, u) => Says(inbox'[m], b, u)
        <5>1. /\ Silent(Append(inbox[m], c), b) => Silent(inbox[m], b)
              /\ \A w \in BOOLEAN : Says(inbox[m], b, w) => Says(Append(inbox[m], c), b, w)
          BY <1>0, <1>3, ConfigureArrives
        <5> QED BY <2>1, <4>1, <5>1
      <4> QED BY <4>2 DEF u
    <3> QED BY <1>2, <3>1 DEF True, Agrees, Live
  <2> QED BY <2>2, <2>3, <2>4 DEF True
<1>5. CASE ~Live(m)
  <2>1. inbox'[m] = << >> /\ inbox[m] = << >>
    BY <1>1, <1>5 DEF Tell, True, Heard
  <2>2. Heard(m)'
    BY <1>2, <1>5, <2>1, NoCall DEF Heard, Live
  <2>3. \A b \in Blocks : Agrees(m, b)'
    BY <1>2, <1>5, <2>1 DEF True, Agrees, Live
  <2> QED BY <2>1, <2>2, <2>3, NoCall DEF True
<1> QED BY <1>4, <1>5

LEMMA BroadcastTrue ==
  ASSUME Connections, NEW m \in Nodes, True(m), Broadcast(m)
  PROVE  True(m)'
<1> DEFINE q == queue[m]
           c == [entries |-> Merged(q), storing |-> "unknown"]
<1>0. /\ TypeOK /\ q \in Seq(EntryChange) /\ c \in Call /\ inbox[m] \in Seq(Call)
      /\ c.entries = Merged(q) /\ ChangesEntries(c)
  BY MergedType, CallTypes DEF Connections, TypeOK, ChangesEntries
<1>1. /\ UNCHANGED <<storing, book, link, reply, up, stored, accepting>> /\ m \in up
      /\ queue'[m] = << >> /\ Tell(m, c)
      /\ \A i \in 1..Len(inbox[m]) : ~ChangesEntries(inbox[m][i])
      /\ muddled' = IF Live(m)
                    THEN (muddled \ ({m} \X Changing(q))) \cup ({m} \X Muddles(q))
                    ELSE muddled
  BY <1>0 DEF TypeOK, Broadcast, kouncil, known
<1>2. Changing(queue'[m]) = {}
  BY <1>1 DEF Changing
<1> HIDE DEF c, q
<1>3. CASE Live(m)
  <2>1. inbox'[m] = Append(inbox[m], c)
    BY <1>0, <1>1, <1>3 DEF Tell, TypeOK
  <2>2. /\ LastSays(inbox'[m], accepting[m])
        /\ Settled(inbox'[m]) => Settled(inbox[m])
        /\ Bare(inbox'[m])
    BY <1>0, <2>1, EntriesArrive DEF True, Heard
  <2>3. Heard(m)'
    BY <1>1, <1>3, <2>2 DEF True, Heard, Live
  <2>4. ASSUME NEW b \in Blocks PROVE Agrees(m, b)'
    <3> DEFINE u == b \in stored[m]
    <3>0. u \in BOOLEAN
      OBVIOUS
    <3>a. Silent(inbox[m], b)
      BY <1>1 DEF True, Bare, Silent
    <3>1. ASSUME <<m, b>> \notin muddled', b \in Changing(q)
          PROVE  Says(inbox'[m], b, u) /\ ~Silent(inbox'[m], b)
      <4>1. b \notin Muddles(q)
        BY <1>1, <1>3, <3>1
      <4>2. Ends(q, b, u)
        BY <3>1 DEF True, Agrees, q
      <4> HIDE DEF u
      <4>3. /\ \A w \in BOOLEAN : <<b, w>> \in c.entries => (w <=> u)
            /\ \E w \in BOOLEAN : <<b, w>> \in c.entries
        BY <1>0, <3>0, <3>1, <4>1, <4>2, MergedLast
      <4> QED BY <1>0, <2>1, <3>a, <4>3, SaysArrives
    <3>2. ASSUME <<m, b>> \notin muddled', b \notin Changing(q)
          PROVE  /\ <<m, b>> \notin muddled
                 /\ Says(inbox'[m], b, u)
      <4>1. <<m, b>> \notin muddled
        BY <1>1, <1>3, <3>2
      <4>2. \A w \in BOOLEAN : <<b, w>> \notin c.entries
        BY <1>0, <3>2 DEF Merged, Changing
      <4> HIDE DEF u
      <4> QED BY <1>0, <2>1, <3>0, <3>a, <4>1, <4>2, SaysArrives
    <3>3. CASE b \in Changing(q)
      BY <1>1, <1>2, <3>1, <3>3 DEF True, Agrees, Live
    <3>4. CASE b \notin Changing(q)
      BY <1>1, <1>2, <1>3, <3>a, <3>2, <3>4 DEF True, Agrees, Live, q
    <3> QED BY <3>3, <3>4
  <2> QED BY <2>2, <2>3, <2>4 DEF True
<1>4. CASE ~Live(m)
  <2>1. inbox'[m] = << >>
    BY <1>1, <1>4 DEF Tell, True, Heard
  <2>2. Heard(m)'
    BY <1>1, <1>4, <2>1, NoCall DEF Heard, Live
  <2>3. \A b \in Blocks : Agrees(m, b)'
    BY <1>1, <1>2, <1>4, <2>1 DEF True, Agrees, Live
  <2> QED BY <2>1, <2>2, <2>3, NoCall DEF True
<1> QED BY <1>3, <1>4

LEMMA ProcessTrue ==
  ASSUME Connections, NEW m \in Nodes, True(m), Down(m) \/ Up(m)
  PROVE  True(m)'
<1>1. CASE Down(m)
  <2>1. /\ link'[m] \in {"none", "broken"} /\ inbox'[m] = << >> /\ queue'[m] = << >>
        /\ book' = book /\ (link[m] = "none" <=> link'[m] = "none")
    BY <1>1 DEF Connections, TypeOK, Down, kouncil
  <2>2. Heard(m)'
    BY <2>1, NoCall DEF Heard, Live
  <2>3. \A b \in Blocks : Agrees(m, b)'
    <3>1. Changing(queue'[m]) = {}
      BY <2>1 DEF Changing
    <3> QED BY <2>1, <3>1 DEF True, Agrees, Live
  <2> QED BY <2>1, <2>2, <2>3, NoCall DEF True
<1>2. CASE Up(m)
  <2>1. /\ m \notin up /\ UNCHANGED <<link, reply, inbox, queue, stored, book, muddled, storing>>
    BY <1>2 DEF Up, kouncil, known, connection
  <2>2. ~Live(m) /\ inbox[m] = << >> /\ inbox'[m] = << >>
    BY <2>1 DEF True, Heard
  <2>3. Heard(m)'
    BY <2>1, <2>2, NoCall DEF Heard, Live
  <2>4. \A b \in Blocks : Agrees(m, b)'
    BY <2>1, <2>2 DEF True, Agrees, Live
  <2> QED BY <2>2, <2>3, <2>4, NoCall DEF True
<1> QED BY <1>1, <1>2

LEMMA TrueStep ==
  ASSUME Connections, \A n \in Nodes : True(n), [Next]_vars
  PROVE  \A n \in Nodes : True(n)'
<1> SUFFICES ASSUME NEW n \in Nodes PROVE True(n)'
  OBVIOUS
<1>1. CASE UNCHANGED vars
  <2>1. Aside(n)
    BY <1>1 DEF vars, kouncil, known, connection, servers, Aside
  <2> QED BY <2>1, AsideTrue
<1>2. ASSUME NEW m \in Nodes, Step(m) PROVE True(n)'
  <2>1. CASE n # m
    BY <1>2, <2>1, OthersAside, AsideTrue DEF Connections
  <2>2. CASE n = m
    <3>1. Step(n) /\ True(n)
      BY <1>2, <2>2
    <3> QED BY <3>1, HearTrue, AttemptTrue, TimerTrue, AdvertiseTrue, FetchTrue, ServeTrue,
               LossTrue, StoreTrue, StoringTrue, BroadcastTrue, ProcessTrue DEF Step
  <2> QED BY <2>1, <2>2
<1> QED BY <1>1, <1>2 DEF Next

LEMMA TrueHolds == Spec => [](\A n \in Nodes : True(n))
<1>1. Init => \A n \in Nodes : True(n)
  <2> SUFFICES ASSUME Init, NEW n \in Nodes PROVE True(n)
    OBVIOUS
  <2>1. link[n] = "none" /\ inbox[n] = << >> /\ queue[n] = << >> /\ book = {} /\ n \in up
    BY DEF Init
  <2>2. Heard(n)
    BY <2>1, NoCall DEF Heard, Live
  <2>3. \A b \in Blocks : Agrees(n, b)
    <3>1. Changing(queue[n]) = {}
      BY <2>1 DEF Changing
    <3> QED BY <2>1, <3>1, NoCall DEF Agrees, Live
  <2> QED BY <2>1, <2>2, <2>3, NoCall DEF True
<1>2. Connections /\ (\A n \in Nodes : True(n)) /\ [Next]_vars => \A n \in Nodes : True(n)'
  BY TrueStep
<1>3. (\A n \in Nodes : True(n)') <=> (\A n \in Nodes : True(n))'
  OBVIOUS
<1> QED BY <1>1, <1>2, <1>3, ConnectionsHold, PTL DEF Spec

\* StoringIsTrue holds whatever the order in which a node that connects is
\* advertised to, configured and lost: a call to kouncil_configure that arrives
\* before the answer of kouncil_advertise is read is served after it.
THEOREM StoringTruth == Spec => []StoringIsTrue
<1>1. (\A n \in Nodes : True(n)) => StoringIsTrue
  BY DEF True, Heard, Settled, StoringIsTrue
<1> QED BY <1>1, TrueHolds, PTL

\* BookIsTrue holds whatever the order in which the entries of a node are
\* fetched and its changes stored, broadcast and served, connections are lost
\* and the node restarts.
THEOREM BookTruth == Spec => []BookIsTrue
<1>1. ASSUME \A n \in Nodes : True(n) PROVE BookIsTrue
  <2>1. ASSUME NEW n \in Nodes, link[n] = "serve", queue[n] = << >>,
               \A i \in 1..Len(inbox[n]) : ~ChangesEntries(inbox[n][i]),
               NEW b \in Blocks, <<n, b>> \notin muddled
        PROVE  <<n, b>> \in book <=> b \in stored[n]
    <3>1. b \notin Changing(queue[n])
      BY <2>1 DEF Changing
    <3>2. Silent(inbox[n], b)
      BY <1>1, <2>1 DEF True, Bare, Silent
    <3> QED BY <1>1, <2>1, <3>1, <3>2 DEF True, Agrees, Live
  <2> QED BY <2>1 DEF BookIsTrue
<1> QED BY <1>1, TrueHolds, PTL

=============================================================================
