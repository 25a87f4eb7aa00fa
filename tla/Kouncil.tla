------------------------------ MODULE Kouncil ------------------------------
(***************************************************************************)
(* The overlay in which every node knows every other (overlay::kouncil):   *)
(* what a node keeps of the nodes it hears of, how it connects to them     *)
(* again when it loses them, and the address book of the blocks they store.*)
(*                                                                         *)
(* The module has one Kouncil and, of each other node, the part its        *)
(* Kouncil plays as a server.  A node has new endpoints, with a later      *)
(* stamp, each time it starts: the number of times it started stands for   *)
(* both.  The protocol is that of version 0.8.0 and later.                 *)
(***************************************************************************)
EXTENDS Naturals, Sequences, FiniteSets

CONSTANTS
  Nodes,       \* the other nodes
  Blocks,      \* addresses of blocks
  None,
  \* Bounds
  MaxStarts,   \* times a node starts
  MaxChanges,  \* changes of what a node stores, or whether it does
  MaxLosses    \* connections lost while the node is up

Stamps == 1..MaxStarts
Keys == SUBSET Stamps

ASSUME KouncilAssumption ==
  /\ MaxStarts \in Nat \ {0}
  /\ \A key \in Keys : None # key

VARIABLES
  \* The Kouncil.
  peers,       \* _peers
  infos,       \* _infos: the endpoints of a node, 0 if there is no info
  storing,     \* what _infos says of the node storing blocks
  book,        \* _address_book
  stale,       \* nodes of _stale_endpoints
  endpoints,   \* the endpoints of their entries
  slot,        \* the attempt whose failure the entry hears of, or None
  retrying,    \* entries whose _retry_timer runs
  evicting,    \* entries whose _evict_timer runs
  \* The dock.
  connecting,  \* _connecting: attempts, by node and endpoints
  link,        \* what the thread of the connection to a node does
  reply,       \* what the node answered, and the thread has yet to read
  inbox,       \* calls from the node that wait for the thread to serve
  \* The other nodes.
  up, starts,
  stored,      \* the blocks it stores
  accepting,   \* Overlay::_storing
  queue,       \* _new_entries
  muddled,     \* history: entries for which a broadcast merged opposite changes
  changes, losses

entries == <<stale, endpoints, slot, retrying, evicting>>
known == <<infos, storing>>
connection == <<link, reply, inbox>>
kouncil == <<peers, known, book, entries>>
servers == <<up, starts, stored, accepting, queue, muddled>>
vars == <<kouncil, connecting, connection, servers, changes, losses>>

EntryChange == Blocks \X BOOLEAN
Storing == {"yes", "no", "unknown"}
\* kouncil_change_entries and kouncil_configure; what a call does not say is blank.
Call == [entries : SUBSET EntryChange, storing : Storing]
Answer == [stamp : 0..MaxStarts, storing : Storing, blocks : SUBSET Blocks]
Blank == [stamp |-> 0, storing |-> "unknown", blocks |-> {}]

Init ==
  /\ peers = {} /\ book = {} /\ stale = {} /\ retrying = {} /\ evicting = {}
  /\ infos = [n \in Nodes |-> 0] /\ storing = [n \in Nodes |-> "unknown"]
  /\ endpoints = [n \in Nodes |-> {}] /\ slot = [n \in Nodes |-> None]
  /\ connecting = {} /\ link = [n \in Nodes |-> "none"]
  /\ reply = [n \in Nodes |-> Blank] /\ inbox = [n \in Nodes |-> << >>]
  /\ up = Nodes /\ starts = [n \in Nodes |-> 1]
  /\ stored = [n \in Nodes |-> {}] /\ accepting = [n \in Nodes |-> "yes"]
  /\ queue = [n \in Nodes |-> << >>] /\ muddled = {}
  /\ changes = 0 /\ losses = 0

-----------------------------------------------------------------------------
(* Nodes the Kouncil hears of.                                             *)

\* Dock::connect: an attempt on the same endpoints is shared.
Dial(n, key) == connecting' = connecting \cup {<<n, key>>}

\* _remember_stale
Remember(n, key) ==
  /\ stale' = stale \cup {n}
  /\ endpoints' = [endpoints EXCEPT ![n] = @ \cup key]

\* _discover of a location, from the configuration or the command line.
Discover(n, i) ==
  /\ i \in 1..starts[n]
  /\ Remember(n, {i})
  /\ IF n \in peers THEN UNCHANGED connecting ELSE Dial(n, {i})
  /\ UNCHANGED <<peers, known, book, slot, retrying, evicting, connection, servers,
                 changes, losses>>

\* Fault: nobody hears of the attempt's failure.
HearUnheeded(n, i) ==
  /\ i \in 1..starts[n] /\ infos[n] < i
  /\ infos' = [infos EXCEPT ![n] = i]
  /\ Remember(n, {i})
  /\ IF n \in peers THEN UNCHANGED connecting ELSE Dial(n, {i})
  /\ UNCHANGED <<peers, storing, book, slot, retrying, evicting, connection, servers,
                 changes, losses>>

\* _discover of an info, which another node may send at any time; it is skipped
\* unless it is new or later than what is known.
Hear(n, i) ==
  /\ i \in 1..starts[n] /\ infos[n] < i
  /\ infos' = [infos EXCEPT ![n] = i]
  /\ Remember(n, {i})
  /\ IF n \in peers THEN UNCHANGED <<connecting, slot>>
     ELSE Dial(n, {i}) /\ slot' = [slot EXCEPT ![n] = {i}]
  /\ UNCHANGED <<peers, storing, book, retrying, evicting, connection, servers,
                 changes, losses>>

-----------------------------------------------------------------------------
(* Attempts to connect.                                                    *)

Attempt(n, key) == <<n, key>> \in connecting
Over(n, key) == connecting' = connecting \ {<<n, key>>}
Reached(n, key) == Attempt(n, key) /\ n \in up /\ starts[n] \in key

\* Fault: the timer that evicts the node is left running.
ClearRetry(n) ==
  /\ retrying' = retrying \ {n}
  /\ slot' = [slot EXCEPT ![n] = None]
  /\ UNCHANGED evicting

\* StaleEndpoint::clear
Clear(n) ==
  /\ retrying' = retrying \ {n} /\ evicting' = evicting \ {n}
  /\ slot' = [slot EXCEPT ![n] = None]

\* _peer_connected, up to the call to the node that _advertise waits for.
Connected(n, key) ==
  /\ Reached(n, key) /\ link[n] = "none"
  /\ Over(n, key)
  /\ peers' = peers \cup {n}
  /\ stale' = stale \cup {n}
  /\ endpoints' = IF n \in stale THEN endpoints ELSE [endpoints EXCEPT ![n] = key]
  /\ Clear(n)
  /\ storing' = IF infos[n] = 0 THEN storing ELSE [storing EXCEPT ![n] = "yes"]
  /\ link' = [link EXCEPT ![n] = "advertise"]
  /\ UNCHANGED <<infos, book, reply, inbox, servers, changes, losses>>

\* The dock drops the second connection to a node, and tells nobody.
Duplicate(n, key) ==
  /\ Reached(n, key) /\ link[n] # "none"
  /\ Over(n, key)
  /\ slot' = IF slot[n] = key THEN [slot EXCEPT ![n] = None] ELSE slot
  /\ UNCHANGED <<peers, known, book, stale, endpoints, retrying, evicting, connection,
                 servers, changes, losses>>

\* Fault: the next attempt is not scheduled.
FailedQuietly(n, key) == UNCHANGED <<slot, retrying>>

\* StaleEndpoint::failed, if the entry hears of this attempt.
Failed(n, key) ==
  IF slot[n] = key
  THEN slot' = [slot EXCEPT ![n] = None] /\ retrying' = retrying \cup {n}
  ELSE UNCHANGED <<slot, retrying>>

\* An attempt may fail whether or not the node is there.
Refused(n, key) ==
  /\ Attempt(n, key)
  /\ Over(n, key)
  /\ Failed(n, key)
  /\ UNCHANGED <<peers, known, book, stale, endpoints, evicting, connection, servers,
                 changes, losses>>

\* StaleEndpoint::connect
Connect(n) ==
  /\ Dial(n, endpoints[n])
  /\ slot' = [slot EXCEPT ![n] = endpoints[n]]

RetryTimer(n) ==
  /\ n \in retrying
  /\ retrying' = retrying \ {n}
  /\ Connect(n)
  /\ UNCHANGED <<peers, known, book, stale, endpoints, evicting, connection, servers,
                 changes, losses>>

Erase(n) == {e \in book : e[1] # n}

\* _peer_evicted
EvictTimer(n) ==
  /\ n \in evicting
  /\ infos' = [infos EXCEPT ![n] = 0]
  /\ storing' = [storing EXCEPT ![n] = "unknown"]
  /\ book' = Erase(n)
  /\ stale' = stale \ {n}
  /\ endpoints' = [endpoints EXCEPT ![n] = {}]
  /\ Clear(n)
  /\ UNCHANGED <<peers, connecting, connection, servers, changes, losses>>

-----------------------------------------------------------------------------
(* The thread of a connection: it advertises, fetches the entries of the   *)
(* node, then serves the calls it receives, in order.                      *)

\* kouncil_advertise, on the node: its own info is among those it answers.
Advertise(n) ==
  /\ link[n] = "advertise"
  /\ link' = [link EXCEPT ![n] = "advertised"]
  /\ reply' = [reply EXCEPT ![n] =
       [stamp |-> starts[n], storing |-> accepting[n], blocks |-> {}]]
  /\ UNCHANGED <<kouncil, connecting, inbox, servers, changes, losses>>

\* Fault: the configuration of the node is not read.
AdvertisedStoring(n) == storing

AnsweredStoring(n) == [storing EXCEPT ![n] = reply[n].storing]

\* The end of _advertise; the other infos of the answer are Hear's.
Advertised(n) ==
  /\ link[n] = "advertised"
  /\ IF infos[n] < reply[n].stamp
     THEN infos' = [infos EXCEPT ![n] = reply[n].stamp] /\ Remember(n, {reply[n].stamp})
     ELSE UNCHANGED <<infos, stale, endpoints>>
  /\ storing' = AnsweredStoring(n)
  /\ link' = [link EXCEPT ![n] = "fetch"]
  /\ reply' = [reply EXCEPT ![n] = Blank]
  /\ UNCHANGED <<peers, book, slot, retrying, evicting, connecting, inbox, servers,
                 changes, losses>>

\* kouncil_fetch_entries, on the node.
FetchEntries(n) ==
  /\ link[n] = "fetch"
  /\ link' = [link EXCEPT ![n] = "fetched"]
  /\ reply' = [reply EXCEPT ![n] =
       [stamp |-> 0, storing |-> "unknown", blocks |-> stored[n]]]
  /\ UNCHANGED <<kouncil, connecting, inbox, servers, changes, losses>>

\* The end of _fetch_entries.
Fetched(n) ==
  /\ link[n] = "fetched"
  /\ book' = book \cup ({n} \X reply[n].blocks)
  /\ link' = [link EXCEPT ![n] = "serve"]
  /\ reply' = [reply EXCEPT ![n] = Blank]
  /\ UNCHANGED <<peers, known, entries, connecting, inbox, servers, changes, losses>>

\* Fault: removals are ignored.
ChangedAdded(n, c) == book \cup {<<n, e[1]>> : e \in {x \in c.entries : x[2]}}

\* kouncil_change_entries
Changed(n, c) ==
  (book \ {<<n, e[1]>> : e \in {x \in c.entries : ~x[2]}})
    \cup {<<n, e[1]>> : e \in {x \in c.entries : x[2]}}

\* kouncil_change_entries and kouncil_configure, served in turn.
Serve(n) ==
  /\ link[n] = "serve" /\ inbox[n] # << >>
  /\ LET c == Head(inbox[n])
     IN  /\ book' = Changed(n, c)
         /\ storing' = IF c.storing = "unknown" THEN storing
                       ELSE [storing EXCEPT ![n] = c.storing]
  /\ inbox' = [inbox EXCEPT ![n] = Tail(@)]
  /\ UNCHANGED <<peers, infos, entries, connecting, link, reply, servers, changes, losses>>

\* Fault: the node is given no delay to come back in.
ReconnectOnly(n) == UNCHANGED evicting

\* The timer StaleEndpoint::reconnect starts.
Reconnect(n) == evicting' = evicting \cup {n}

\* _peer_disconnected: the connection fell, or a heartbeat did not come.
Disconnected(n) ==
  /\ storing' = [storing EXCEPT ![n] = "unknown"]
  /\ peers' = peers \ {n}
  /\ book' = Erase(n)
  /\ Reconnect(n)
  /\ Connect(n)
  /\ link' = [link EXCEPT ![n] = "none"]
  /\ reply' = [reply EXCEPT ![n] = Blank]
  /\ inbox' = [inbox EXCEPT ![n] = << >>]
  /\ muddled' = {e \in muddled : e[1] # n}
  /\ UNCHANGED <<infos, stale, endpoints, retrying, up, starts, stored, accepting, queue,
                 changes>>

Noticed(n) == link[n] = "broken" /\ Disconnected(n) /\ UNCHANGED losses

Lost(n) ==
  /\ link[n] \notin {"none", "broken"} /\ losses < MaxLosses
  /\ Disconnected(n)
  /\ losses' = losses + 1

-----------------------------------------------------------------------------
(* The other nodes.                                                        *)

Live(n) == link[n] \notin {"none", "broken"}
ChangesEntries(c) == c.storing = "unknown"

\* Local::broadcast, as far as this node is concerned.
Tell(n, c) == inbox' = IF Live(n) THEN [inbox EXCEPT ![n] = Append(@, c)] ELSE inbox

Changes(n) == n \in up /\ changes < MaxChanges /\ changes' = changes + 1

\* The slots of on_store and on_remove; a block may be stored again.
Store(n, b) ==
  /\ Changes(n)
  /\ stored' = [stored EXCEPT ![n] = @ \cup {b}]
  /\ queue' = [queue EXCEPT ![n] = Append(@, <<b, TRUE>>)]
  /\ UNCHANGED <<kouncil, connecting, connection, up, starts, accepting, muddled, losses>>

Remove(n, b) ==
  /\ Changes(n) /\ b \in stored[n]
  /\ stored' = [stored EXCEPT ![n] = @ \ {b}]
  /\ queue' = [queue EXCEPT ![n] = Append(@, <<b, FALSE>>)]
  /\ UNCHANGED <<kouncil, connecting, connection, up, starts, accepting, muddled, losses>>

\* Overlay::storing and _store
StoringChanges(n) ==
  /\ Changes(n)
  /\ LET v == IF accepting[n] = "yes" THEN "no" ELSE "yes"
     IN  /\ accepting' = [accepting EXCEPT ![n] = v]
         /\ Tell(n, [entries |-> {}, storing |-> v])
  /\ UNCHANGED <<kouncil, connecting, link, reply, up, starts, stored, queue, muddled, losses>>

\* The changes of the map _broadcast fills: of each block, the first.
First(q, i) == \A j \in 1..(i - 1) : q[j][1] # q[i][1]

\* Fault: the addresses alone, as the protocol before version 0.8.0 sends them.
MergedAddresses(q) == {q[i][1] : i \in {j \in 1..Len(q) : First(q, j)}}

Merged(q) == {q[i] : i \in {j \in 1..Len(q) : First(q, j)}}

\* Blocks whose last change is not the first.
Last(q, i) == \A j \in (i + 1)..Len(q) : q[j][1] # q[i][1]
Changing(q) == {q[i][1] : i \in 1..Len(q)}
Muddles(q) ==
  {b \in Changing(q) : \E i \in 1..Len(q) :
     Last(q, i) /\ q[i][1] = b /\ q[i] \notin Merged(q)}

\* _broadcast takes every change that waits, and waits for the answers before it
\* takes more.
Broadcast(n) ==
  /\ n \in up /\ queue[n] # << >>
  /\ \A i \in 1..Len(inbox[n]) : ~ChangesEntries(inbox[n][i])
  /\ queue' = [queue EXCEPT ![n] = << >>]
  /\ Tell(n, [entries |-> Merged(queue[n]), storing |-> "unknown"])
  /\ muddled' = IF Live(n)
                THEN (muddled \ ({n} \X Changing(queue[n]))) \cup ({n} \X Muddles(queue[n]))
                ELSE muddled
  /\ UNCHANGED <<kouncil, connecting, link, reply, up, starts, stored, accepting, changes, losses>>

\* The node's process dies, and starts again.
Down(n) ==
  /\ n \in up
  /\ up' = up \ {n}
  /\ queue' = [queue EXCEPT ![n] = << >>]
  /\ link' = [link EXCEPT ![n] = IF @ = "none" THEN @ ELSE "broken"]
  /\ reply' = [reply EXCEPT ![n] = Blank]
  /\ inbox' = [inbox EXCEPT ![n] = << >>]
  /\ UNCHANGED <<kouncil, connecting, starts, stored, accepting, muddled, changes, losses>>

Up(n) ==
  /\ n \notin up /\ starts[n] < MaxStarts
  /\ up' = up \cup {n}
  /\ starts' = [starts EXCEPT ![n] = @ + 1]
  /\ accepting' = [accepting EXCEPT ![n] = "yes"]
  /\ UNCHANGED <<kouncil, connecting, connection, stored, queue, muddled, changes, losses>>

-----------------------------------------------------------------------------
AttemptStep(n, key) == Connected(n, key) \/ Duplicate(n, key) \/ Refused(n, key)

Step(n) ==
  \/ \E i \in Stamps : Discover(n, i) \/ Hear(n, i)
  \/ \E key \in Keys : AttemptStep(n, key)
  \/ RetryTimer(n) \/ EvictTimer(n)
  \/ Advertise(n) \/ Advertised(n) \/ FetchEntries(n) \/ Fetched(n) \/ Serve(n)
  \/ Noticed(n) \/ Lost(n)
  \/ \E b \in Blocks : Store(n, b) \/ Remove(n, b)
  \/ StoringChanges(n) \/ Broadcast(n)
  \/ Down(n) \/ Up(n)

Next == \E n \in Nodes : Step(n)

Spec == Init /\ [][Next]_vars

\* Attempts end and timers expire, a connection to a process that died falls, and
\* a node that can be reached is not refused for ever.
LiveSpec ==
  /\ Spec
  /\ \A n \in Nodes :
       /\ \A key \in Keys : WF_vars(AttemptStep(n, key))
       /\ SF_vars(\E key \in Keys : Connected(n, key))
       /\ WF_vars(RetryTimer(n)) /\ WF_vars(EvictTimer(n)) /\ WF_vars(Noticed(n))

-----------------------------------------------------------------------------
(* Properties.                                                             *)

\* The variables have the values they are meant to have.
TypeOK ==
  /\ peers \subseteq Nodes /\ stale \subseteq Nodes
  /\ retrying \subseteq Nodes /\ evicting \subseteq Nodes /\ up \subseteq Nodes
  /\ infos \in [Nodes -> 0..MaxStarts] /\ starts \in [Nodes -> Stamps]
  /\ storing \in [Nodes -> Storing] /\ accepting \in [Nodes -> {"yes", "no"}]
  /\ book \subseteq Nodes \X Blocks /\ muddled \subseteq Nodes \X Blocks
  /\ endpoints \in [Nodes -> Keys] /\ slot \in [Nodes -> {None} \cup Keys]
  /\ connecting \subseteq Nodes \X Keys
  /\ link \in [Nodes -> {"none", "advertise", "advertised", "fetch", "fetched",
                         "serve", "broken"}]
  /\ reply \in [Nodes -> Answer]
  /\ stored \in [Nodes -> SUBSET Blocks]
  /\ inbox \in [Nodes -> Seq(Call)] /\ queue \in [Nodes -> Seq(EntryChange)]

\* The nodes _allocate may select.
Allocatable == {n \in Nodes : storing[n] = "yes"}

\* What the code enforces or asserts holds: a node that may be allocated to is
\* connected, a node that is lost has an entry to reconnect with, a node is not
\* evicted while it is connected, and one that calls kouncil_configure is known.
\* The entries of the book are of connected nodes.
Enforced ==
  /\ Allocatable \subseteq peers
  /\ peers \subseteq stale
  /\ peers \cap evicting = {}
  /\ \A n \in Nodes : link[n] = "serve" => infos[n] # 0
  /\ \A e \in book : e[1] \in peers

\* A node that is known and not connected is being connected to, or will be: an
\* attempt whose failure the Kouncil hears of is under way, or a timer runs.
KeepsTrying ==
  \A n \in Nodes \ peers : infos[n] # 0 =>
    n \in retrying \/ (slot[n] # None /\ Attempt(n, slot[n]))

\* When nothing of it is queued or under way, what the address book says of a
\* connected node is what it stores, but for the blocks of which a broadcast
\* merged opposite changes.
BookIsTrue ==
  \A n \in Nodes :
    /\ link[n] = "serve" /\ queue[n] = << >>
    /\ \A i \in 1..Len(inbox[n]) : ~ChangesEntries(inbox[n][i])
    => \A b \in Blocks : <<n, b>> \notin muddled =>
         (<<n, b>> \in book <=> b \in stored[n])

\* A connected node with no call under way is selected for new blocks if and only
\* if it accepts them.
StoringIsTrue ==
  \A n \in Nodes :
    /\ link[n] = "serve"
    /\ \A i \in 1..Len(inbox[n]) : ChangesEntries(inbox[n][i])
    => storing[n] = accepting[n]

\* A node heard of but never connected since is connected to once it is up, even
\* if it was not when it was heard of (the test eviction expects it).
Reaches ==
  \A n \in Nodes :
    infos[n] # 0 /\ n \notin evicting /\ n \in up /\ starts[n] \in endpoints[n]
      ~> n \in peers \/ n \notin up

\* A node whose process died is forgotten, unless it is connected again.
Forgets ==
  \A n \in Nodes : link[n] = "broken" ~> Live(n) \/ infos[n] = 0

=============================================================================
