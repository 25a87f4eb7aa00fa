---------------------------- MODULE AthenaPaxos ----------------------------
(***************************************************************************)
(* athena's Paxos clients (Client.hxx) at work on its servers.             *)
(*                                                                         *)
(* choose() runs three rounds of calls, propose, accept and confirm. Each  *)
(* round calls all the peers in parallel and waits for all the answers;    *)
(* peers that cannot be reached are skipped by the rounds that follow.     *)
(* get() asks every peer for its value in one round.                       *)
(*                                                                         *)
(* A handler runs and is answered in one step: the client only collects    *)
(* the answers until the round ends, so when an answer arrives does not    *)
(* matter. A request its client gave up on (the peer was declared          *)
(* unavailable, another peer raised, the client died) stays in late: it    *)
(* may be handled at any later time, or never.                             *)
(***************************************************************************)
EXTENDS PaxosServer, FiniteSets

CONSTANTS
  Clients,      \* processes that run choose()
  Readers,      \* processes that run get(), once each
  Id,           \* Id[c] is the id client c signs its proposals with
  Elections,    \* quorums that may be submitted instead of a value
  Crashing,     \* clients that may die in the middle of choose()
  \* Bounds
  MaxVersion,   \* versions submitted
  MaxRound,     \* MaxRound[c] is the last round client c gets to
  MaxOutages    \* calls that fail because the peer cannot be reached

ASSUME IdAssumption == Id \in [Clients -> Senders]

ASSUME BoundAssumption == MaxRound \in [Clients -> Nat]

ASSUME QuorumAssumption ==
  /\ IsFiniteSet(Servers)
  /\ Elections \subseteq Quorums

VARIABLES
  server,     \* server[s] is the state of server s
  client,     \* client[c] is the state of c's choose()
  reader,     \* reader[r] is the state of r's get()
  late,       \* requests in flight nobody waits for
  outages,    \* number of calls that failed so far
  submitted,  \* values submitted so far (each is submitted once)
  choices     \* history: what the calls to choose() that returned chose

vars == <<server, client, reader, late, outages, submitted, choices>>

-----------------------------------------------------------------------------
(* A client's state.                                                       *)

Responses ==
  [type : {"response"}, proposal : Proposal \union {None},
   value : Value \union {None}, confirmed : BOOLEAN]

ASSUME ResponsesAssumption ==
  /\ None \notin Responses
  /\ None \notin [proposal : Reported, value : Values, confirmed : {TRUE}]

ClientState ==
  [pc          : {"idle", "propose", "accept", "confirm"},
   quorum      : Quorums,
   version     : Nat,
   round       : Nat,
   value       : Value \union {None},   \* what choose() was called with
   replace     : Value \union {None},   \* what it must choose instead
   waiting     : SUBSET Servers,        \* peers yet to answer
   unavailable : SUBSET Servers,        \* peers that could not be reached
   responses   : [Servers -> Responses \union {None}]]

\* What a call to choose() that returned had chosen, for which version.
Choice == [version : Nat, value : Value]

NoResponses == [s \in Servers |-> None]

Idle ==
  [pc |-> "idle", quorum |-> {}, version |-> 0, round |-> 0, value |-> None,
   replace |-> None, waiting |-> {}, unavailable |-> {},
   responses |-> NoResponses]

\* The proposal of the round under way.
Current(c) ==
  [version |-> client[c].version, round |-> client[c].round, sender |-> Id[c]]

\* Fault: the value choose() was called with is forgotten.
SubmissionReplaced(c) == client[c].replace

\* The value to have accepted: the replacement if there is one.
Submission(c) ==
  IF client[c].replace # None THEN client[c].replace ELSE client[c].value

\* reached <= size / 2 is too few.
Majority(reached, q) == Cardinality(reached) > Cardinality(q) \div 2

\* The quorums there may be. What an election that is sound must ensure: any two
\* majorities of them share a server, as two majorities of the same quorum do.
Quora == {Servers} \union Elections

Intersecting ==
  \A q, r \in Quora : \A m \in SUBSET q, n \in SUBSET r :
    Majority(m, q) /\ Majority(n, r) => m \cap n # {}

\* When reading, reached <= (size - 1) / 2 is too few.
ReadMajority(reached, q) ==
  Cardinality(reached) > (Cardinality(q) - 1) \div 2

-----------------------------------------------------------------------------
(* Requests and what a server does with them.                              *)

Request ==
  [type : {"propose", "accept", "confirm"}, server : Servers,
   quorum : Quorums, proposal : Proposal, value : Value \union {None}]

\* The call client c is making to s in the round under way.
Call(c, s) ==
  [type |-> client[c].pc, server |-> s, quorum |-> client[c].quorum,
   proposal |-> Current(c),
   value |-> IF client[c].pc = "accept" THEN Submission(c) ELSE None]

Calls(c) == {Call(c, s) : s \in client[c].waiting}

Handled(m) ==
  LET s == server[m.server]
  IN  CASE m.type = "propose" -> ProposeState(s, m.quorum, m.proposal)
        [] m.type = "accept"  -> AcceptState(s, m.quorum, m.proposal, m.value)
        [] m.type = "confirm" -> ConfirmState(s, m.quorum, m.proposal)

Reply(m) ==
  LET s == server[m.server]
  IN  CASE m.type = "propose" -> ProposeReply(s, m.quorum, m.proposal)
        [] m.type = "accept"  -> AcceptReply(s, m.quorum, m.proposal)
        [] m.type = "confirm" -> ConfirmReply(s, m.quorum, m.proposal)

Handle(m) == server' = [server EXCEPT ![m.server] = Handled(m)]

-----------------------------------------------------------------------------
(* How choose() ends or goes on.                                           *)

\* choose() throws, or its process dies: nobody waits for the calls pending.
Fail(c) ==
  /\ client' = [client EXCEPT ![c] = Idle]
  /\ late' = late \union Calls(c)
  /\ UNCHANGED choices

Return(c, version, value) ==
  /\ client' = [client EXCEPT ![c] = Idle]
  /\ choices' = choices \union {[version |-> version, value |-> value]}
  /\ UNCHANGED late

\* Fault: the round is not incremented.
RetrySameRound(c, version, round, replace) ==
  /\ client' = [client EXCEPT ![c] =
       [@ EXCEPT !.pc = "propose", !.version = version,
                 !.replace = replace, !.waiting = client[c].quorum,
                 !.unavailable = {}, !.responses = NoResponses]]
  /\ late' = late \union Calls(c)
  /\ UNCHANGED choices

\* Start a new round of proposals; the calls pending are given up.
Retry(c, version, round, replace) ==
  /\ round =< MaxRound[c]
  /\ client' = [client EXCEPT ![c] =
       [@ EXCEPT !.pc = "propose", !.version = version, !.round = round,
                 !.replace = replace, !.waiting = client[c].quorum,
                 !.unavailable = {}, !.responses = NoResponses]]
  /\ late' = late \union Calls(c)
  /\ UNCHANGED choices

\* Go on with the next phase, with the peers that could be reached so far.
Proceed(c, pc, replace) ==
  /\ client' = [client EXCEPT ![c] =
       [@ EXCEPT !.pc = pc, !.replace = replace,
                 !.waiting = client[c].quorum \ client[c].unavailable,
                 !.responses = NoResponses]]
  /\ UNCHANGED <<late, choices>>

\* Peer s answered: one less to wait for.
Answered(c, s, response) ==
  /\ client' = [client EXCEPT ![c].waiting = @ \ {s},
                              ![c].responses[s] = response]
  /\ UNCHANGED <<late, choices>>

-----------------------------------------------------------------------------
(* choose()                                                                *)

\* Versions a caller may ask for: up to the one after the last chosen.
Versions ==
  {v \in 0..MaxVersion : v = 0 \/ \E ch \in choices : v =< ch.version + 1}

Choose(c, q, version, value) ==
  /\ client[c].pc = "idle"
  /\ value \notin submitted
  /\ client' = [client EXCEPT ![c] =
       [Idle EXCEPT !.pc = "propose", !.quorum = q, !.version = version,
                    !.round = 1, !.value = value, !.waiting = q]]
  /\ submitted' = submitted \union {value}
  /\ UNCHANGED <<server, reader, late, outages, choices>>

\* The peer cannot be reached, or not in time.
Unreachable(c, s) ==
  /\ s \in client[c].waiting
  /\ outages < MaxOutages
  /\ outages' = outages + 1
  /\ late' = late \union {Call(c, s)}
  /\ client' = [client EXCEPT ![c].waiting = @ \ {s},
                              ![c].unavailable = @ \union {s}]
  /\ UNCHANGED <<server, reader, submitted, choices>>

Propose(c, s) ==
  /\ client[c].pc = "propose"
  /\ s \in client[c].waiting
  /\ Handle(Call(c, s))
  /\ LET r == Reply(Call(c, s))
     IN  IF r.type = "response" THEN Answered(c, s, r) ELSE Fail(c)
  /\ UNCHANGED <<reader, outages, submitted>>

\* The responses with a value or a proposal, and those no other beats.
Valued(c) ==
  {s \in Servers :
     client[c].responses[s] # None /\ client[c].responses[s].value # None}

Proposed(c) ==
  {s \in Servers :
     client[c].responses[s] # None /\ client[c].responses[s].proposal # None}

Highest(c, S) ==
  {s \in S : \A t \in S : ~Less(client[c].responses[s].proposal,
                                client[c].responses[t].proposal)}

\* Fault: the self conflict is not detected.
UnopposedByOthers(c, top) ==
  Proposed(c) = {} \/ \E p \in top : ~Less(Current(c), p)

\* No peer has promised as much as the proposal of the round, to another or,
\* for clients that share an id, to oneself (the self conflict).
Unopposed(c, top) == Proposed(c) = {} \/ \E p \in top : Less(p, Current(c))

ConfirmedResponses(c) == {s \in Valued(c) : client[c].responses[s].confirmed}

\* The proposals are all answered: return what is already confirmed, take
\* over what is already accepted, start again above a higher promise.
Elect(c) ==
  /\ client[c].pc = "propose"
  /\ client[c].waiting = {}
  /\ \/ \E s \in ConfirmedResponses(c) :
          Return(c, client[c].responses[s].proposal.version,
                 client[c].responses[s].value)
     \/ /\ ConfirmedResponses(c) = {}
        /\ ~Majority(client[c].quorum \ client[c].unavailable,
                     client[c].quorum)
        /\ Fail(c)
     \/ /\ ConfirmedResponses(c) = {}
        /\ Majority(client[c].quorum \ client[c].unavailable,
                    client[c].quorum)
        /\ \E replace \in IF Valued(c) = {} THEN {client[c].replace}
                          ELSE {client[c].responses[s].value :
                                  s \in Highest(c, Valued(c))} :
             LET top == {client[c].responses[s].proposal :
                           s \in Highest(c, Proposed(c))}
             IN  \/ /\ Unopposed(c, top)
                    /\ Proceed(c, "accept", replace)
                 \/ /\ Current(c) \in top
                    /\ Retry(c, client[c].version, client[c].round + 2,
                             replace)
                 \/ \E p \in top :
                      /\ Less(Current(c), p)
                      /\ Retry(c, p.version, p.round + 1, replace)
  /\ UNCHANGED <<server, reader, outages, submitted>>

Accept(c, s) ==
  /\ client[c].pc = "accept"
  /\ s \in client[c].waiting
  /\ Handle(Call(c, s))
  /\ LET r == Reply(Call(c, s))
     IN  \/ /\ r.type # "minimum"
            /\ Fail(c)
         \/ /\ r.type = "minimum"
            /\ Less(Current(c), r.proposal)
            /\ Retry(c, r.proposal.version, r.proposal.round + 1,
                     client[c].replace)
         \/ /\ r.type = "minimum"
            /\ ~Less(Current(c), r.proposal)
            /\ Answered(c, s, None)
  /\ UNCHANGED <<reader, outages, submitted>>

Confirm(c, s) ==
  /\ client[c].pc = "confirm"
  /\ s \in client[c].waiting
  /\ Handle(Call(c, s))
  /\ IF Reply(Call(c, s)).type = "done" THEN Answered(c, s, None)
     ELSE Fail(c)
  /\ UNCHANGED <<reader, outages, submitted>>

\* The end of the accept and confirm rounds: too few peers, or go on.
EndRound(c) ==
  /\ client[c].pc \in {"accept", "confirm"}
  /\ client[c].waiting = {}
  /\ IF ~Majority(client[c].quorum \ client[c].unavailable, client[c].quorum)
       THEN Fail(c)
     ELSE IF client[c].pc = "accept"
       THEN Proceed(c, "confirm", client[c].replace)
     ELSE Return(c, client[c].version, Submission(c))
  /\ UNCHANGED <<server, reader, outages, submitted>>

\* The client's process dies.
Crash(c) ==
  /\ c \in Crashing
  /\ client[c].pc # "idle"
  /\ Fail(c)
  /\ UNCHANGED <<server, reader, outages, submitted>>

\* A request nobody waits for is handled after all.
Deliver(m) ==
  /\ Handle(m)
  /\ late' = late \ {m}
  /\ UNCHANGED <<client, reader, outages, submitted, choices>>

-----------------------------------------------------------------------------
(* get()                                                                   *)

ReaderState ==
  [pc          : {"idle", "get", "returned", "failed"},
   quorum      : Quorums,
   waiting     : SUBSET Servers,
   unavailable : SUBSET Servers,
   best        : [proposal : Reported, value : Values, confirmed : {TRUE}]
                   \union {None},
   wrong       : Reported \union {None},  \* proposal of the WrongQuorum kept
   before      : SUBSET Choice]           \* history: choices when it began

IdleReader ==
  [pc |-> "idle", quorum |-> {}, waiting |-> {}, unavailable |-> {},
   best |-> None, wrong |-> None, before |-> {}]

Get(r, q) ==
  /\ reader[r].pc = "idle"
  /\ reader' = [reader EXCEPT ![r] =
       [@ EXCEPT !.pc = "get", !.quorum = q, !.waiting = q,
                 !.before = choices]]
  /\ UNCHANGED <<server, client, late, outages, submitted, choices>>

\* Peer s answers: keep the most recent value, the most recent quorum.
Read(r, s) ==
  LET reply == GetReply(server[s], reader[r].quorum)
      best  == reader[r].best
      wrong == reader[r].wrong
  IN  /\ s \in reader[r].waiting
      /\ \/ /\ reply.type = "wrong_quorum"
            /\ reply.proposal = None
            /\ reader' = [reader EXCEPT ![r].pc = "failed", ![r].waiting = {}]
         \/ /\ reply.type = "wrong_quorum"
            /\ reply.proposal # None
            /\ reader' = [reader EXCEPT
                 ![r].waiting = @ \ {s},
                 ![r].wrong = IF wrong = None \/ Less(wrong, reply.proposal)
                                THEN reply.proposal ELSE wrong]
         \/ /\ reply.type = "value"
            /\ reader' = [reader EXCEPT
                 ![r].waiting = @ \ {s},
                 ![r].best = IF /\ reply.accepted # None
                                /\ \/ best = None
                                   \/ Less(best.proposal, reply.accepted.proposal)
                               THEN reply.accepted ELSE best]
      /\ UNCHANGED <<server, client, late, outages, submitted, choices>>

ReadUnreachable(r, s) ==
  /\ s \in reader[r].waiting
  /\ outages < MaxOutages
  /\ outages' = outages + 1
  /\ reader' = [reader EXCEPT ![r].waiting = @ \ {s},
                              ![r].unavailable = @ \union {s}]
  /\ UNCHANGED <<server, client, late, submitted, choices>>

EndGet(r) ==
  LET best  == reader[r].best
      wrong == reader[r].wrong
      fails == \/ ~ReadMajority(reader[r].quorum \ reader[r].unavailable,
                                reader[r].quorum)
               \/ wrong # None /\ (best = None \/ Less(best.proposal, wrong))
  IN  /\ reader[r].pc = "get"
      /\ reader[r].waiting = {}
      /\ reader' = [reader EXCEPT ![r].pc =
                      IF fails THEN "failed" ELSE "returned"]
      /\ UNCHANGED <<server, client, late, outages, submitted, choices>>

-----------------------------------------------------------------------------
Init ==
  /\ server = [s \in Servers |-> NewServer(Servers, None)]
  /\ client = [c \in Clients |-> Idle]
  /\ reader = [r \in Readers |-> IdleReader]
  /\ late = {}
  /\ outages = 0
  /\ submitted = {}
  /\ choices = {}

\* The quorums a caller may know: the one of all servers and the elected ones.
Known == {Servers} \union {ch.value : ch \in {x \in choices : IsQuorum(x.value)}}

ClientStep(c) ==
  \/ \E s \in Servers : Propose(c, s) \/ Accept(c, s) \/ Confirm(c, s)
  \/ Elect(c)
  \/ EndRound(c)

Next ==
  \/ \E c \in Clients, q \in Known, version \in Versions :
       \E value \in Values \union Elections : Choose(c, q, version, value)
  \/ \E c \in Clients : ClientStep(c) \/ Crash(c)
  \/ \E c \in Clients, s \in Servers : Unreachable(c, s)
  \/ \E m \in late : Deliver(m)
  \/ \E r \in Readers, q \in Known : Get(r, q)
  \/ \E r \in Readers, s \in Servers : Read(r, s) \/ ReadUnreachable(r, s)
  \/ \E r \in Readers : EndGet(r)

Spec == Init /\ [][Next]_vars

\* The calls of a client that does not die are all answered or given up, and
\* its thread is scheduled.
LiveSpec == Spec /\ \A c \in Clients \ Crashing : WF_vars(ClientStep(c))

-----------------------------------------------------------------------------
(* Properties                                                              *)

\* The variables have the values they are meant to have.
TypeOK ==
  /\ server \in [Servers -> Server]
  /\ client \in [Clients -> ClientState]
  /\ reader \in [Readers -> ReaderState]
  /\ late \subseteq Request
  /\ outages \in Nat
  /\ submitted \subseteq Value
  /\ choices \subseteq Choice

\* All the requests that may still be handled.
InFlight == late \union UNION {Calls(c) : c \in Clients}

\* A server never goes back on a promise: the proposal it promised (Server.hxx
\* propose) never decreases, whatever is committed or forgotten on the way.
PromisesHold ==
  [][\A s \in Servers :
       server[s].proposal # None =>
         /\ server[s].proposal' # None
         /\ ~Less(server[s].proposal', server[s].proposal)]_vars

\* Servers never take an honest client for a malicious one: no accept or
\* confirm that choose() sends, however late, hits the "propose before
\* accepting" and "propose and accept before confirming" errors.
HonestNeverAccused == \A m \in InFlight : Reply(m).type # "malicious"

\* A proposal carries a single value: whatever has been accepted, or may
\* still be, under the same proposal is the same, even for clients that share
\* an id (the self conflict that choose() detects).
OneValuePerProposal ==
  LET accepts == {[proposal |-> m.proposal, value |-> m.value] :
                    m \in {x \in InFlight : x.type = "accept"}}
      accepted == {[proposal |-> server[s].accepted.proposal,
                    value |-> server[s].accepted.value] :
                     s \in {t \in Servers : server[t].accepted # None}}
  IN  \A a, b \in accepts \union accepted :
        a.proposal = b.proposal => a.value = b.value

\* What a server accepted is within its promise, from the version under way
\* unless its state is partial, and a partial state is never confirmed.
AcceptedUnderPromise == \A s \in Servers : Coherent(server[s])

\* Two calls to choose() never return different values for a version.
Agreement ==
  \A a, b \in choices : a.version = b.version => a.value = b.value

\* choose() is consensus, by version, on what is submitted to it.
Promise == INSTANCE Consensus WITH Submissions <- Value, Numbers <- 0..MaxVersion,
                                   proposed <- submitted, chosen <- choices

ImplementsConsensus == Promise!Spec

\* What is chosen, and what get() returns, is what some caller submitted, whatever the
\* servers and the clients that took it over went through (replace_value in choose).
Validity ==
  /\ \A ch \in choices : ch.value \in submitted
  /\ \A r \in Readers : reader[r].best # None => reader[r].best.value \in submitted

\* "FIXME: assert !confirmed || new_value == value ?": what a server has
\* confirmed is not replaced by another value of the same version.
ConfirmedIsFinal ==
  [][\A s \in Servers :
       /\ Confirmed(server[s])
       /\ server[s]'.accepted # None
       /\ server[s]'.accepted.proposal.version
            = server[s].accepted.proposal.version
       => server[s]'.accepted.value = server[s].accepted.value]_vars

\* choose() ends: with the value chosen or an error, whatever the clients it
\* competes with do in their bounded rounds, even if they stop half way.
ChooseEnds ==
  \A c \in Clients \ Crashing :
    client[c].pc # "idle" ~> client[c].pc = "idle"

\* The values choose() had returned when r called get().
ChosenBefore(r) == {ch \in reader[r].before : ch.value \in Values}

\* get() never goes back in time as far as versions tell: the version it
\* reports is not below one choose() had returned when it was called.
ReadVersion ==
  \A r \in Readers : reader[r].pc = "returned" =>
    \A ch \in ChosenBefore(r) :
      /\ reader[r].best # None
      /\ reader[r].best.proposal.version >= ch.version

\* get() returns "the latest chosen value": never one chosen before a value
\* that choose() had returned when get() was called.
ReadLatest ==
  \A r \in Readers : reader[r].pc = "returned" =>
    ~ \E ch, older \in ChosenBefore(r) :
        /\ older.version < ch.version
        /\ reader[r].best # None
        /\ reader[r].best.value = older.value

-----------------------------------------------------------------------------
(* Why the properties above hold: what a client relies on.                 *)

\* What a request in flight may count on at the server it is sent to.
Prepared(m) ==
  /\ m.type = "accept" => m.value # None /\ Promised(server[m.server], m.proposal)
  /\ m.type = "confirm" => /\ Promised(server[m.server], m.proposal)
                            /\ AcceptedOrPast(server[m.server], m.proposal)

\* What the rounds that choose() has been through have established: the peers
\* that answered have promised, then accepted.
Established(c) ==
  LET reached == client[c].quorum \ client[c].unavailable
      answered == reached \ client[c].waiting
  IN  /\ client[c].waiting \subseteq reached
      /\ client[c].pc # "idle" => client[c].value # None
      /\ client[c].pc = "idle" => client[c].waiting = {}
      /\ \A s \in Servers : LET r == client[c].responses[s] IN
           r # None /\ r.value # None => r.proposal # None
      /\ client[c].pc = "propose" =>
           \A s \in answered : Promised(server[s], Current(c))
      /\ client[c].pc \in {"accept", "confirm"} =>
           \A s \in reached : Promised(server[s], Current(c))
      /\ client[c].pc = "accept" =>
           \A s \in answered : AcceptedOrPast(server[s], Current(c))
      /\ client[c].pc = "confirm" =>
           \A s \in reached : AcceptedOrPast(server[s], Current(c))

\* The inductive invariant: every accept and every confirm that is or may come
\* in flight finds the promise and the acceptance it follows from.
Inductive ==
  /\ TypeOK
  /\ AcceptedUnderPromise
  /\ \A m \in late : Prepared(m)
  /\ \A c \in Clients : Established(c)

=============================================================================
