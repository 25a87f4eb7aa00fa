------------------------- MODULE AthenaPaxosProofs -------------------------
(***************************************************************************)
(* AthenaPaxos keeps its types and its promises, no request of a client    *)
(* that runs choose() is ever mistaken for a malicious one, and a proposal *)
(* carries one value.                                                      *)
(*                                                                         *)
(* A step changes the servers by a handler applied to a prepared request,  *)
(* so every server remembers what it promised and accepted (ServersKept).  *)
(* It changes at most one client, and gives up at most that client's       *)
(* calls, which were prepared: what is left to show for each action is     *)
(* what the client it changes has established (OneClient).                 *)
(*                                                                         *)
(* For the values, Voting says what may be accepted under a proposal: a    *)
(* majority took that proposal as new, once, and for one client.           *)
(*                                                                         *)
(* Deciding says, if every peer can be reached and there is one quorum,    *)
(* that each version has at most one outcome, and that whatever was        *)
(* returned, confirmed, or told as confirmed is that outcome; a version    *)
(* with one is Locked: every server accepted it, and every later proposal  *)
(* of that version is for it too.                                          *)
(***************************************************************************)
EXTENDS AthenaPaxos, PaxosServerProofs

\* The provers each leaf is tried with in turn, and the seconds each is given.
USE ZenonT(3), SMTT(30), ZenonT(30)

ServersKept == \A s \in Servers : Remembers(server[s], server'[s])

\* Every request in flight is well formed and prepared.
LEMMA InFlightPrepared ==
  ASSUME Inductive
  PROVE  \A m \in InFlight : m \in Request /\ Prepared(m)
<1>1. ASSUME NEW c \in Clients, NEW s \in client[c].waiting
      PROVE  Call(c, s) \in Request /\ Prepared(Call(c, s))
  <2>1. client[c] \in ClientState /\ Established(c) /\ s \in Servers
    BY DEF Inductive, TypeOK, ClientState
  <2>2. client[c].pc \in {"propose", "accept", "confirm"}
    BY <2>1 DEF Established, ClientState
  <2>3. Current(c) \in Proposal
    BY <2>1, IdAssumption DEF Current, Proposal, ClientState
  <2>4. Submission(c) \in Value
    BY <2>1, <2>2 DEF Submission, ClientState, Established
  <2>5. Call(c, s) \in Request
    BY <2>1, <2>2, <2>3, <2>4 DEF Call, Request, ClientState
  <2>6. Prepared(Call(c, s))
    BY <2>1, <2>2, <2>4, NoneAssumption DEF Prepared, Call, Established, Value
  <2> QED BY <2>5, <2>6
<1>2. ASSUME NEW m \in late
      PROVE  m \in Request /\ Prepared(m)
  BY DEF Inductive, TypeOK
<1> QED BY <1>1, <1>2 DEF InFlight, Calls

\* Handling a prepared request forgets nothing.
LEMMA HandleKeeps ==
  ASSUME Inductive, NEW m \in Request, Prepared(m), Handle(m)
  PROVE  server' \in [Servers -> Server] /\ ServersKept
<1> DEFINE s == server[m.server]
<1>1. /\ s \in Server /\ Coherent(s) /\ m.server \in Servers
      /\ m.proposal \in Proposal /\ m.quorum \in Quorums
      /\ m.type \in {"propose", "accept", "confirm"}
  BY DEF Inductive, TypeOK, AcceptedUnderPromise, Request
<1>2. Remembers(s, Handled(m))
  <2>1. CASE m.type = "propose"
    BY <1>1, <2>1, ProposeRemembers DEF Handled
  <2>2. CASE m.type = "accept"
    <3>1. m.value \in Value
      BY <2>2 DEF Request, Prepared
    <3> QED BY <1>1, <2>2, <3>1, AcceptRemembers DEF Handled
  <2>3. CASE m.type = "confirm"
    BY <1>1, <2>3, ConfirmRemembers DEF Handled, Prepared
  <2> QED BY <1>1, <2>1, <2>2, <2>3
<1>3. \A t \in Servers : Remembers(server[t], server[t])
  <2> TAKE t \in Servers
  <2> server[t] \in Server /\ Coherent(server[t])
    BY DEF Inductive, TypeOK, AcceptedUnderPromise
  <2> QED BY DEF Remembers
<1>4. server \in [Servers -> Server]
  BY DEF Inductive, TypeOK
<1>5. server' = [server EXCEPT ![m.server] = Handled(m)]
  BY DEF Handle
<1>6. Handled(m) \in Server
  BY <1>2 DEF Remembers
<1>7. server' \in [Servers -> Server]
  BY <1>1, <1>4, <1>5, <1>6
<1>8. ASSUME NEW t \in Servers
      PROVE  Remembers(server[t], server'[t])
  <2>1. CASE t = m.server
    <3>1. server'[t] = Handled(m)
      BY <1>4, <1>5, <2>1
    <3> QED BY <1>2, <2>1, <3>1
  <2>2. CASE t # m.server
    <3>1. server'[t] = server[t]
      BY <1>4, <1>5, <2>2
    <3> QED BY <1>3, <3>1
  <2> QED BY <2>1, <2>2
<1> QED BY <1>7, <1>8 DEF ServersKept

\* So does leaving the servers alone.
LEMMA UnchangedKeeps ==
  ASSUME Inductive, UNCHANGED server
  PROVE  server' \in [Servers -> Server] /\ ServersKept
<1>1. \A s \in Servers : server[s] \in Server /\ Coherent(server[s])
  BY DEF Inductive, TypeOK, AcceptedUnderPromise
<1>2. \A s \in Servers : Remembers(server[s], server[s])
  BY <1>1 DEF Remembers
<1>3. server \in [Servers -> Server]
  BY DEF Inductive, TypeOK
<1> QED BY <1>2, <1>3 DEF ServersKept

\* A prepared request stays so.
LEMMA StaysPrepared ==
  ASSUME ServersKept, NEW m \in Request, Prepared(m)
  PROVE  Prepared(m)'
<1>1. m.server \in Servers /\ m.proposal \in Proposal
  BY DEF Request
<1>2. Remembers(server[m.server], server'[m.server])
  BY <1>1 DEF ServersKept
<1>3. /\ Promised(server[m.server], m.proposal) => Promised(server'[m.server], m.proposal)
      /\ Promised(server[m.server], m.proposal) /\ AcceptedOrPast(server[m.server], m.proposal)
           => AcceptedOrPast(server'[m.server], m.proposal)
  BY <1>1, <1>2 DEF Remembers
<1> QED BY <1>3 DEF Prepared

\* What a client has established stays so as long as it does nothing.
LEMMA StaysEstablished ==
  ASSUME ServersKept, NEW c \in Clients, client[c] \in ClientState,
         Established(c), client'[c] = client[c]
  PROVE  Established(c)'
<1>1. Current(c) \in Proposal /\ Current(c)' = Current(c)
  BY IdAssumption DEF Current, Proposal, ClientState
<1>2. \A s \in Servers :
        /\ Promised(server[s], Current(c)) => Promised(server'[s], Current(c))
        /\ Promised(server[s], Current(c)) /\ AcceptedOrPast(server[s], Current(c))
             => AcceptedOrPast(server'[s], Current(c))
  BY <1>1 DEF Remembers, ServersKept
<1>3. client[c].quorum \subseteq Servers
  BY DEF ClientState, Quorums
<1> QED BY <1>1, <1>2, <1>3 DEF Established

-----------------------------------------------------------------------------
(* The step that changes one client at most.                               *)

LEMMA OneClient ==
  ASSUME Inductive, ServersKept, server' \in [Servers -> Server],
         NEW c \in Clients, NEW new \in ClientState,
         client' = [client EXCEPT ![c] = new],
         late' \subseteq InFlight,
         Established(c)',
         reader' \in [Readers -> ReaderState], outages' \in Nat,
         submitted' \subseteq Value,
         choices' \subseteq Choice
  PROVE  Inductive'
<1>2. \A m \in late' : m \in Request /\ Prepared(m)'
  BY InFlightPrepared, StaysPrepared
<1>3. client \in [Clients -> ClientState] /\ client' \in [Clients -> ClientState]
  BY DEF Inductive, TypeOK
<1>4. ASSUME NEW d \in Clients
      PROVE  Established(d)'
  <2>1. CASE d = c
    BY <2>1
  <2>2. CASE d # c
    <3>1. client'[d] = client[d] /\ client[d] \in ClientState /\ Established(d)
      BY <1>3, <2>2 DEF Inductive
    <3> QED BY <3>1, StaysEstablished
  <2> QED BY <2>1, <2>2
<1>5. TypeOK'
  BY <1>2, <1>3 DEF TypeOK
<1>6. AcceptedUnderPromise'
  BY DEF AcceptedUnderPromise, ServersKept, Remembers
<1> QED BY <1>2, <1>4, <1>5, <1>6 DEF Inductive

\* The step that changes none.
LEMMA NoClient ==
  ASSUME Inductive, ServersKept, server' \in [Servers -> Server],
         UNCHANGED client, late' \subseteq late,
         reader' \in [Readers -> ReaderState], outages' \in Nat,
         submitted' \subseteq Value,
         choices' \subseteq Choice
  PROVE  Inductive'
<1>1. \A m \in late' : m \in Request /\ Prepared(m)'
  BY StaysPrepared DEF Inductive, TypeOK
<1>2. \A d \in Clients : Established(d)'
  BY StaysEstablished DEF Inductive, TypeOK
<1>3. TypeOK'
  BY <1>1 DEF Inductive, TypeOK
<1>4. AcceptedUnderPromise'
  BY DEF AcceptedUnderPromise, ServersKept, Remembers
<1> QED BY <1>1, <1>2, <1>3, <1>4 DEF Inductive

-----------------------------------------------------------------------------
(* The ways choose() ends or goes on.                                      *)

LEMMA GivenUp ==
  ASSUME NEW c \in Clients
  PROVE  late \union Calls(c) \subseteq InFlight
BY DEF InFlight

LEMMA IdleEstablished ==
  ASSUME Inductive, NEW c \in Clients, client' = [client EXCEPT ![c] = Idle]
  PROVE  Idle \in ClientState /\ Established(c)'
<1>1. Idle \in ClientState
  BY DEF Idle, ClientState, Quorums, NoResponses
<1>2. client'[c] = Idle
  BY DEF Inductive, TypeOK
<1> QED BY <1>1, <1>2 DEF Established, Idle, NoResponses

LEMMA FailKeeps ==
  ASSUME Inductive, ServersKept, server' \in [Servers -> Server],
         NEW c \in Clients, Fail(c), UNCHANGED <<reader, outages, submitted>>
  PROVE  Inductive'
<1>1. Idle \in ClientState /\ Established(c)'
  BY IdleEstablished DEF Fail
<1> QED BY <1>1, GivenUp, OneClient DEF Fail, Inductive, TypeOK

LEMMA ReturnKeeps ==
  ASSUME Inductive, ServersKept, server' \in [Servers -> Server],
         NEW c \in Clients, NEW version \in Nat, NEW value \in Value,
         Return(c, version, value), UNCHANGED <<reader, outages, submitted>>
  PROVE  Inductive'
<1>1. Idle \in ClientState /\ Established(c)'
  BY IdleEstablished DEF Return
<1>2. late' \subseteq InFlight
  BY DEF Return, InFlight
<1>3. choices' \subseteq Choice
  BY DEF Return, Inductive, TypeOK, Choice
<1> QED BY <1>1, <1>2, <1>3, OneClient DEF Return, Inductive, TypeOK

LEMMA RetryKeeps ==
  ASSUME Inductive, ServersKept, server' \in [Servers -> Server],
         NEW c \in Clients, client[c].pc # "idle",
         NEW version \in Nat, NEW round \in Nat,
         NEW replace \in Value \union {None},
         Retry(c, version, round, replace),
         UNCHANGED <<reader, outages, submitted>>
  PROVE  Inductive'
<1> DEFINE new == [client[c] EXCEPT !.pc = "propose", !.version = version,
                     !.round = round, !.replace = replace,
                     !.waiting = client[c].quorum,
                     !.unavailable = {}, !.responses = NoResponses]
<1>1. client[c] \in ClientState /\ Established(c) /\ client \in [Clients -> ClientState]
  BY DEF Inductive, TypeOK
<1>2. new \in ClientState
  BY <1>1 DEF ClientState, Quorums, NoResponses
<1>3. client' = [client EXCEPT ![c] = new] /\ client'[c] = new
  BY <1>1 DEF Retry
<1>4. /\ new.pc = "propose" /\ new.waiting = new.quorum /\ new.unavailable = {}
      /\ new.responses = NoResponses /\ new.value = client[c].value
  BY <1>1 DEF ClientState
<1>5. Established(c)'
  BY <1>1, <1>3, <1>4 DEF Established, NoResponses
<1> QED BY <1>2, <1>3, <1>5, GivenUp, OneClient DEF Retry, Inductive, TypeOK

LEMMA ProceedKeeps ==
  ASSUME Inductive, UNCHANGED <<server, reader, outages, submitted>>,
         NEW c \in Clients, client[c].waiting = {}, NEW pc,
         \/ client[c].pc = "propose" /\ pc = "accept"
         \/ client[c].pc = "accept" /\ pc = "confirm",
         NEW replace \in Value \union {None},
         Proceed(c, pc, replace)
  PROVE  Inductive'
<1> DEFINE new == [client[c] EXCEPT !.pc = pc, !.replace = replace,
                     !.waiting = client[c].quorum \ client[c].unavailable,
                     !.responses = NoResponses]
<1>1. client[c] \in ClientState /\ Established(c) /\ client \in [Clients -> ClientState]
  BY DEF Inductive, TypeOK
<1>2. new \in ClientState
  BY <1>1 DEF ClientState, Quorums, NoResponses
<1>3. client' = [client EXCEPT ![c] = new] /\ client'[c] = new
  BY <1>1 DEF Proceed
<1>4. /\ new.pc = pc /\ new.waiting = new.quorum \ new.unavailable
      /\ new.quorum = client[c].quorum /\ new.unavailable = client[c].unavailable
      /\ new.responses = NoResponses /\ new.value = client[c].value
      /\ new.version = client[c].version /\ new.round = client[c].round
  BY <1>1 DEF ClientState
<1>5. Current(c)' = Current(c)
  BY <1>3, <1>4 DEF Current
<1>6. Established(c)'
  BY <1>1, <1>3, <1>4, <1>5 DEF Established, NoResponses
<1>7. server' \in [Servers -> Server] /\ ServersKept
  BY UnchangedKeeps
<1>8. late' \subseteq InFlight
  BY DEF Proceed, InFlight
<1> QED BY <1>2, <1>3, <1>6, <1>7, <1>8, OneClient DEF Proceed, Inductive, TypeOK

LEMMA AnsweredKeeps ==
  ASSUME Inductive, ServersKept, server' \in [Servers -> Server],
         NEW c \in Clients, NEW s \in client[c].waiting,
         NEW response \in Responses \union {None},
         response # None /\ response.value # None => response.proposal # None,
         client[c].pc = "propose" => Promised(server'[s], Current(c)),
         client[c].pc = "accept" => AcceptedOrPast(server'[s], Current(c)),
         Answered(c, s, response), UNCHANGED <<reader, outages, submitted>>
  PROVE  Inductive'
<1> DEFINE new == [client[c] EXCEPT !.waiting = @ \ {s}, !.responses[s] = response]
<1>1. client[c] \in ClientState /\ Established(c) /\ client \in [Clients -> ClientState]
  BY DEF Inductive, TypeOK
<1>2. s \in Servers /\ client[c].responses \in [Servers -> Responses \union {None}]
  BY <1>1 DEF ClientState
<1>3. new \in ClientState
  BY <1>1, <1>2 DEF ClientState
<1>4. client' = [client EXCEPT ![c] = new] /\ client'[c] = new
  BY <1>1 DEF Answered
<1>5. /\ new.pc = client[c].pc /\ new.waiting = client[c].waiting \ {s}
      /\ new.quorum = client[c].quorum /\ new.unavailable = client[c].unavailable
      /\ new.value = client[c].value
      /\ new.version = client[c].version /\ new.round = client[c].round
      /\ new.responses = [client[c].responses EXCEPT ![s] = response]
  BY <1>1 DEF ClientState
<1>6. Current(c)' = Current(c) /\ Current(c) \in Proposal
  BY <1>1, <1>4, <1>5, IdAssumption DEF Current, Proposal, ClientState
<1>7. \A t \in Servers :
        /\ Promised(server[t], Current(c)) => Promised(server'[t], Current(c))
        /\ Promised(server[t], Current(c)) /\ AcceptedOrPast(server[t], Current(c))
             => AcceptedOrPast(server'[t], Current(c))
  BY <1>6 DEF Remembers, ServersKept
<1>8. \A t \in Servers :
        new.responses[t] # None /\ new.responses[t].value # None =>
          new.responses[t].proposal # None
  BY <1>1, <1>2, <1>5 DEF Established
<1>9. client[c].quorum \subseteq Servers
  BY <1>1 DEF ClientState, Quorums
<1>10. Established(c)'
  BY <1>1, <1>4, <1>5, <1>6, <1>7, <1>8, <1>9 DEF Established
<1>11. late' \subseteq InFlight
  BY DEF Answered, InFlight
<1> QED BY <1>3, <1>4, <1>10, <1>11, OneClient DEF Answered, Inductive, TypeOK

-----------------------------------------------------------------------------
(* The actions.                                                            *)

\* The call a client makes, handled, forgets nothing.
LEMMA CallKeeps ==
  ASSUME Inductive, NEW c \in Clients, NEW s \in client[c].waiting,
         Handle(Call(c, s))
  PROVE  /\ server' \in [Servers -> Server] /\ ServersKept
         /\ s \in Servers /\ server'[s] = Handled(Call(c, s))
         /\ server[s] \in Server /\ Coherent(server[s])
         /\ Current(c) \in Proposal /\ Submission(c) \in Value
<1>1. Call(c, s) \in InFlight
  BY DEF InFlight, Calls
<1>2. client[c] \in ClientState /\ Established(c) /\ s \in Servers
  BY DEF Inductive, TypeOK, ClientState
<1>3. server \in [Servers -> Server] /\ Coherent(server[s])
  BY <1>2 DEF Inductive, TypeOK, AcceptedUnderPromise
<1>4. server'[s] = Handled(Call(c, s))
  BY <1>2, <1>3 DEF Handle, Call
<1>5. Current(c) \in Proposal
  BY <1>2, IdAssumption DEF Current, Proposal, ClientState
<1>6. Submission(c) \in Value
  BY <1>2 DEF Submission, ClientState, Established
<1> QED BY <1>1, <1>2, <1>3, <1>4, <1>5, <1>6, InFlightPrepared, HandleKeeps

LEMMA ProposeKeeps ==
  ASSUME Inductive, NEW c \in Clients, NEW s \in Servers, Propose(c, s)
  PROVE  Inductive' /\ ServersKept
<1> DEFINE r == Reply(Call(c, s))
<1>1. s \in client[c].waiting /\ client[c].pc = "propose" /\ Handle(Call(c, s))
  BY DEF Propose
<1>2. /\ server' \in [Servers -> Server] /\ ServersKept
      /\ server'[s] = Handled(Call(c, s))
      /\ server[s] \in Server /\ Coherent(server[s])
      /\ Current(c) \in Proposal
  BY <1>1, CallKeeps
<1>3. /\ r = ProposeReply(server[s], client[c].quorum, Current(c))
      /\ server'[s] = ProposeState(server[s], client[c].quorum, Current(c))
  BY <1>1, <1>2 DEF Reply, Handled, Call
<1>4. CASE r.type = "response"
  <2>1. /\ Promised(server'[s], Current(c)) /\ r \in Responses
        /\ r.value # None => r.proposal # None
    BY <1>2, <1>3, <1>4, ProposeAnswer DEF Responses
  <2>2. Answered(c, s, r)
    BY <1>4 DEF Propose
  <2> QED BY <1>1, <1>2, <2>1, <2>2, AnsweredKeeps DEF Propose
<1>5. CASE r.type # "response"
  BY <1>2, <1>5, FailKeeps DEF Propose
<1> QED BY <1>4, <1>5

LEMMA ElectKeeps ==
  ASSUME Inductive, NEW c \in Clients, Elect(c)
  PROVE  Inductive' /\ ServersKept
<1>1. server' \in [Servers -> Server] /\ ServersKept
  BY UnchangedKeeps DEF Elect
<1>2. /\ client[c] \in ClientState /\ Established(c) /\ client[c].pc = "propose"
      /\ client[c].waiting = {}
  BY DEF Inductive, TypeOK, Elect
<1>3. ASSUME NEW s \in Servers, client[c].responses[s] # None
      PROVE  /\ client[c].responses[s] \in Responses
             /\ client[c].responses[s].value # None =>
                  client[c].responses[s].proposal # None
  BY <1>2, <1>3 DEF ClientState, Established
<1>4. ASSUME NEW s \in ConfirmedResponses(c),
             Return(c, client[c].responses[s].proposal.version,
                    client[c].responses[s].value)
      PROVE  Inductive'
  <2>1. /\ client[c].responses[s].value \in Value
        /\ client[c].responses[s].proposal \in Proposal
    BY <1>3 DEF ConfirmedResponses, Valued, Responses
  <2>2. client[c].responses[s].proposal.version \in Nat
    BY <2>1, ProposalFields
  <2> QED BY <1>1, <1>4, <2>1, <2>2, ReturnKeeps DEF Elect
<1>5. ASSUME Fail(c) PROVE Inductive'
  BY <1>1, <1>5, FailKeeps DEF Elect
<1>6. ASSUME NEW replace \in IF Valued(c) = {} THEN {client[c].replace}
                             ELSE {client[c].responses[s].value :
                                     s \in Highest(c, Valued(c))}
      PROVE  replace \in Value \union {None}
  BY <1>2, <1>3 DEF ClientState, Highest, Valued, Responses
<1>7. ASSUME NEW replace \in Value \union {None}, Proceed(c, "accept", replace)
      PROVE  Inductive'
  BY <1>2, <1>7, ProceedKeeps DEF Elect
<1>8. ASSUME NEW replace \in Value \union {None},
             Retry(c, client[c].version, client[c].round + 2, replace)
      PROVE  Inductive'
  <2>1. client[c].version \in Nat /\ client[c].round + 2 \in Nat
    BY <1>2 DEF ClientState
  <2> QED BY <1>1, <1>2, <1>8, <2>1, RetryKeeps DEF Elect
<1>9. ASSUME NEW replace \in Value \union {None},
             NEW p \in {client[c].responses[s].proposal :
                          s \in Highest(c, Proposed(c))},
             Retry(c, p.version, p.round + 1, replace)
      PROVE  Inductive'
  <2>1. p \in Proposal
    BY <1>3 DEF Highest, Proposed, Responses
  <2>2. p.version \in Nat /\ p.round + 1 \in Nat
    BY <2>1, ProposalFields
  <2> QED BY <1>1, <1>2, <1>9, <2>2, RetryKeeps DEF Elect
<1>10. Inductive'
  BY <1>4, <1>5, <1>6, <1>7, <1>8, <1>9 DEF Elect
<1> QED BY <1>1, <1>10

LEMMA AcceptKeeps ==
  ASSUME Inductive, NEW c \in Clients, NEW s \in Servers, Accept(c, s)
  PROVE  Inductive' /\ ServersKept
<1> DEFINE r == Reply(Call(c, s))
<1>1. s \in client[c].waiting /\ client[c].pc = "accept" /\ Handle(Call(c, s))
  BY DEF Accept
<1>2. /\ server' \in [Servers -> Server] /\ ServersKept
      /\ server'[s] = Handled(Call(c, s))
      /\ server[s] \in Server /\ Coherent(server[s])
      /\ Current(c) \in Proposal /\ Submission(c) \in Value
  BY <1>1, CallKeeps
<1>3. /\ r = AcceptReply(server[s], client[c].quorum, Current(c))
      /\ server'[s] = AcceptState(server[s], client[c].quorum, Current(c),
                                  Submission(c))
  BY <1>1, <1>2 DEF Reply, Handled, Call
<1>4. r.type = "minimum" =>
        /\ r.proposal \in Proposal
        /\ ~Less(Current(c), r.proposal) => AcceptedOrPast(server'[s], Current(c))
  BY <1>2, <1>3, AcceptRemembers
<1>5. CASE r.type # "minimum" /\ Fail(c)
  BY <1>2, <1>5, FailKeeps DEF Accept
<1>6. CASE /\ r.type = "minimum"
           /\ Retry(c, r.proposal.version, r.proposal.round + 1, client[c].replace)
  <2>1. r.proposal.version \in Nat /\ r.proposal.round + 1 \in Nat
    BY <1>4, <1>6, ProposalFields
  <2>2. client[c].replace \in Value \union {None}
    BY DEF Inductive, TypeOK, ClientState
  <2> QED BY <1>1, <1>2, <1>6, <2>1, <2>2, RetryKeeps DEF Accept
<1>7. CASE /\ r.type = "minimum" /\ ~Less(Current(c), r.proposal)
           /\ Answered(c, s, None)
  BY <1>1, <1>2, <1>4, <1>7, AnsweredKeeps DEF Accept
<1> QED BY <1>5, <1>6, <1>7 DEF Accept

LEMMA ConfirmKeeps ==
  ASSUME Inductive, NEW c \in Clients, NEW s \in Servers, Confirm(c, s)
  PROVE  Inductive' /\ ServersKept
<1>1. s \in client[c].waiting /\ client[c].pc = "confirm" /\ Handle(Call(c, s))
  BY DEF Confirm
<1>2. server' \in [Servers -> Server] /\ ServersKept
  BY <1>1, CallKeeps
<1>3. CASE Fail(c)
  BY <1>2, <1>3, FailKeeps DEF Confirm
<1>4. CASE Answered(c, s, None)
  BY <1>1, <1>2, <1>4, AnsweredKeeps DEF Confirm
<1> QED BY <1>3, <1>4 DEF Confirm

LEMMA EndRoundKeeps ==
  ASSUME Inductive, NEW c \in Clients, EndRound(c)
  PROVE  Inductive' /\ ServersKept
<1>1. server' \in [Servers -> Server] /\ ServersKept
  BY UnchangedKeeps DEF EndRound
<1>2. client[c] \in ClientState /\ Established(c) /\ client[c].waiting = {}
  BY DEF Inductive, TypeOK, EndRound
<1>3. /\ client[c].version \in Nat /\ client[c].replace \in Value \union {None}
      /\ client[c].pc # "idle" => Submission(c) \in Value
  BY <1>2 DEF ClientState, Submission, Established
<1>4. CASE Fail(c)
  BY <1>1, <1>4, FailKeeps DEF EndRound
<1>5. CASE client[c].pc = "accept" /\ Proceed(c, "confirm", client[c].replace)
  BY <1>1, <1>2, <1>3, <1>5, ProceedKeeps DEF EndRound
<1>6. CASE client[c].pc # "idle" /\ Return(c, client[c].version, Submission(c))
  BY <1>1, <1>3, <1>6, ReturnKeeps DEF EndRound
<1> QED BY <1>4, <1>5, <1>6 DEF EndRound

LEMMA ChooseKeeps ==
  ASSUME Inductive, NEW c \in Clients, NEW q \in Quorums, NEW version \in Nat,
         NEW value \in Value, Choose(c, q, version, value)
  PROVE  Inductive' /\ ServersKept
<1> DEFINE new == [Idle EXCEPT !.pc = "propose", !.quorum = q,
                     !.version = version, !.round = 1, !.value = value,
                     !.waiting = q]
<1>1. server' \in [Servers -> Server] /\ ServersKept
  BY UnchangedKeeps DEF Choose
<1>2. new \in ClientState
  BY DEF Idle, ClientState, Quorums, NoResponses
<1>3. client' = [client EXCEPT ![c] = new] /\ client'[c] = new
  BY DEF Choose, Inductive, TypeOK
<1>4. /\ new.pc = "propose" /\ new.waiting = q /\ new.quorum = q
      /\ new.unavailable = {} /\ new.value = value /\ new.responses = NoResponses
  BY DEF Idle
<1>5. value # None
  BY NoneAssumption DEF Value
<1>6. Established(c)'
  BY <1>3, <1>4, <1>5 DEF Established, NoResponses
<1>7. late' \subseteq InFlight /\ submitted' \subseteq Value
  BY DEF Choose, InFlight, Inductive, TypeOK
<1> QED BY <1>1, <1>2, <1>3, <1>6, <1>7, OneClient DEF Choose, Inductive, TypeOK

LEMMA UnreachableKeeps ==
  ASSUME Inductive, NEW c \in Clients, NEW s \in Servers, Unreachable(c, s)
  PROVE  Inductive' /\ ServersKept
<1> DEFINE new == [client[c] EXCEPT !.waiting = @ \ {s}, !.unavailable = @ \union {s}]
<1>1. server' \in [Servers -> Server] /\ ServersKept
  BY UnchangedKeeps DEF Unreachable
<1>2. client[c] \in ClientState /\ Established(c) /\ client \in [Clients -> ClientState]
  BY DEF Inductive, TypeOK
<1>3. new \in ClientState
  BY <1>2 DEF ClientState
<1>4. client' = [client EXCEPT ![c] = new] /\ client'[c] = new
  BY <1>2 DEF Unreachable
<1>5. /\ new.pc = client[c].pc /\ new.waiting = client[c].waiting \ {s}
      /\ new.quorum = client[c].quorum
      /\ new.unavailable = client[c].unavailable \union {s}
      /\ new.value = client[c].value /\ new.responses = client[c].responses
      /\ new.version = client[c].version /\ new.round = client[c].round
  BY <1>2 DEF ClientState
<1>6. Current(c)' = Current(c)
  BY <1>4, <1>5 DEF Current
<1>7. Established(c)'
  BY <1>2, <1>4, <1>5, <1>6 DEF Established, Unreachable
<1>8. late' \subseteq InFlight
  BY DEF Unreachable, InFlight, Calls
<1>9. outages' \in Nat
  BY DEF Unreachable, Inductive, TypeOK
<1> QED BY <1>1, <1>3, <1>4, <1>7, <1>8, <1>9, OneClient DEF Unreachable, Inductive, TypeOK

LEMMA CrashKeeps ==
  ASSUME Inductive, NEW c \in Clients, Crash(c)
  PROVE  Inductive' /\ ServersKept
<1>1. server' \in [Servers -> Server] /\ ServersKept
  BY UnchangedKeeps DEF Crash
<1> QED BY <1>1, FailKeeps DEF Crash

LEMMA DeliverKeeps ==
  ASSUME Inductive, NEW m \in late, Deliver(m)
  PROVE  Inductive' /\ ServersKept
<1>1. m \in Request /\ Prepared(m)
  BY InFlightPrepared DEF InFlight
<1>2. server' \in [Servers -> Server] /\ ServersKept
  BY <1>1, HandleKeeps DEF Deliver
<1> QED BY <1>2, NoClient DEF Deliver, Inductive, TypeOK

\* What a server answers to get().
LEMMA GetAnswer ==
  ASSUME NEW s \in Server, NEW q
  PROVE  /\ CurrentProposal(s) \in Reported \union {None}
         /\ CurrentValue(s) \in [proposal : Reported, value : Values,
                                 confirmed : {TRUE}] \union {None}
<1>1. Proposal \subseteq Reported
  BY DEF Proposal, Reported
<1>2. CurrentProposal(s) \in Reported \union {None}
  <2>1. s.proposal # None => s.proposal.version - 1 \in Int /\ s.proposal \in Proposal
    BY ProposalFields DEF Server
  <2> QED BY <1>1, <2>1 DEF CurrentProposal, Reported
<1>3. CASE Confirmed(s) /\ ~IsQuorum(s.accepted.value)
  <2>1. s.accepted \in Accepted
    BY <1>3 DEF Confirmed, Server
  <2>2. s.accepted \in [proposal : Reported, value : Values, confirmed : {TRUE}]
    BY <1>1, <1>3, <2>1 DEF Accepted, Confirmed, IsQuorum
  <2> QED BY <1>2, <1>3, <2>2 DEF CurrentValue
<1>4. CASE ~(Confirmed(s) /\ ~IsQuorum(s.accepted.value))
  BY <1>2, <1>4 DEF CurrentValue, Server
<1> QED BY <1>2, <1>3, <1>4

LEMMA ReadKeeps ==
  ASSUME Inductive, NEW r \in Readers,
         \/ \E q \in Quorums : Get(r, q)
         \/ \E s \in Servers : Read(r, s) \/ ReadUnreachable(r, s)
         \/ EndGet(r)
  PROVE  Inductive' /\ ServersKept
<1>1. /\ UNCHANGED <<server, client, late, submitted, choices>>
      /\ outages' \in Nat
  <2>1. outages \in Nat
    BY DEF Inductive, TypeOK
  <2>2. \A q : Get(r, q) => UNCHANGED <<server, client, late, submitted, choices, outages>>
    BY DEF Get
  <2>3. \A s : Read(r, s) => UNCHANGED <<server, client, late, submitted, choices, outages>>
    BY DEF Read
  <2>4. \A s : ReadUnreachable(r, s) =>
          UNCHANGED <<server, client, late, submitted, choices>> /\ outages' = outages + 1
    BY DEF ReadUnreachable
  <2>5. EndGet(r) => UNCHANGED <<server, client, late, submitted, choices, outages>>
    BY DEF EndGet
  <2> QED BY <2>1, <2>2, <2>3, <2>4, <2>5
<1>2. reader \in [Readers -> ReaderState] /\ reader[r] \in ReaderState
  BY DEF Inductive, TypeOK
<1>3. ASSUME NEW q \in Quorums, Get(r, q)
      PROVE  reader' \in [Readers -> ReaderState]
  <2>1. choices \subseteq Choice
    BY DEF Inductive, TypeOK
  <2>2. [reader[r] EXCEPT !.pc = "get", !.quorum = q, !.waiting = q,
                          !.before = choices] \in ReaderState
    BY <1>2, <2>1 DEF ReaderState, Quorums
  <2> QED BY <1>2, <1>3, <2>2 DEF Get
<1>4. ASSUME NEW s \in Servers, Read(r, s)
      PROVE  reader' \in [Readers -> ReaderState]
  <2> DEFINE reply == GetReply(server[s], reader[r].quorum)
  <2>1. server[s] \in Server
    BY DEF Inductive, TypeOK
  <2>2. /\ reply.type = "wrong_quorum" => reply.proposal \in Reported \union {None}
        /\ reply.type = "value" =>
             reply.accepted \in [proposal : Reported, value : Values,
                                 confirmed : {TRUE}] \union {None}
    BY <2>1, GetAnswer DEF GetReply, WrongQuorum
  <2>3. CASE reader' = [reader EXCEPT ![r].pc = "failed", ![r].waiting = {}]
    BY <1>2, <2>3 DEF ReaderState
  <2>4. ASSUME NEW w \in Reported \union {None},
               reader' = [reader EXCEPT ![r].waiting = @ \ {s}, ![r].wrong = w]
        PROVE  reader' \in [Readers -> ReaderState]
    BY <1>2, <2>4 DEF ReaderState
  <2>5. ASSUME NEW b \in [proposal : Reported, value : Values,
                          confirmed : {TRUE}] \union {None},
               reader' = [reader EXCEPT ![r].waiting = @ \ {s}, ![r].best = b]
        PROVE  reader' \in [Readers -> ReaderState]
    BY <1>2, <2>5 DEF ReaderState
  <2>6. reader[r].best \in [proposal : Reported, value : Values,
                            confirmed : {TRUE}] \union {None}
        /\ reader[r].wrong \in Reported \union {None}
    BY <1>2 DEF ReaderState
  <2> QED BY <1>4, <2>2, <2>3, <2>4, <2>5, <2>6 DEF Read
<1>5. ASSUME NEW s \in Servers, ReadUnreachable(r, s)
      PROVE  reader' \in [Readers -> ReaderState]
  BY <1>2, <1>5 DEF ReadUnreachable, ReaderState
<1>6. ASSUME EndGet(r)
      PROVE  reader' \in [Readers -> ReaderState]
  BY <1>2, <1>6 DEF EndGet, ReaderState
<1>7. server' \in [Servers -> Server] /\ ServersKept
  BY <1>1, UnchangedKeeps
<1> QED BY <1>1, <1>3, <1>4, <1>5, <1>6, <1>7, NoClient DEF Inductive, TypeOK

-----------------------------------------------------------------------------
(* The theorems.                                                           *)

LEMMA InitInductive == Init => Inductive
<1> SUFFICES ASSUME Init PROVE Inductive
  OBVIOUS
<1>1. NewServer(Servers, None) \in Server /\ Coherent(NewServer(Servers, None))
  BY DEF NewServer, Server, Quorums, Coherent
<1>2. Idle \in ClientState
  BY DEF Idle, ClientState, Quorums, NoResponses
<1>3. IdleReader \in ReaderState
  BY DEF IdleReader, ReaderState, Quorums
<1>4. TypeOK
  BY <1>1, <1>2, <1>3 DEF Init, TypeOK
<1>5. \A c \in Clients : Established(c)
  BY DEF Init, Established, Idle, NoResponses
<1> QED BY <1>1, <1>4, <1>5 DEF Init, Inductive, AcceptedUnderPromise

LEMMA NextInductive == Inductive /\ [Next]_vars => Inductive' /\ ServersKept
<1> SUFFICES ASSUME Inductive, [Next]_vars PROVE Inductive' /\ ServersKept
  OBVIOUS
<1>1. ASSUME NEW c \in Clients, NEW q \in Known, NEW version \in Versions,
             NEW value \in Values \union Elections, Choose(c, q, version, value)
      PROVE  Inductive' /\ ServersKept
  <2>1. version \in Nat
    BY DEF Versions
  <2>2. value \in Value
    BY QuorumAssumption DEF Value
  <2>3. q \in Quorums
    BY DEF Known, Inductive, TypeOK, Choice, Quorums, Value, IsQuorum
  <2> QED BY <1>1, <2>1, <2>2, <2>3, ChooseKeeps
<1>2. ASSUME NEW c \in Clients, ClientStep(c) \/ Crash(c)
      PROVE  Inductive' /\ ServersKept
  BY <1>2, ProposeKeeps, ElectKeeps, AcceptKeeps, ConfirmKeeps, EndRoundKeeps,
     CrashKeeps DEF ClientStep
<1>3. ASSUME NEW c \in Clients, NEW s \in Servers, Unreachable(c, s)
      PROVE  Inductive' /\ ServersKept
  BY <1>3, UnreachableKeeps
<1>4. ASSUME NEW m \in late, Deliver(m)
      PROVE  Inductive' /\ ServersKept
  BY <1>4, DeliverKeeps
<1>5. ASSUME NEW r \in Readers, NEW q \in Known, Get(r, q)
      PROVE  Inductive' /\ ServersKept
  <2>1. q \in Quorums
    BY DEF Known, Inductive, TypeOK, Choice, Quorums, Value, IsQuorum
  <2> QED BY <1>5, <2>1, ReadKeeps
<1>6. ASSUME NEW r \in Readers, NEW s \in Servers, Read(r, s) \/ ReadUnreachable(r, s)
      PROVE  Inductive' /\ ServersKept
  BY <1>6, ReadKeeps
<1>7. ASSUME NEW r \in Readers, EndGet(r)
      PROVE  Inductive' /\ ServersKept
  BY <1>7, ReadKeeps
<1>8. ASSUME UNCHANGED vars
      PROVE  Inductive' /\ ServersKept
  <2>1. server' \in [Servers -> Server] /\ ServersKept
    BY <1>8, UnchangedKeeps DEF vars
  <2> QED BY <1>8, <2>1, NoClient DEF vars, Inductive, TypeOK
<1> QED BY <1>1, <1>2, <1>3, <1>4, <1>5, <1>6, <1>7, <1>8 DEF Next

\* The strengthened invariant holds of every behaviour, for any number of
\* servers, clients, versions, outages, crashes and elections.
THEOREM InductiveHolds == Spec => []Inductive
BY InitInductive, NextInductive, PTL DEF Spec

\* The state keeps its type.
THEOREM TypeCorrect == Spec => []TypeOK
BY InductiveHolds, PTL DEF Inductive

\* What a server accepted stays within what it promised, in the version under
\* way, and only a state that is not partial is confirmed (Server.hxx accept
\* and confirm).
THEOREM AcceptedUnderPromiseHolds == Spec => []AcceptedUnderPromise
<1>1. Inductive => AcceptedUnderPromise
  BY DEF Inductive
<1> QED BY <1>1, InductiveHolds, PTL

\* No accept or confirm that choose() sends is refused as malicious
\* (Server.hxx accept and confirm), however late it is handled.
THEOREM HonestNeverAccusedHolds == Spec => []HonestNeverAccused
<1>1. ASSUME Inductive PROVE HonestNeverAccused
  <2>1. ASSUME NEW m \in InFlight
        PROVE  Reply(m).type # "malicious"
    <3>1. /\ m \in Request /\ Prepared(m) /\ m.server \in Servers
          /\ m.proposal \in Proposal /\ server[m.server] \in Server
          /\ m.type \in {"propose", "accept", "confirm"}
      BY <1>1, InFlightPrepared DEF Request, Inductive, TypeOK
    <3>2. CASE m.type = "propose"
      BY <3>2 DEF Reply, ProposeReply, Response, WrongQuorum
    <3>3. CASE m.type \in {"accept", "confirm"}
      BY <3>1, <3>3, NotMalicious DEF Reply, Prepared
    <3> QED BY <3>1, <3>2, <3>3
  <2> QED BY <2>1 DEF HonestNeverAccused
<1> QED BY <1>1, InductiveHolds, PTL

\* The promise of a server never decreases (Server.hxx propose).
THEOREM PromisesHoldAlways == Spec => PromisesHold
<1> DEFINE Kept == \A s \in Servers :
              server[s].proposal # None =>
                /\ server[s].proposal' # None
                /\ ~Less(server[s].proposal', server[s].proposal)
<1>1. ASSUME Inductive, [Next]_vars PROVE Kept
  <2> SUFFICES ASSUME NEW s \in Servers, server[s].proposal # None
               PROVE  /\ server[s].proposal' # None
                      /\ ~Less(server[s].proposal', server[s].proposal)
    OBVIOUS
  <2>1. Remembers(server[s], server'[s]) /\ server[s].proposal \in Proposal
    BY <1>1, NextInductive DEF ServersKept, Inductive, TypeOK, Server
  <2>2. Promised(server[s], server[s].proposal)
    BY <2>1, LessTotal DEF Promised
  <2> QED BY <2>1, <2>2 DEF Remembers, Promised
<1>2. Inductive /\ [Next]_vars => [Kept]_vars
  BY <1>1
<1> QED BY <1>2, InductiveHolds, PTL DEF Spec, PromisesHold

-----------------------------------------------------------------------------
(* Validity: where the values come from.                                   *)

From(v, S) == v # None => v \in S

\* A server holds values of S only.
Holds(s, S) == From(s.value, S) /\ (s.accepted # None => s.accepted.value \in S)

\* So does a client, in what it submits and in what it was told.
Knows(k, S) ==
  /\ From(k.value, S) /\ From(k.replace, S)
  /\ \A s \in Servers : k.responses[s] # None => From(k.responses[s].value, S)

Provenance ==
  /\ \A s \in Servers : Holds(server[s], submitted)
  /\ \A c \in Clients : Knows(client[c], submitted)
  /\ \A m \in late : From(m.value, submitted)
  /\ Validity

\* Settling commits what was accepted, or forgets it.
LEMMA SettleHolds ==
  ASSUME NEW s \in Server, NEW p \in Proposal, NEW S, Holds(s, S)
  PROVE  Holds(Settle(s, p), S)
<1>1. CASE Settle(s, p) = s
  BY <1>1
<1>2. CASE Settle(s, p) = [s EXCEPT !.partial = TRUE, !.proposal = None, !.accepted = None]
  BY <1>2 DEF Holds, Server
<1>3. CASE CheckConfirmed(s, p) /\ s.proposal # None /\ p.version > s.proposal.version
  <2>1. s.proposal.version \in Nat /\ p.version \in Nat
    BY <1>3, ProposalFields DEF Server
  <2>2. s.accepted # None
    BY <1>3, <2>1 DEF CheckConfirmed, Confirmed
  <2>3. Settle(s, p) = Commit(s)
    BY <1>3 DEF Settle
  <2> QED BY <2>2, <2>3 DEF Commit, Holds, From, Server
<1> QED BY <1>1, <1>2, <1>3 DEF Settle

\* A request in flight leaves its server with values of S, and so is what it is told.
LEMMA HandledHolds ==
  ASSUME NEW s \in Server, Coherent(s), NEW q, NEW p \in Proposal, NEW S, Holds(s, S), NEW v
  PROVE  /\ Holds(ProposeState(s, q, p), S)
         /\ v \in S => Holds(AcceptState(s, q, p, v), S)
         /\ Holds(ConfirmState(s, q, p), S)
         /\ ProposeReply(s, q, p).type = "response" => From(ProposeReply(s, q, p).value, S)
<1> DEFINE t == Settle(s, p)
<1>1. Holds(t, S)
  BY SettleHolds
<1>2. t \in Server
  BY SettleLemma
<1>3. t.proposal = None \/ Less(t.proposal, p) => Holds([t EXCEPT !.proposal = p], S)
  <2> HIDE DEF t
  <2> QED BY <1>1, <1>2 DEF Holds, Server
<1>4. Holds(ProposeState(s, q, p), S)
  BY <1>1, <1>3 DEF ProposeState
<1>5. v \in S => Holds(AcceptState(s, q, p, v), S)
  BY DEF AcceptState, Holds, Server
<1>6. Holds(ConfirmState(s, q, p), S)
  <2>1. CASE ConfirmState(s, q, p) = s
    BY <2>1
  <2>2. CASE /\ s.accepted # None
             /\ ConfirmState(s, q, p) = [s EXCEPT !.accepted.confirmed = TRUE,
                                           !.quorum = IF s.partial THEN q ELSE @,
                                           !.partial = FALSE]
    <3>1. ConfirmState(s, q, p).value = s.value
      BY <2>2 DEF Server
    <3>2. s.accepted \in Accepted
      BY <2>2 DEF Server
    <3>3. ConfirmState(s, q, p).accepted = [s.accepted EXCEPT !.confirmed = TRUE]
      BY <2>2 DEF Server
    <3>4. ConfirmState(s, q, p).accepted.value = s.accepted.value
      BY <3>2, <3>3 DEF Accepted
    <3> QED BY <2>2, <3>1, <3>4 DEF Holds
  <2> QED BY <2>1, <2>2 DEF ConfirmState, ConfirmUnannounced
<1>7. ProposeReply(s, q, p).type = "response" => From(ProposeReply(s, q, p).value, S)
  <2> HIDE DEF t
  <2>1. CASE Outdated(s, p)
    BY <2>1 DEF ProposeReply, Response, Outdated, Holds, From
  <2>2. CASE ~Outdated(s, p) /\ ProposeRefused(s, q, p)
    BY <2>2 DEF ProposeReply, WrongQuorum
  <2>3. CASE ~Outdated(s, p) /\ ~ProposeRefused(s, q, p)
    <3>1. ProposeReply(s, q, p).value \in {None} \/ (t.accepted # None /\
            ProposeReply(s, q, p).value = t.accepted.value)
      BY <2>3 DEF ProposeReply, Response, t
    <3> QED BY <1>1, <3>1 DEF Holds, From
  <2> QED BY <2>1, <2>2, <2>3
<1> QED BY <1>4, <1>5, <1>6, <1>7

\* A request of a value of submitted, handled.
LEMMA HandleHolds ==
  ASSUME Inductive, Provenance, NEW m \in InFlight, Handle(m), From(m.value, submitted)
  PROVE  \A s \in Servers : Holds(server'[s], submitted)
<1>1. /\ m \in Request /\ Prepared(m) /\ m.server \in Servers /\ m.proposal \in Proposal
      /\ m.type \in {"propose", "accept", "confirm"}
  BY InFlightPrepared DEF Request
<1>2. /\ \A s \in Servers : server'[s] = IF s = m.server THEN Handled(m) ELSE server[s]
      /\ \A s \in Servers :
           server[s] \in Server /\ Coherent(server[s]) /\ Holds(server[s], submitted)
  BY <1>1 DEF Handle, Inductive, TypeOK, AcceptedUnderPromise, Provenance
<1>3. Holds(Handled(m), submitted)
  <2>1. CASE m.type = "accept"
    BY <1>1, <1>2, <2>1, HandledHolds DEF Handled, Prepared, From
  <2>2. CASE m.type \in {"propose", "confirm"}
    <3>1. /\ Holds(ProposeState(server[m.server], m.quorum, m.proposal), submitted)
          /\ Holds(ConfirmState(server[m.server], m.quorum, m.proposal), submitted)
      BY <1>1, <1>2, HandledHolds
    <3> QED BY <1>1, <1>2, <2>2, <3>1 DEF Handled
  <2> QED BY <1>1, <2>1, <2>2
<1> QED BY <1>2, <1>3

\* The call a client makes has a value it knows.
LEMMA CallFrom ==
  ASSUME Provenance, NEW c \in Clients, NEW s
  PROVE  From(Call(c, s).value, submitted)
BY DEF Provenance, Knows, From, Call, Submission

\* A client goes on with what it knows, and gives up calls with values it knows.
LEMMA ClientFrom ==
  ASSUME Inductive, Provenance, \A s \in Servers : Holds(server'[s], submitted),
         NEW c \in Clients, NEW new, client' = [client EXCEPT ![c] = new],
         Knows(new, submitted), late' \subseteq InFlight,
         \A ch \in choices' : ch \in choices \/ ch.value \in submitted,
         UNCHANGED <<reader, submitted>>
  PROVE  Provenance'
<1>1. \A d \in Clients : Knows(client'[d], submitted)
  BY DEF Provenance, Inductive, TypeOK
<1>2. ASSUME NEW m \in late' PROVE From(m.value, submitted)
  <2>1. CASE m \in late
    BY <2>1 DEF Provenance
  <2>2. ASSUME NEW d \in Clients, NEW s \in client[d].waiting, m = Call(d, s)
        PROVE  From(m.value, submitted)
    BY <2>2, CallFrom
  <2> QED BY <2>1, <2>2 DEF InFlight, Calls
<1> QED BY <1>1, <1>2 DEF Provenance, Validity, Knows

\* The ways choose() ends or goes on.
LEMMA EndsFrom ==
  ASSUME Inductive, Provenance, \A s \in Servers : Holds(server'[s], submitted),
         NEW c \in Clients, UNCHANGED <<reader, submitted>>,
         \/ Fail(c)
         \/ \E version, value : From(value, submitted) /\ value # None /\ Return(c, version, value)
         \/ \E version, round, replace :
              From(replace, submitted) /\ Retry(c, version, round, replace)
         \/ \E pc, replace : From(replace, submitted) /\ Proceed(c, pc, replace)
         \/ \E s \in Servers, response \in Responses \union {None} :
              /\ response # None => From(response.value, submitted)
              /\ Answered(c, s, response)
  PROVE  Provenance'
<1>1. /\ client[c] \in ClientState /\ Knows(client[c], submitted)
      /\ \A s \in Servers : NoResponses[s] = None
      /\ late \subseteq InFlight
  BY DEF Inductive, TypeOK, Provenance, NoResponses, InFlight
<1>2. Knows(Idle, submitted)
  BY DEF Idle, Knows, From, NoResponses
<1>3. CASE Fail(c)
  BY <1>2, <1>3, GivenUp, ClientFrom DEF Fail
<1>4. ASSUME NEW version, NEW value, From(value, submitted), value # None,
             Return(c, version, value)
      PROVE  Provenance'
  <2>1. /\ client' = [client EXCEPT ![c] = Idle] /\ late' = late /\ value \in submitted
        /\ choices' = choices \union {[version |-> version, value |-> value]}
    BY <1>4 DEF Return, From
  <2>2. \A ch \in choices' : ch \in choices \/ ch.value \in submitted
    BY <2>1
  <2> QED BY <1>1, <1>2, <2>1, <2>2, ClientFrom
<1>5. ASSUME NEW version, NEW round, NEW replace, From(replace, submitted),
             Retry(c, version, round, replace)
      PROVE  Provenance'
  <2> DEFINE new == [client[c] EXCEPT !.pc = "propose", !.version = version, !.round = round,
                       !.replace = replace, !.waiting = client[c].quorum,
                       !.unavailable = {}, !.responses = NoResponses]
  <2>1. new.value = client[c].value /\ new.replace = replace /\ new.responses = NoResponses
    BY <1>1 DEF ClientState
  <2>2. client' = [client EXCEPT ![c] = new]
    BY <1>5 DEF Retry
  <2> HIDE DEF new
  <2>3. Knows(new, submitted)
    BY <1>1, <1>5, <2>1 DEF Knows
  <2> QED BY <1>5, <2>2, <2>3, GivenUp, ClientFrom DEF Retry
<1>6. ASSUME NEW pc, NEW replace, From(replace, submitted), Proceed(c, pc, replace)
      PROVE  Provenance'
  <2> DEFINE new == [client[c] EXCEPT !.pc = pc, !.replace = replace,
                       !.waiting = client[c].quorum \ client[c].unavailable,
                       !.responses = NoResponses]
  <2>1. new.value = client[c].value /\ new.replace = replace /\ new.responses = NoResponses
    BY <1>1 DEF ClientState
  <2>2. client' = [client EXCEPT ![c] = new]
    BY <1>6 DEF Proceed
  <2> HIDE DEF new
  <2>3. Knows(new, submitted)
    BY <1>1, <1>6, <2>1 DEF Knows
  <2> QED BY <1>1, <1>6, <2>2, <2>3, ClientFrom DEF Proceed
<1>7. ASSUME NEW s \in Servers, NEW response \in Responses \union {None},
             response # None => From(response.value, submitted), Answered(c, s, response)
      PROVE  Provenance'
  <2> DEFINE new == [client[c] EXCEPT !.waiting = client[c].waiting \ {s},
                       !.responses = [client[c].responses EXCEPT ![s] = response]]
  <2>1. /\ new.value = client[c].value /\ new.replace = client[c].replace
        /\ new.responses = [client[c].responses EXCEPT ![s] = response]
    BY <1>1 DEF ClientState
  <2>2. client' = [client EXCEPT ![c] = new]
    BY <1>1, <1>7 DEF Answered, Inductive, TypeOK, ClientState
  <2>3. \A t \in Servers :
          new.responses[t] = IF t = s THEN response ELSE client[c].responses[t]
    BY <1>1, <2>1 DEF ClientState
  <2> HIDE DEF new
  <2>4. Knows(new, submitted)
    BY <1>1, <1>7, <2>1, <2>3 DEF Knows
  <2> QED BY <1>1, <1>7, <2>2, <2>4, ClientFrom DEF Answered
<1> QED BY <1>3, <1>4, <1>5, <1>6, <1>7

\* A round of calls, one answer at a time.
LEMMA CallsFrom ==
  ASSUME Inductive, Provenance, NEW c \in Clients, NEW s \in Servers,
         Propose(c, s) \/ Accept(c, s) \/ Confirm(c, s)
  PROVE  Provenance'
<1> DEFINE r == Reply(Call(c, s))
<1>1. s \in client[c].waiting /\ Handle(Call(c, s)) /\ UNCHANGED <<reader, submitted>>
  BY DEF Propose, Accept, Confirm
<1>2. Call(c, s) \in InFlight /\ From(Call(c, s).value, submitted)
  BY <1>1, CallFrom DEF InFlight, Calls
<1>3. \A t \in Servers : Holds(server'[t], submitted)
  BY <1>1, <1>2, HandleHolds
<1>4. From(client[c].replace, submitted)
  BY DEF Provenance, Knows
<1>5. CASE Propose(c, s)
  <2>1. /\ server[s] \in Server /\ Coherent(server[s]) /\ Current(c) \in Proposal
        /\ Holds(server[s], submitted)
    BY <1>1, CallKeeps DEF Provenance
  <2>2. r = ProposeReply(server[s], client[c].quorum, Current(c))
    BY <1>5 DEF Propose, Reply, Call
  <2>3. r.type = "response" => r \in Responses /\ From(r.value, submitted)
    BY <2>1, <2>2, ProposeAnswer, HandledHolds DEF Responses
  <2> QED BY <1>1, <1>3, <1>5, <2>3, EndsFrom DEF Propose
<1>6. CASE Accept(c, s)
  BY <1>1, <1>3, <1>4, <1>6, EndsFrom DEF Accept
<1>7. CASE Confirm(c, s)
  BY <1>1, <1>3, <1>7, EndsFrom DEF Confirm
<1> QED BY <1>5, <1>6, <1>7

\* The end of a round.
LEMMA RoundFrom ==
  ASSUME Inductive, Provenance, NEW c \in Clients, Elect(c) \/ EndRound(c) \/ Crash(c)
  PROVE  Provenance'
<1>1. /\ \A s \in Servers : Holds(server'[s], submitted)
      /\ UNCHANGED <<reader, submitted>>
  BY DEF Elect, EndRound, Crash, Provenance
<1>2. /\ Knows(client[c], submitted) /\ Established(c)
      /\ \A s \in Valued(c) : client[c].responses[s].value \in submitted
  BY DEF Provenance, Inductive, Knows, Valued, From
<1>3. CASE Elect(c)
  <2>1. ASSUME NEW replace \in IF Valued(c) = {} THEN {client[c].replace}
                               ELSE {client[c].responses[s].value :
                                       s \in Highest(c, Valued(c))}
        PROVE  From(replace, submitted)
    BY <1>2 DEF Highest, Knows, From
  <2>2. \A s \in ConfirmedResponses(c) :
          From(client[c].responses[s].value, submitted) /\ client[c].responses[s].value # None
    BY <1>2 DEF ConfirmedResponses, From, Valued
  <2> QED BY <1>1, <1>3, <2>1, <2>2, EndsFrom DEF Elect
<1>4. CASE EndRound(c)
  <2>1. From(client[c].replace, submitted)
    BY <1>2 DEF Knows
  <2>2. From(Submission(c), submitted) /\ Submission(c) # None
    BY <1>2, <1>4 DEF Knows, Submission, Established, EndRound, From
  <2> QED BY <1>1, <1>4, <2>1, <2>2, EndsFrom DEF EndRound
<1>5. CASE Crash(c)
  BY <1>1, <1>5, EndsFrom DEF Crash
<1> QED BY <1>3, <1>4, <1>5

\* The steps of the environment and of get().
LEMMA OthersFrom ==
  ASSUME Inductive, Provenance, Next,
         ~ \E c \in Clients : ClientStep(c) \/ Crash(c)
  PROVE  Provenance'
<1>1. ASSUME NEW c \in Clients, NEW q, NEW version, NEW value \in Value,
             Choose(c, q, version, value)
      PROVE  Provenance'
  <2> DEFINE new == [Idle EXCEPT !.pc = "propose", !.quorum = q, !.version = version,
                       !.round = 1, !.value = value, !.waiting = q]
  <2>1. new.value = value /\ new.replace = None /\ new.responses = NoResponses
    BY DEF Idle
  <2>2. /\ client' = [client EXCEPT ![c] = new] /\ submitted' = submitted \union {value}
        /\ UNCHANGED <<server, reader, late, choices>>
    BY <1>1 DEF Choose
  <2> HIDE DEF new
  <2>3. Knows(new, submitted')
    BY <2>1, <2>2 DEF Knows, From, NoResponses
  <2>4. \A d \in Clients : Knows(client'[d], submitted')
    BY <2>2, <2>3 DEF Provenance, Knows, From, Inductive, TypeOK
  <2>5. \A s \in Servers : Holds(server[s], submitted')
    BY <2>2 DEF Provenance, Holds, From
  <2> QED BY <2>2, <2>4, <2>5 DEF Provenance, Validity, From
<1>2. ASSUME NEW c \in Clients, NEW s \in Servers, Unreachable(c, s)
      PROVE  Provenance'
  <2> DEFINE new == [client[c] EXCEPT !.waiting = client[c].waiting \ {s},
                       !.unavailable = client[c].unavailable \union {s}]
  <2>1. client[c] \in ClientState
    BY DEF Inductive, TypeOK
  <2>2. /\ new.value = client[c].value /\ new.replace = client[c].replace
        /\ new.responses = client[c].responses
    BY <2>1 DEF ClientState
  <2>3. /\ client' = [client EXCEPT ![c] = new] /\ late' \subseteq InFlight
        /\ UNCHANGED <<server, reader, submitted, choices>>
    <3>1. client \in [Clients -> ClientState]
      BY DEF Inductive, TypeOK
    <3>2. client' = [client EXCEPT ![c] = new]
      BY <1>2, <2>1, <3>1 DEF Unreachable, ClientState
    <3>3. late' = late \union {Call(c, s)} /\ s \in client[c].waiting
      BY <1>2 DEF Unreachable
    <3>4. late' \subseteq InFlight
      BY <3>3 DEF InFlight, Calls
    <3> QED BY <1>2, <3>2, <3>4 DEF Unreachable
  <2> HIDE DEF new
  <2>4. Knows(new, submitted)
    BY <2>2 DEF Provenance, Knows
  <2>5. \A t \in Servers : Holds(server'[t], submitted)
    BY <2>3 DEF Provenance
  <2> QED BY <2>3, <2>4, <2>5, ClientFrom
<1>3. ASSUME NEW m \in late, Deliver(m)
      PROVE  Provenance'
  <2>1. m \in InFlight /\ From(m.value, submitted) /\ Handle(m)
    BY <1>3 DEF InFlight, Provenance, Deliver
  <2>2. \A s \in Servers : Holds(server'[s], submitted)
    BY <2>1, HandleHolds
  <2> QED BY <1>3, <2>2 DEF Deliver, Provenance, Validity
<1>4. ASSUME NEW r \in Readers,
             UNCHANGED <<server, client, late, submitted, choices>>,
             \A t \in Readers : reader'[t].best # None => reader'[t].best.value \in submitted
      PROVE  Provenance'
  BY <1>4 DEF Provenance, Validity
<1>5. ASSUME NEW r \in Readers, (\E q : Get(r, q)) \/ EndGet(r)
                                \/ (\E s \in Servers : ReadUnreachable(r, s))
      PROVE  Provenance'
  <2>1. \A t \in Readers : reader'[t].best = reader[t].best
    <3>1. reader \in [Readers -> ReaderState] /\ reader[r] \in ReaderState
      BY DEF Inductive, TypeOK
    <3>2. ASSUME NEW q, Get(r, q) PROVE \A t \in Readers : reader'[t].best = reader[t].best
      BY <3>1, <3>2 DEF Get, ReaderState
    <3>3. ASSUME EndGet(r) PROVE \A t \in Readers : reader'[t].best = reader[t].best
      BY <3>1, <3>3 DEF EndGet, ReaderState
    <3>4. ASSUME NEW s \in Servers, ReadUnreachable(r, s)
          PROVE  \A t \in Readers : reader'[t].best = reader[t].best
      BY <3>1, <3>4 DEF ReadUnreachable, ReaderState
    <3> QED BY <1>5, <3>2, <3>3, <3>4
  <2>2. UNCHANGED <<server, client, late, submitted, choices>>
    BY <1>5 DEF Get, EndGet, ReadUnreachable
  <2> QED BY <1>4, <2>1, <2>2 DEF Provenance, Validity
<1>6. ASSUME NEW r \in Readers, NEW s \in Servers, Read(r, s)
      PROVE  Provenance'
  <2> DEFINE reply == GetReply(server[s], reader[r].quorum)
  <2>1. server[s] \in Server /\ Holds(server[s], submitted)
    BY DEF Inductive, TypeOK, Provenance
  <2>2. CurrentValue(server[s]) # None => CurrentValue(server[s]).value \in submitted
    BY <2>1 DEF CurrentValue, Holds, From, Confirmed
  <2>3. reply.type = "value" =>
          (reply.accepted # None => reply.accepted.value \in submitted)
    BY <2>2 DEF GetReply, WrongQuorum
  <2>4. reader \in [Readers -> ReaderState] /\ reader[r] \in ReaderState
    BY DEF Inductive, TypeOK
  <2>5. \A t \in Readers \ {r} : reader'[t] = reader[t]
    BY <1>6, <2>4 DEF Read
  <2>6. \/ reader'[r].best = reader[r].best
        \/ reply.type = "value" /\ reply.accepted # None /\ reader'[r].best = reply.accepted
    <3>1. CASE reader' = [reader EXCEPT ![r].pc = "failed", ![r].waiting = {}]
      BY <2>4, <3>1 DEF ReaderState
    <3>2. ASSUME NEW w, reader' = [reader EXCEPT ![r].waiting = @ \ {s}, ![r].wrong = w]
          PROVE  reader'[r].best = reader[r].best
      BY <2>4, <3>2 DEF ReaderState
    <3>3. ASSUME NEW b, reader' = [reader EXCEPT ![r].waiting = @ \ {s}, ![r].best = b]
          PROVE  reader'[r].best = b
      BY <2>4, <3>3 DEF ReaderState
    <3> QED BY <1>6, <3>1, <3>2, <3>3 DEF Read
  <2>7. UNCHANGED <<server, client, late, submitted, choices>>
    BY <1>6 DEF Read
  <2> HIDE DEF reply
  <2> QED BY <1>4, <2>3, <2>5, <2>6, <2>7 DEF Provenance, Validity
<1>7. \A value \in Values \union Elections : value \in Value
  BY QuorumAssumption DEF Value
<1> QED BY <1>1, <1>2, <1>3, <1>5, <1>6, <1>7 DEF Next

LEMMA ProvenanceHolds == Spec => []Provenance
<1>1. Init => Provenance
  BY DEF Init, Provenance, Validity, Holds, Knows, From, NewServer, Idle, IdleReader, NoResponses
<1>2. Inductive /\ Provenance /\ [Next]_vars => Provenance'
  <2> SUFFICES ASSUME Inductive, Provenance, [Next]_vars PROVE Provenance'
    OBVIOUS
  <2>1. CASE \E c \in Clients : ClientStep(c) \/ Crash(c)
    BY <2>1, CallsFrom, RoundFrom DEF ClientStep
  <2>2. CASE Next /\ ~ \E c \in Clients : ClientStep(c) \/ Crash(c)
    BY <2>2, OthersFrom
  <2>3. CASE UNCHANGED vars
    BY <2>3 DEF vars, Provenance, Validity
  <2> QED BY <2>1, <2>2, <2>3
<1> QED BY <1>1, <1>2, InductiveHolds, PTL DEF Spec

\* What choose() and get() return was submitted to choose(), for any number of servers,
\* clients, versions, outages, crashes and elections.
THEOREM ValidityHolds == Spec => []Validity
<1>1. Provenance => Validity
  BY DEF Provenance
<1> QED BY <1>1, ProvenanceHolds, PTL

-----------------------------------------------------------------------------
(* One value per proposal. A proposal is voted for once a majority took it *)
(* as new: two majorities share a server, which took it as new only once.  *)

\* Server s told c that it had not promised as much as c's proposal yet.
Fresh(c, s) ==
  /\ client[c].pc = "propose"
  /\ client[c].responses[s] # None
  /\ \/ client[c].responses[s].proposal = None
     \/ Less(client[c].responses[s].proposal, Current(c))

\* Server s promised p, and no client proposing it now was told it is new.
Taken(p, s) ==
  /\ Promised(server[s], p)
  /\ \A d \in Clients : Current(d) = p => ~Fresh(d, s)

Backed(p) ==
  \E q \in Quora : \E m \in SUBSET q :
    Majority(m, q) /\ \A s \in m : Taken(p, s)

\* v has been accepted, or may be, under p: a client has it accepted, ...
Asks(c, p, v) ==
  /\ client[c].pc \in {"accept", "confirm"}
  /\ Current(c) = p /\ Submission(c) = v

\* ... a request nobody waits for asks for it, or a server accepted it.
Recorded(p, v) ==
  \/ \E m \in late : m.type = "accept" /\ m.proposal = p /\ m.value = v
  \/ \E s \in Servers : /\ server[s].accepted # None
                        /\ server[s].accepted.proposal = p
                        /\ server[s].accepted.value = v

Vote(p, v) == Recorded(p, v) \/ \E c \in Clients : Asks(c, p, v)

\* The peers that answered c's proposal are those it is told something by.
Replied(c) ==
  client[c].pc = "propose" =>
    \A s \in Servers :
      client[c].responses[s] # None <=>
        s \in (client[c].quorum \ client[c].unavailable) \ client[c].waiting

Voting ==
  /\ submitted \subseteq Values \union Elections
  /\ \A c \in Clients : client[c].pc # "idle" => client[c].quorum \in Quora
  /\ \A c \in Clients : Replied(c)
  /\ \A c, d \in Clients : \A s \in Servers :
       c # d /\ Fresh(c, s) /\ Fresh(d, s) => Current(c) # Current(d)
  /\ \A p \in Proposal, v \in Value : Vote(p, v) => Backed(p)
  /\ \A p \in Proposal : \A u, v \in Value : Vote(p, u) /\ Vote(p, v) => u = v

\* A server that promised as much does not answer that a proposal is new.
LEMMA FreshAnswer ==
  ASSUME NEW s \in Server, Coherent(s), NEW q, NEW p \in Proposal,
         Promised(s, p), ProposeReply(s, q, p).type = "response"
  PROVE  LET r == ProposeReply(s, q, p)
         IN  r.proposal # None /\ ~Less(r.proposal, p)
<1> DEFINE t == Settle(s, p)
<1>1. s.proposal \in Proposal /\ s.proposal # None /\ ~Less(s.proposal, p)
  BY DEF Promised, Server
<1>2. p.version \in Nat /\ s.proposal.version \in Nat
  BY <1>1, ProposalFields
<1>3. s.proposal.version >= p.version
  BY <1>1, LessTotal
<1>4. t = s
  BY <1>2, <1>3, SettleLemma
<1>5. CASE Outdated(s, p)
  <2>1. s.accepted.proposal \in Proposal /\ s.accepted.proposal.version > p.version
    BY <1>5 DEF Outdated, Server, Accepted
  <2>2. ~Less(s.accepted.proposal, p)
    BY <1>2, <2>1, ProposalFields DEF Less
  <2>3. ProposeReply(s, q, p).proposal = s.accepted.proposal
    BY <1>5 DEF ProposeReply, Response
  <2> QED BY <2>1, <2>2, <2>3, NoneAssumption
<1>6. CASE ~Outdated(s, p)
  <2>1. ~ProposeRefused(s, q, p)
    BY <1>6 DEF ProposeReply, WrongQuorum
  <2>2. ProposeReply(s, q, p).proposal = s.proposal
    BY <1>1, <1>4, <1>6, <2>1 DEF ProposeReply, Response
  <2> QED BY <1>1, <2>2
<1> QED BY <1>5, <1>6

LEMMA LessTransfer ==
  ASSUME NEW p \in Proposal, NEW q \in Proposal, NEW r \in Proposal,
         ~Less(p, q), Less(p, r)
  PROVE  Less(q, r)
<1>1. p.version \in Nat /\ p.round \in Nat /\ p.sender \in Nat
  BY ProposalFields
<1>2. q.version \in Nat /\ q.round \in Nat /\ q.sender \in Nat
  BY ProposalFields
<1>3. r.version \in Nat /\ r.round \in Nat /\ r.sender \in Nat
  BY ProposalFields
<1> QED BY <1>1, <1>2, <1>3 DEF Less

\* A client no highest answer opposes is opposed by none.
LEMMA UnopposedByAll ==
  ASSUME Inductive, NEW c \in Clients,
         Unopposed(c, {client[c].responses[s].proposal : s \in Highest(c, Proposed(c))})
  PROVE  \A s \in Proposed(c) : Less(client[c].responses[s].proposal, Current(c))
<1>1. client[c] \in ClientState /\ Current(c) \in Proposal
  BY IdAssumption DEF Inductive, TypeOK, Current, Proposal, ClientState
<1>2. \A s \in Proposed(c) : client[c].responses[s].proposal \in Proposal
  BY <1>1 DEF Proposed, ClientState, Responses
<1> SUFFICES ASSUME NEW t \in Proposed(c)
             PROVE  Less(client[c].responses[t].proposal, Current(c))
  OBVIOUS
<1>3. PICK s \in Highest(c, Proposed(c)) : Less(client[c].responses[s].proposal, Current(c))
  BY DEF Unopposed
<1>4. s \in Proposed(c) /\ ~Less(client[c].responses[s].proposal, client[c].responses[t].proposal)
  BY <1>3 DEF Highest
<1> QED BY <1>1, <1>2, <1>3, <1>4, LessTransfer

-----------------------------------------------------------------------------
(* What a step does to the votes.                                          *)

\* The answers c has after the step: those it had, or the one it is given.
Answers(c) ==
  client'[c].pc = "propose" =>
    \A s \in Servers : client'[c].responses[s] # None =>
      /\ client[c].pc = "propose"
      /\ client'[c].version = client[c].version /\ client'[c].round = client[c].round
      /\ \/ client'[c].responses[s] = client[c].responses[s]
         \/ /\ client'[c].responses[s] =
                 ProposeReply(server[s], client[c].quorum, Current(c))
            /\ client'[c].responses[s].type = "response"

\* What c has accepted after the step it had accepted before.
Insists(c) ==
  client'[c].pc \in {"accept", "confirm"} =>
    /\ client[c].pc \in {"accept", "confirm"}
    /\ client'[c].version = client[c].version /\ client'[c].round = client[c].round
    /\ client'[c].value = client[c].value /\ client'[c].replace = client[c].replace

OnlyMoves(c) == \A d \in Clients \ {c} : client'[d] = client[d]

LEMMA FreshFollows ==
  ASSUME Inductive, NEW c \in Clients, Answers(c), NEW s \in Servers, Fresh(c, s)'
  PROVE  /\ Current(c)' = Current(c)
         /\ Fresh(c, s) \/ ~Promised(server[s], Current(c))
<1>1. /\ server[s] \in Server /\ Coherent(server[s]) /\ Current(c) \in Proposal
  BY IdAssumption
  DEF Inductive, TypeOK, AcceptedUnderPromise, Current, Proposal, ClientState
<1>2. client'[c].pc = "propose" /\ client'[c].responses[s] # None
  BY DEF Fresh
<1>3. Current(c)' = Current(c) /\ client[c].pc = "propose"
  BY <1>2 DEF Answers, Current
<1>4. CASE client'[c].responses[s] = client[c].responses[s]
  BY <1>3, <1>4 DEF Fresh
<1>5. CASE /\ client'[c].responses[s] =
                ProposeReply(server[s], client[c].quorum, Current(c))
           /\ client'[c].responses[s].type = "response"
  BY <1>1, <1>3, <1>5, FreshAnswer DEF Fresh
<1> QED BY <1>2, <1>3, <1>4, <1>5 DEF Answers

\* A proposal a server took stays so.
LEMMA TakenKept ==
  ASSUME Inductive, ServersKept, NEW c, OnlyMoves(c), c \in Clients => Answers(c),
         NEW p \in Proposal
  PROVE  /\ \A s \in Servers : Taken(p, s) => Taken(p, s)'
         /\ Backed(p) => Backed(p)'
<1>1. ASSUME NEW s \in Servers, Taken(p, s)
      PROVE  Taken(p, s)'
  <2>1. Promised(server'[s], p)
    BY <1>1 DEF ServersKept, Remembers, Taken
  <2>2. ASSUME NEW d \in Clients, Current(d)' = p, Fresh(d, s)'
        PROVE  FALSE
    <3>1. CASE d = c
      BY <1>1, <2>2, <3>1, FreshFollows DEF Taken
    <3>2. CASE d # c
      <4>1. client'[d] = client[d]
        BY <3>2 DEF OnlyMoves
      <4>2. Current(d) = p /\ Fresh(d, s)
        BY <2>2, <4>1 DEF Current, Fresh
      <4> QED BY <1>1, <4>2 DEF Taken
    <3> QED BY <3>1, <3>2
  <2> QED BY <2>1, <2>2 DEF Taken
<1>2. ASSUME Backed(p) PROVE Backed(p)'
  <2>1. \A q \in Quora : q \subseteq Servers
    BY QuorumAssumption DEF Quora, Quorums
  <2> QED BY <1>1, <1>2, <2>1 DEF Backed
<1> QED BY <1>1, <1>2

\* A server takes a proposal from one client.
LEMMA ApartKept ==
  ASSUME Inductive, Voting, NEW c, OnlyMoves(c), c \in Clients => Answers(c),
         NEW d \in Clients, NEW e \in Clients, d # e, NEW s \in Servers,
         Fresh(d, s)', Fresh(e, s)'
  PROVE  Current(d)' # Current(e)'
<1>1. ASSUME NEW x \in Clients, x # c, Fresh(x, s)'
      PROVE  Fresh(x, s) /\ Current(x)' = Current(x)
  <2>1. client'[x] = client[x]
    BY <1>1 DEF OnlyMoves
  <2> QED BY <1>1, <2>1 DEF Fresh, Current
<1>2. ASSUME NEW x \in Clients, Fresh(x, s)
      PROVE  Promised(server[s], Current(x))
  BY <1>2 DEF Voting, Replied, Fresh, Inductive, Established
<1>3. ASSUME NEW x \in Clients, x # c, Fresh(x, s)', c \in Clients, Fresh(c, s)'
      PROVE  Current(x)' # Current(c)'
  <2>1. Fresh(x, s) /\ Current(x)' = Current(x)
    BY <1>1, <1>3
  <2>2. /\ Current(c)' = Current(c)
        /\ Fresh(c, s) \/ ~Promised(server[s], Current(c))
    BY <1>3, FreshFollows
  <2>3. Promised(server[s], Current(x))
    BY <1>2, <2>1
  <2>4. CASE Fresh(c, s)
    BY <1>3, <2>1, <2>2, <2>4 DEF Voting
  <2> QED BY <2>1, <2>2, <2>3, <2>4
<1>4. CASE d = c
  BY <1>3, <1>4
<1>5. CASE e = c
  BY <1>3, <1>5
<1>6. CASE d # c /\ e # c
  BY <1>1, <1>6 DEF Voting
<1> QED BY <1>4, <1>5, <1>6

\* What a server has accepted once it handled a request.
LEMMA ProposeAccepted ==
  ASSUME NEW s \in Server, Coherent(s), NEW q, NEW p \in Proposal
  PROVE  ProposeState(s, q, p).accepted \in {None, s.accepted}
<1> DEFINE t == Settle(s, p)
<1>1. t \in Server /\ t.accepted \in {None, s.accepted}
  BY SettleLemma
<1>2. [t EXCEPT !.proposal = p].accepted = t.accepted
  BY <1>1 DEF Server
<1> HIDE DEF t
<1> QED BY <1>1, <1>2 DEF ProposeState, t

LEMMA AcceptAccepted ==
  ASSUME NEW s \in Server, NEW q, NEW p \in Proposal, NEW v
  PROVE  \/ AcceptState(s, q, p, v) = s
         \/ /\ AcceptState(s, q, p, v).accepted =
                 [proposal |-> p, value |-> v, confirmed |-> Confirmed(s)]
            /\ AcceptState(s, q, p, v).proposal = s.proposal
            /\ s.proposal # None /\ ~Less(s.proposal, p) /\ ~Less(p, s.proposal)
<1>1. \/ AcceptState(s, q, p, v) = s
      \/ /\ AcceptState(s, q, p, v) = [s EXCEPT !.accepted =
              [proposal |-> p, value |-> v, confirmed |-> Confirmed(s)]]
         /\ s.proposal # None /\ ~Less(s.proposal, p) /\ ~Less(p, s.proposal)
  BY DEF AcceptState, AcceptUnannounced
<1>2. \A x : [s EXCEPT !.accepted = x].accepted = x /\ [s EXCEPT !.accepted = x].proposal = s.proposal
  BY DEF Server
<1> QED BY <1>1, <1>2

LEMMA ConfirmAccepted ==
  ASSUME NEW s \in Server, NEW q, NEW p \in Proposal
  PROVE  \/ ConfirmState(s, q, p) = s
         \/ /\ ConfirmState(s, q, p).accepted = [s.accepted EXCEPT !.confirmed = TRUE]
            /\ ConfirmState(s, q, p).proposal = s.proposal
            /\ s.accepted # None /\ s.proposal # None
            /\ ~Less(s.proposal, p) /\ ~(p.version < s.proposal.version)
<1> DEFINE u == [s EXCEPT !.accepted.confirmed = TRUE,
                          !.quorum = IF s.partial THEN q ELSE @, !.partial = FALSE]
<1>1. \/ ConfirmState(s, q, p) = s
      \/ /\ ConfirmState(s, q, p) = u
         /\ s.accepted # None /\ s.proposal # None
         /\ ~Less(s.proposal, p) /\ ~(p.version < s.proposal.version)
  BY DEF ConfirmState, ConfirmUnannounced, ConfirmObsolete
<1>2. u.accepted = [s.accepted EXCEPT !.confirmed = TRUE] /\ u.proposal = s.proposal
  BY DEF Server
<1> HIDE DEF u
<1> QED BY <1>1, <1>2

\* An accept in flight is a vote.
LEMMA InFlightVotes ==
  ASSUME NEW m \in InFlight, m.type = "accept"
  PROVE  Vote(m.proposal, m.value)
<1>1. CASE m \in late
  BY <1>1 DEF Vote, Recorded
<1>2. ASSUME NEW c \in Clients, NEW s \in client[c].waiting, m = Call(c, s)
      PROVE  Vote(m.proposal, m.value)
  <2>1. client[c].pc = "accept" /\ m.proposal = Current(c) /\ m.value = Submission(c)
    BY <1>2 DEF Call
  <2> QED BY <2>1 DEF Vote, Asks
<1> QED BY <1>1, <1>2 DEF InFlight, Calls

\* What the servers have accepted has been voted for.
LEMMA HandleVotes ==
  ASSUME Inductive, NEW m \in InFlight, Handle(m), NEW s \in Servers,
         server'[s].accepted # None
  PROVE  Vote(server'[s].accepted.proposal, server'[s].accepted.value)
<1> DEFINE t == server[s]
<1>0. t.accepted # None => Vote(t.accepted.proposal, t.accepted.value)
  BY DEF Vote, Recorded
<1>1. /\ m \in Request /\ m.server \in Servers /\ m.proposal \in Proposal
      /\ m.type \in {"propose", "accept", "confirm"}
  BY InFlightPrepared DEF Request
<1>2. /\ server'[s] = IF s = m.server THEN Handled(m) ELSE t
      /\ t \in Server /\ Coherent(t)
  BY <1>1 DEF Handle, Inductive, TypeOK, AcceptedUnderPromise
<1>3. CASE s # m.server
  BY <1>0, <1>2, <1>3
<1>4. CASE s = m.server
  <2>1. CASE m.type = "propose"
    <3>1. server'[s] = ProposeState(t, m.quorum, m.proposal)
      BY <1>2, <1>4, <2>1 DEF Handled
    <3>2. server'[s].accepted \in {None, t.accepted}
      BY <1>1, <1>2, <3>1, ProposeAccepted
    <3> QED BY <1>0, <3>2
  <2>2. CASE m.type = "accept"
    <3>1. server'[s] = AcceptState(t, m.quorum, m.proposal, m.value)
      BY <1>2, <1>4, <2>2 DEF Handled
    <3>2. \/ server'[s] = t
          \/ server'[s].accepted = [proposal |-> m.proposal, value |-> m.value,
                                    confirmed |-> Confirmed(t)]
      BY <1>1, <1>2, <3>1, AcceptAccepted
    <3> QED BY <1>0, <2>2, <3>2, InFlightVotes
  <2>3. CASE m.type = "confirm"
    <3>1. server'[s] = ConfirmState(t, m.quorum, m.proposal)
      BY <1>2, <1>4, <2>3 DEF Handled
    <3>2. \/ server'[s] = t
          \/ t.accepted # None /\ server'[s].accepted = [t.accepted EXCEPT !.confirmed = TRUE]
      BY <1>1, <1>2, <3>1, ConfirmAccepted
    <3>3. t.accepted # None => t.accepted \in Accepted
      BY <1>2 DEF Server
    <3> QED BY <1>0, <3>2, <3>3 DEF Accepted
  <2> QED BY <1>1, <2>1, <2>2, <2>3
<1> QED BY <1>3, <1>4

\* No step but the end of a round of proposals adds a vote.
LEMMA VoteFollows ==
  ASSUME Inductive, NEW c, OnlyMoves(c), c \in Clients => Insists(c),
         late' \subseteq InFlight,
         UNCHANGED server \/ \E m \in InFlight : Handle(m),
         NEW p, NEW v, Vote(p, v)'
  PROVE  Vote(p, v)
<1>1. ASSUME NEW d \in Clients, client'[d].pc \in {"accept", "confirm"},
             Current(d)' = p, Submission(d)' = v
      PROVE  Vote(p, v)
  <2>1. /\ client[d].pc \in {"accept", "confirm"}
        /\ client'[d].version = client[d].version /\ client'[d].round = client[d].round
        /\ client'[d].value = client[d].value /\ client'[d].replace = client[d].replace
    BY <1>1 DEF OnlyMoves, Insists
  <2>2. Current(d) = p /\ Submission(d) = v
    BY <1>1, <2>1 DEF Current, Submission
  <2> QED BY <2>1, <2>2 DEF Vote, Asks
<1>2. ASSUME NEW m \in late', m.type = "accept", m.proposal = p, m.value = v
      PROVE  Vote(p, v)
  BY <1>2, InFlightVotes
<1>3. ASSUME NEW s \in Servers, server'[s].accepted # None,
             server'[s].accepted.proposal = p, server'[s].accepted.value = v
      PROVE  Vote(p, v)
  <2>1. CASE UNCHANGED server
    BY <1>3, <2>1 DEF Vote, Recorded
  <2>2. CASE \E m \in InFlight : Handle(m)
    BY <1>3, <2>2, HandleVotes
  <2> QED BY <2>1, <2>2
<1> QED BY <1>1, <1>2, <1>3 DEF Vote, Asks, Recorded

LEMMA VotingKept ==
  ASSUME Inductive, Voting, ServersKept, NEW c, OnlyMoves(c),
         c \in Clients => /\ Answers(c) /\ Insists(c) /\ Replied(c)'
                          /\ client'[c].pc # "idle" => client'[c].quorum \in Quora,
         late' \subseteq InFlight,
         UNCHANGED server \/ \E m \in InFlight : Handle(m),
         submitted' \subseteq Values \union Elections
  PROVE  Voting'
<1>1. ASSUME NEW d \in Clients
      PROVE  Replied(d)' /\ (client'[d].pc # "idle" => client'[d].quorum \in Quora)
  <2>1. CASE d = c
    BY <2>1
  <2>2. CASE d # c
    <3>1. client'[d] = client[d]
      BY <2>2 DEF OnlyMoves
    <3> QED BY <3>1 DEF Voting, Replied
  <2> QED BY <2>1, <2>2
<1>2. ASSUME NEW p \in Proposal, NEW v \in Value, Vote(p, v)'
      PROVE  Vote(p, v) /\ Backed(p)'
  <2>1. Vote(p, v)
    BY <1>2, VoteFollows
  <2>2. Backed(p)
    BY <2>1 DEF Voting
  <2> QED BY <2>1, <2>2, TakenKept
<1>3. \A p \in Proposal : \A u, v \in Value : Vote(p, u)' /\ Vote(p, v)' => u = v
  BY <1>2 DEF Voting
<1>4. \A d, e \in Clients : \A s \in Servers :
        d # e /\ Fresh(d, s)' /\ Fresh(e, s)' => Current(d)' # Current(e)'
  BY ApartKept
<1> QED BY <1>1, <1>2, <1>3, <1>4 DEF Voting

Follows(c) ==
  /\ Answers(c) /\ Insists(c) /\ Replied(c)'
  /\ client'[c].pc # "idle" => client'[c].quorum \in Quora

\* The ways choose() ends or goes on, but for the end of its proposals.
LEMMA EndsFollow ==
  ASSUME Inductive, Voting, NEW c \in Clients, client[c].pc # "idle",
         \/ Fail(c)
         \/ \E version, value : Return(c, version, value)
         \/ \E version, round, replace : Retry(c, version, round, replace)
         \/ client[c].pc = "accept" /\ Proceed(c, "confirm", client[c].replace)
         \/ \E s \in client[c].waiting : \E r :
              /\ client[c].pc = "propose" =>
                   /\ r = ProposeReply(server[s], client[c].quorum, Current(c))
                   /\ r.type = "response" /\ r # None
              /\ Answered(c, s, r)
         \/ \E s \in Servers : Unreachable(c, s)
  PROVE  OnlyMoves(c) /\ Follows(c) /\ late' \subseteq InFlight
<1>1. /\ client[c] \in ClientState /\ client \in [Clients -> ClientState]
      /\ client[c].quorum \in Quora /\ Replied(c) /\ client[c].quorum \subseteq Servers
      /\ client[c].waiting \subseteq Servers
  BY DEF Inductive, TypeOK, Voting, ClientState, Quorums
<1>2. \A s \in Servers : NoResponses[s] = None
  BY DEF NoResponses
<1>3. late \subseteq InFlight /\ late \union Calls(c) \subseteq InFlight
  BY GivenUp
<1>4. ASSUME client' = [client EXCEPT ![c] = Idle]
      PROVE  OnlyMoves(c) /\ Follows(c)
  <2>1. client'[c] = Idle /\ Idle.pc = "idle"
    BY <1>1, <1>4 DEF Idle
  <2>2. OnlyMoves(c)
    BY <1>1, <1>4 DEF OnlyMoves
  <2> QED BY <2>1, <2>2 DEF Follows, Answers, Insists, Replied
<1>5. CASE Fail(c)
  BY <1>3, <1>4, <1>5 DEF Fail
<1>6. ASSUME NEW version, NEW value, Return(c, version, value)
      PROVE  OnlyMoves(c) /\ Follows(c) /\ late' \subseteq InFlight
  BY <1>3, <1>4, <1>6 DEF Return
<1>7. ASSUME NEW version, NEW round, NEW replace, Retry(c, version, round, replace)
      PROVE  OnlyMoves(c) /\ Follows(c) /\ late' \subseteq InFlight
  <2> DEFINE new == [client[c] EXCEPT !.pc = "propose", !.version = version, !.round = round,
                       !.replace = replace, !.waiting = client[c].quorum,
                       !.unavailable = {}, !.responses = NoResponses]
  <2>1. client' = [client EXCEPT ![c] = new]
    BY <1>7 DEF Retry
  <2>2. /\ new.pc = "propose" /\ new.responses = NoResponses /\ new.unavailable = {}
        /\ new.waiting = client[c].quorum /\ new.quorum = client[c].quorum
    BY <1>1 DEF ClientState
  <2> HIDE DEF new
  <2>3. client'[c] = new /\ OnlyMoves(c)
    BY <1>1, <2>1 DEF OnlyMoves
  <2>4. Follows(c)
    BY <1>1, <1>2, <2>2, <2>3 DEF Follows, Answers, Insists, Replied
  <2> QED BY <1>3, <1>7, <2>3, <2>4 DEF Retry
<1>8. CASE client[c].pc = "accept" /\ Proceed(c, "confirm", client[c].replace)
  <2> DEFINE new == [client[c] EXCEPT !.pc = "confirm", !.replace = client[c].replace,
                       !.waiting = client[c].quorum \ client[c].unavailable,
                       !.responses = NoResponses]
  <2>1. client' = [client EXCEPT ![c] = new]
    BY <1>8 DEF Proceed
  <2>2. /\ new.pc = "confirm" /\ new.quorum = client[c].quorum
        /\ new.version = client[c].version /\ new.round = client[c].round
        /\ new.value = client[c].value /\ new.replace = client[c].replace
    BY <1>1 DEF ClientState
  <2> HIDE DEF new
  <2>3. client'[c] = new /\ OnlyMoves(c)
    BY <1>1, <2>1 DEF OnlyMoves
  <2>4. Follows(c)
    BY <1>1, <1>8, <2>2, <2>3 DEF Follows, Answers, Insists, Replied
  <2> QED BY <1>3, <1>8, <2>3, <2>4 DEF Proceed
<1>9. ASSUME NEW s \in client[c].waiting, NEW r,
             client[c].pc = "propose" =>
               /\ r = ProposeReply(server[s], client[c].quorum, Current(c))
               /\ r.type = "response" /\ r # None,
             Answered(c, s, r)
      PROVE  OnlyMoves(c) /\ Follows(c) /\ late' \subseteq InFlight
  <2> DEFINE new == [client[c] EXCEPT !.waiting = client[c].waiting \ {s},
                       !.responses = [client[c].responses EXCEPT ![s] = r]]
  <2>1. client' = [client EXCEPT ![c] = new]
    BY <1>1, <1>9 DEF Answered, ClientState
  <2>2. /\ new.pc = client[c].pc /\ new.quorum = client[c].quorum
        /\ new.version = client[c].version /\ new.round = client[c].round
        /\ new.value = client[c].value /\ new.replace = client[c].replace
        /\ new.unavailable = client[c].unavailable
        /\ new.waiting = client[c].waiting \ {s}
        /\ new.responses = [client[c].responses EXCEPT ![s] = r]
    BY <1>1 DEF ClientState
  <2>3. \A t \in Servers : new.responses[t] = IF t = s THEN r ELSE client[c].responses[t]
    BY <1>1, <2>2 DEF ClientState
  <2> HIDE DEF new
  <2>4. client'[c] = new /\ OnlyMoves(c)
    BY <1>1, <2>1 DEF OnlyMoves
  <2>5. Answers(c) /\ Insists(c)
    BY <1>9, <2>2, <2>3, <2>4 DEF Answers, Insists
  <2>6. Replied(c)'
    <3>1. s \in Servers /\ s \in client[c].quorum \ client[c].unavailable
      BY <1>1 DEF Inductive, Established
    <3> QED BY <1>1, <1>9, <2>2, <2>3, <2>4, <3>1 DEF Replied
  <2>7. Follows(c)
    BY <1>1, <2>2, <2>4, <2>5, <2>6 DEF Follows
  <2> QED BY <1>3, <1>9, <2>4, <2>7 DEF Answered
<1>10. ASSUME NEW s \in Servers, Unreachable(c, s)
       PROVE  OnlyMoves(c) /\ Follows(c) /\ late' \subseteq InFlight
  <2> DEFINE new == [client[c] EXCEPT !.waiting = client[c].waiting \ {s},
                       !.unavailable = client[c].unavailable \union {s}]
  <2>1. client' = [client EXCEPT ![c] = new]
    BY <1>1, <1>10 DEF Unreachable, ClientState
  <2>2. /\ new.pc = client[c].pc /\ new.quorum = client[c].quorum
        /\ new.version = client[c].version /\ new.round = client[c].round
        /\ new.value = client[c].value /\ new.replace = client[c].replace
        /\ new.unavailable = client[c].unavailable \union {s}
        /\ new.waiting = client[c].waiting \ {s}
        /\ new.responses = client[c].responses
    BY <1>1 DEF ClientState
  <2> HIDE DEF new
  <2>3. client'[c] = new /\ OnlyMoves(c)
    BY <1>1, <2>1 DEF OnlyMoves
  <2>4. s \in client[c].waiting
    BY <1>10 DEF Unreachable
  <2>5. Replied(c)'
    BY <1>1, <2>2, <2>3, <2>4 DEF Replied
  <2>6. Follows(c)
    BY <1>1, <2>2, <2>3, <2>5 DEF Follows, Answers, Insists
  <2>7. late' \subseteq InFlight
    BY <1>10, <2>4 DEF Unreachable, InFlight, Calls
  <2> QED BY <2>3, <2>6, <2>7
<1> QED BY <1>5, <1>6, <1>7, <1>8, <1>9, <1>10

Reached(c) == client[c].quorum \ client[c].unavailable

\* The proposals of c are all answered by peers that took them as new: c has
\* its value accepted, or the one they all told it.
Elected(c) ==
  /\ client[c].pc = "propose" /\ client'[c].pc = "accept"
  /\ client'[c].version = client[c].version /\ client'[c].round = client[c].round
  /\ client'[c].quorum = client[c].quorum
  /\ client'[c].unavailable = client[c].unavailable
  /\ client'[c].waiting = Reached(c)
  /\ Majority(Reached(c), client[c].quorum)
  /\ \A s \in Reached(c) : Fresh(c, s)
  /\ \A v \in Value : (\A s \in Reached(c) : client[c].responses[s].value = v) =>
       Reached(c) = {} \/ Submission(c)' = v

LEMMA ElectMoves ==
  ASSUME Inductive, Voting, NEW c \in Clients, Elect(c)
  PROVE  /\ OnlyMoves(c) /\ late' \subseteq InFlight
         /\ Follows(c) \/ (Elected(c) /\ UNCHANGED late)
<1>1. /\ client[c] \in ClientState /\ client \in [Clients -> ClientState]
      /\ client[c].quorum \in Quora /\ Replied(c) /\ client[c].quorum \subseteq Servers
      /\ client[c].pc = "propose" /\ client[c].waiting = {} /\ Established(c)
  BY DEF Inductive, TypeOK, Voting, ClientState, Quorums, Elect
<1>2. ASSUME \/ Fail(c)
             \/ \E version, value : Return(c, version, value)
             \/ \E version, round, replace : Retry(c, version, round, replace)
      PROVE  OnlyMoves(c) /\ Follows(c) /\ late' \subseteq InFlight
  BY <1>1, <1>2, EndsFollow
<1>3. ASSUME NEW replace \in IF Valued(c) = {} THEN {client[c].replace}
                             ELSE {client[c].responses[s].value :
                                     s \in Highest(c, Valued(c))},
             Unopposed(c, {client[c].responses[s].proposal :
                             s \in Highest(c, Proposed(c))}),
             Majority(Reached(c), client[c].quorum),
             Proceed(c, "accept", replace)
      PROVE  OnlyMoves(c) /\ Elected(c) /\ late' \subseteq InFlight /\ UNCHANGED late
  <2> DEFINE new == [client[c] EXCEPT !.pc = "accept", !.replace = replace,
                       !.waiting = client[c].quorum \ client[c].unavailable,
                       !.responses = NoResponses]
  <2>1. client' = [client EXCEPT ![c] = new]
    BY <1>3 DEF Proceed
  <2>2. /\ new.pc = "accept" /\ new.quorum = client[c].quorum
        /\ new.version = client[c].version /\ new.round = client[c].round
        /\ new.unavailable = client[c].unavailable /\ new.waiting = Reached(c)
        /\ new.replace = replace
    BY <1>1 DEF ClientState, Reached
  <2> HIDE DEF new
  <2>3. client'[c] = new /\ OnlyMoves(c)
    BY <1>1, <2>1 DEF OnlyMoves
  <2>4. \A s \in Reached(c) : s \in Servers /\ client[c].responses[s] # None
    BY <1>1 DEF Reached, Replied
  <2>5. \A s \in Reached(c) : Fresh(c, s)
    <3>1. \A s \in Proposed(c) : Less(client[c].responses[s].proposal, Current(c))
      BY <1>3, UnopposedByAll
    <3> QED BY <1>1, <2>4, <3>1 DEF Fresh, Proposed
  <2>6. ASSUME NEW v \in Value, \A s \in Reached(c) : client[c].responses[s].value = v,
               Reached(c) # {}
        PROVE  Submission(c)' = v
    <3>1. v # None
      BY NoneAssumption DEF Value
    <3>2. Valued(c) # {}
      BY <2>4, <2>6, <3>1 DEF Valued
    <3>3. \A s \in Valued(c) : client[c].responses[s].value = v
      <4>1. \A s \in Servers : client[c].responses[s] # None => s \in Reached(c)
        BY <1>1 DEF Replied, Reached
      <4> QED BY <2>6, <4>1 DEF Valued
    <3>4. replace = v
      BY <1>3, <3>2, <3>3 DEF Highest
    <3> QED BY <2>2, <2>3, <3>1, <3>4 DEF Submission
  <2>7. Elected(c)
    BY <1>1, <1>3, <2>2, <2>3, <2>5, <2>6 DEF Elected
  <2>8. late' = late
    BY <1>3 DEF Proceed
  <2> QED BY <2>3, <2>7, <2>8 DEF InFlight
<1>4. ASSUME NEW replace \in IF Valued(c) = {} THEN {client[c].replace}
                             ELSE {client[c].responses[s].value :
                                     s \in Highest(c, Valued(c))},
             LET top == {client[c].responses[s].proposal :
                           s \in Highest(c, Proposed(c))}
             IN  \/ /\ Unopposed(c, top)
                    /\ Proceed(c, "accept", replace)
                 \/ /\ Current(c) \in top
                    /\ Retry(c, client[c].version, client[c].round + 2, replace)
                 \/ \E p \in top :
                      /\ Less(Current(c), p)
                      /\ Retry(c, p.version, p.round + 1, replace),
             Majority(Reached(c), client[c].quorum)
      PROVE  /\ OnlyMoves(c) /\ late' \subseteq InFlight
             /\ Follows(c) \/ (Elected(c) /\ UNCHANGED late)
  BY <1>2, <1>3, <1>4
<1> QED BY <1>2, <1>4 DEF Elect, Reached

\* The votes an election adds: one, under a proposal nothing was voted for.
LEMMA ElectedVotes ==
  ASSUME Intersecting, Inductive, Inductive', Voting, ServersKept,
         NEW c \in Clients, OnlyMoves(c), Elected(c), UNCHANGED <<server, late, submitted>>
  PROVE  /\ Voting' /\ Current(c)' = Current(c)
         /\ \A v \in Value : ~Vote(Current(c), v)
         /\ \A p, v : Vote(p, v)' => \/ Vote(p, v)
                                     \/ p = Current(c) /\ v = Submission(c)'
<1>1. /\ client[c].quorum \in Quora /\ Current(c)' = Current(c) /\ Current(c) \in Proposal
      /\ Reached(c) \in SUBSET client[c].quorum /\ client[c].quorum \subseteq Servers
  BY IdAssumption
  DEF Voting, Elected, Current, Reached, Inductive, TypeOK, Proposal, ClientState, Quorums
<1>2. ASSUME NEW s \in Reached(c) PROVE Promised(server[s], Current(c)) /\ s \in Servers
  <2>1. Fresh(c, s) /\ s \in Servers
    BY <1>1 DEF Elected
  <2> QED BY <2>1 DEF Voting, Replied, Fresh, Inductive, Established
<1>3. ASSUME NEW v \in Value, Vote(Current(c), v) PROVE FALSE
  <2>1. Backed(Current(c))
    BY <1>1, <1>3 DEF Voting
  <2>2. PICK q \in Quora : \E m \in SUBSET q :
          Majority(m, q) /\ \A s \in m : Taken(Current(c), s)
    BY <2>1 DEF Backed
  <2>3. PICK m \in SUBSET q : Majority(m, q) /\ \A s \in m : Taken(Current(c), s)
    BY <2>2
  <2>4. PICK s \in m : s \in Reached(c)
    BY <1>1, <2>3 DEF Elected, Intersecting
  <2> QED BY <2>3, <2>4 DEF Elected, Taken
<1>4. ASSUME NEW p, NEW v, Vote(p, v)'
      PROVE  Vote(p, v) \/ (p = Current(c) /\ v = Submission(c)')
  <2>1. ASSUME NEW d \in Clients, Asks(d, p, v)', d # c
        PROVE  Asks(d, p, v)
    <3>1. client'[d] = client[d]
      BY <2>1 DEF OnlyMoves
    <3> QED BY <2>1, <3>1 DEF Asks, Current, Submission
  <2>2. ASSUME Recorded(p, v)' PROVE Recorded(p, v)
    BY <2>2 DEF Recorded
  <2>3. ASSUME Asks(c, p, v)' PROVE p = Current(c) /\ v = Submission(c)'
    BY <1>1, <2>3 DEF Asks
  <2> QED BY <1>4, <2>1, <2>2, <2>3 DEF Vote
<1>5. Answers(c) /\ Replied(c)' /\ client'[c].quorum \in Quora
  BY <1>1 DEF Elected, Answers, Replied
<1>6. ASSUME NEW p, p = Current(c) PROVE Backed(p)'
  <2>1. ASSUME NEW s \in Reached(c) PROVE Taken(p, s)'
    <3>1. ASSUME NEW d \in Clients, Current(d)' = p, Fresh(d, s)'
          PROVE  FALSE
      <4>1. d # c
        BY <3>1 DEF Fresh, Elected
      <4>2. client'[d] = client[d]
        BY <4>1 DEF OnlyMoves
      <4>3. Fresh(d, s) /\ Current(d) = Current(c) /\ Fresh(c, s) /\ s \in Servers
        BY <1>2, <1>6, <3>1, <4>2 DEF Fresh, Current, Elected
      <4> QED BY <4>1, <4>3 DEF Voting
    <3> QED BY <1>2, <1>6, <3>1 DEF Taken
  <2> QED BY <1>1, <2>1 DEF Backed, Elected
<1>7. ASSUME NEW d \in Clients
      PROVE  Replied(d)' /\ (client'[d].pc # "idle" => client'[d].quorum \in Quora)
  <2>1. CASE d # c
    <3>1. client'[d] = client[d]
      BY <2>1 DEF OnlyMoves
    <3> QED BY <3>1 DEF Voting, Replied
  <2> QED BY <1>5, <2>1
<1>8. \A p \in Proposal, v \in Value : Vote(p, v)' => Backed(p)'
  <2> SUFFICES ASSUME NEW p \in Proposal, NEW v \in Value, Vote(p, v)' PROVE Backed(p)'
    OBVIOUS
  <2>1. CASE Vote(p, v)
    BY <1>5, <2>1, TakenKept DEF Voting
  <2> QED BY <1>4, <1>6, <2>1
<1>9. \A p \in Proposal : \A u, v \in Value : Vote(p, u)' /\ Vote(p, v)' => u = v
  BY <1>3, <1>4 DEF Voting
<1>10. \A d, e \in Clients : \A s \in Servers :
         d # e /\ Fresh(d, s)' /\ Fresh(e, s)' => Current(d)' # Current(e)'
  BY <1>5, ApartKept
<1>11. Voting'
  BY <1>7, <1>8, <1>9, <1>10 DEF Voting
<1> QED BY <1>1, <1>3, <1>4, <1>11

\* The calls of a round, one answer at a time.
LEMMA CallsMove ==
  ASSUME Inductive, Voting, NEW c \in Clients, NEW s \in Servers,
         Propose(c, s) \/ Accept(c, s) \/ Confirm(c, s)
  PROVE  /\ OnlyMoves(c) /\ Follows(c) /\ late' \subseteq InFlight
         /\ Call(c, s) \in InFlight /\ Handle(Call(c, s)) /\ UNCHANGED submitted
<1> DEFINE r == Reply(Call(c, s))
<1>1. /\ s \in client[c].waiting /\ Handle(Call(c, s)) /\ client[c].pc # "idle"
      /\ UNCHANGED submitted
  BY DEF Propose, Accept, Confirm
<1>2. Call(c, s) \in InFlight
  BY <1>1 DEF InFlight, Calls
<1>3. CASE Propose(c, s)
  <2>1. /\ r = ProposeReply(server[s], client[c].quorum, Current(c))
        /\ client[c].pc = "propose"
    BY <1>3 DEF Propose, Reply, Call
  <2>2. server[s] \in Server /\ Coherent(server[s]) /\ Current(c) \in Proposal
    BY <1>1, CallKeeps
  <2>3. r.type = "response" => r # None
    <3>1. ASSUME ProposeReply(server[s], client[c].quorum, Current(c)).type = "response"
          PROVE  ProposeReply(server[s], client[c].quorum, Current(c)) \in Responses
      BY <2>2, <3>1, ProposeAnswer DEF Responses
    <3> QED BY <2>1, <3>1, ResponsesAssumption
  <2> HIDE DEF r
  <2> QED BY <1>1, <1>2, <1>3, <2>1, <2>3, EndsFollow DEF Propose, r
<1>4. CASE Accept(c, s)
  <2>1. client[c].pc = "accept"
    BY <1>4 DEF Accept
  <2> QED BY <1>1, <1>2, <1>4, <2>1, EndsFollow DEF Accept
<1>5. CASE Confirm(c, s)
  <2>1. client[c].pc = "confirm"
    BY <1>5 DEF Confirm
  <2> QED BY <1>1, <1>2, <1>5, <2>1, EndsFollow DEF Confirm
<1> QED BY <1>3, <1>4, <1>5

\* The end of a round.
LEMMA RoundMoves ==
  ASSUME Inductive, Voting, NEW c \in Clients, Elect(c) \/ EndRound(c) \/ Crash(c)
  PROVE  /\ OnlyMoves(c) /\ late' \subseteq InFlight /\ UNCHANGED <<server, submitted>>
         /\ Follows(c) \/ (Elected(c) /\ UNCHANGED late)
<1>1. UNCHANGED <<server, submitted>>
  BY DEF Elect, EndRound, Crash
<1>2. CASE Elect(c)
  BY <1>1, <1>2, ElectMoves
<1>3. CASE EndRound(c)
  <2>1. client[c].pc # "idle"
    BY <1>3 DEF EndRound
  <2> QED BY <1>1, <1>3, <2>1, EndsFollow DEF EndRound
<1>4. CASE Crash(c)
  BY <1>1, <1>4, EndsFollow DEF Crash
<1> QED BY <1>2, <1>3, <1>4

LEMMA ChooseMoves ==
  ASSUME Inductive, Voting, Validity, NEW c \in Clients, NEW q \in Known, NEW version,
         NEW value \in Values \union Elections, Choose(c, q, version, value)
  PROVE  /\ OnlyMoves(c) /\ Follows(c) /\ UNCHANGED <<server, late>>
         /\ submitted' \subseteq Values \union Elections
<1> DEFINE new == [Idle EXCEPT !.pc = "propose", !.quorum = q, !.version = version,
                     !.round = 1, !.value = value, !.waiting = q]
<1>1. /\ new.pc = "propose" /\ new.quorum = q /\ new.responses = NoResponses
      /\ new.waiting = q /\ new.unavailable = {}
  BY DEF Idle
<1>2. client' = [client EXCEPT ![c] = new] /\ UNCHANGED <<server, late>>
  BY DEF Choose
<1>3. client \in [Clients -> ClientState]
  BY DEF Inductive, TypeOK
<1> HIDE DEF new
<1>4. client'[c] = new /\ OnlyMoves(c)
  BY <1>2, <1>3 DEF OnlyMoves
<1>5. q \in Quora
  BY DEF Known, Quora, Validity, Voting, IsQuorum
<1>6. Follows(c)
  BY <1>1, <1>4, <1>5 DEF Follows, Answers, Insists, Replied, NoResponses
<1>7. submitted' \subseteq Values \union Elections
  BY DEF Choose, Voting
<1> QED BY <1>2, <1>4, <1>6, <1>7

\* A step moves one client at most, and has a request handled at most.
Moves(c) ==
  /\ OnlyMoves(c) /\ late' \subseteq InFlight
  /\ submitted' \subseteq Values \union Elections
  /\ UNCHANGED server \/ \E m \in InFlight : Handle(m)
  /\ c \in Clients => Follows(c) \/ (Elected(c) /\ UNCHANGED <<server, late, submitted>>)

LEMMA StepMoves ==
  ASSUME Inductive, Voting, Validity, [Next]_vars
  PROVE  \E c : Moves(c)
<1>0. submitted \subseteq Values \union Elections /\ late \subseteq InFlight
  BY DEF Voting, InFlight
<1>1. ASSUME NEW c \in Clients, NEW q \in Known, NEW version \in Versions,
             NEW value \in Values \union Elections, Choose(c, q, version, value)
      PROVE  Moves(c)
  BY <1>0, <1>1, ChooseMoves DEF Moves
<1>2. ASSUME NEW c \in Clients, NEW s \in Servers,
             Propose(c, s) \/ Accept(c, s) \/ Confirm(c, s)
      PROVE  Moves(c)
  BY <1>0, <1>2, CallsMove DEF Moves
<1>3. ASSUME NEW c \in Clients, Elect(c) \/ EndRound(c) \/ Crash(c)
      PROVE  Moves(c)
  BY <1>0, <1>3, RoundMoves DEF Moves
<1>4. ASSUME NEW c \in Clients, NEW s \in Servers, Unreachable(c, s)
      PROVE  Moves(c)
  <2>1. /\ client[c].pc # "idle" /\ UNCHANGED <<server, submitted>>
    BY <1>4 DEF Unreachable, Inductive, Established
  <2> QED BY <1>0, <1>4, <2>1, EndsFollow DEF Moves
<1>5. ASSUME UNCHANGED <<client, submitted>>, late' \subseteq late,
             UNCHANGED server \/ \E m \in InFlight : Handle(m)
      PROVE  Moves(None)
  <2>1. OnlyMoves(None)
    BY <1>5 DEF OnlyMoves
  <2>2. None \in Clients => Follows(None)
    BY <1>5 DEF Follows, Answers, Insists, Replied, Voting
  <2> QED BY <1>0, <1>5, <2>1, <2>2 DEF Moves
<1>6. ASSUME NEW m \in late, Deliver(m)
      PROVE  Moves(None)
  BY <1>0, <1>5, <1>6 DEF Deliver
<1>7. ASSUME NEW r \in Readers,
             \/ \E q \in Known : Get(r, q)
             \/ \E s \in Servers : Read(r, s) \/ ReadUnreachable(r, s)
             \/ EndGet(r)
      PROVE  Moves(None)
  <2>1. UNCHANGED <<server, client, late, submitted>>
    BY <1>7 DEF Get, Read, ReadUnreachable, EndGet
  <2> QED BY <1>5, <2>1
<1>8. ASSUME UNCHANGED vars PROVE Moves(None)
  BY <1>5, <1>8 DEF vars
<1> QED BY <1>1, <1>2, <1>3, <1>4, <1>6, <1>7, <1>8 DEF Next, ClientStep

LEMMA InitVoting == Init => Voting
<1> SUFFICES ASSUME Init PROVE Voting
  OBVIOUS
<1>1. \A c \in Clients : client[c].pc = "idle"
  BY DEF Init, Idle
<1>2. \A s \in Servers : server[s].accepted = None
  BY DEF Init, NewServer
<1>3. \A p, v : ~Vote(p, v)
  BY <1>1, <1>2 DEF Vote, Asks, Recorded, Init
<1> QED BY <1>1, <1>3 DEF Voting, Replied, Fresh, Init

LEMMA NextVoting ==
  ASSUME Intersecting
  PROVE  Inductive /\ Voting /\ Validity /\ [Next]_vars => Voting'
<1> SUFFICES ASSUME Inductive, Voting, Validity, [Next]_vars PROVE Voting'
  OBVIOUS
<1>1. Inductive' /\ ServersKept
  BY NextInductive
<1>2. PICK c : Moves(c)
  BY StepMoves
<1>3. CASE c \in Clients => Follows(c)
  BY <1>1, <1>2, <1>3, VotingKept DEF Moves, Follows
<1>4. CASE c \in Clients /\ Elected(c) /\ UNCHANGED <<server, late, submitted>>
  BY <1>1, <1>2, <1>4, ElectedVotes DEF Moves
<1> QED BY <1>2, <1>3, <1>4 DEF Moves

LEMMA VotingHolds ==
  ASSUME Intersecting
  PROVE  Spec => []Voting
BY InitVoting, NextVoting, InductiveHolds, ValidityHolds, PTL DEF Spec

\* Whatever is accepted, or may still be, under a proposal is one value (Client.hxx
\* choose, the self conflict), for any servers, clients, shared ids, crashes and
\* outages, as long as majorities intersect.
THEOREM OneValuePerProposalHolds ==
  ASSUME Intersecting
  PROVE  Spec => []OneValuePerProposal
<1>1. Inductive /\ Voting => OneValuePerProposal
  <2> SUFFICES ASSUME Inductive, Voting PROVE OneValuePerProposal
    OBVIOUS
  <2>1. ASSUME NEW m \in InFlight, m.type = "accept"
        PROVE  /\ m.proposal \in Proposal /\ m.value \in Value
               /\ Vote(m.proposal, m.value)
    BY <2>1, InFlightVotes, InFlightPrepared DEF Request, Prepared
  <2>2. ASSUME NEW s \in Servers, server[s].accepted # None
        PROVE  /\ server[s].accepted.proposal \in Proposal
               /\ server[s].accepted.value \in Value
               /\ Vote(server[s].accepted.proposal, server[s].accepted.value)
    BY <2>2 DEF Vote, Recorded, Inductive, TypeOK, Server, Accepted
  <2> QED BY <2>1, <2>2 DEF OneValuePerProposal, Voting
<1> QED BY <1>1, VotingHolds, InductiveHolds, PTL

-----------------------------------------------------------------------------
(* Agreement, when every peer can be reached and there is one quorum. Once *)
(* every server accepted v under p, v is all that the later proposals of   *)
(* that version are told of, and all that is voted for under them.         *)

\* Every peer can be reached, and there is one quorum, whose majorities intersect.
Steady == MaxOutages = 0 /\ Elections = {} /\ Intersecting

\* Server s accepted v under p or, later on, in the same version, if it is
\* not past it.
Bound(s, p, v) ==
  /\ Promised(server[s], p)
  /\ \/ server[s].proposal.version > p.version
     \/ /\ server[s].accepted # None
        /\ server[s].accepted.proposal.version = p.version
        /\ server[s].accepted.value = v

\* The proposals above p that server s took as new were told v.
Told(s, p, v) ==
  \A d \in Clients :
    Fresh(d, s) /\ client[d].version = p.version /\ Less(p, Current(d)) =>
      client[d].responses[s].value = v

\* v is all that is voted for from p on.
Followed(p, v) ==
  \A q \in Proposal, u \in Value :
    q.version = p.version /\ ~Less(q, p) /\ Vote(q, u) => u = v

Locked(p, v) ==
  /\ Backed(p) /\ Followed(p, v)
  /\ \A s \in Servers : Bound(s, p, v) /\ Told(s, p, v)

\* A peer c is yet to hear from promised more, and will have c start again.
Blocked(c) ==
  \E s \in client[c].waiting : Less(Current(c), server[s].proposal)

Clear(c) == client[c].pc = "accept" /\ ~Blocked(c)

\* out[w] is the value version w ends with, None as long as it is open.
Decided(out) ==
  /\ \A ch \in choices : out[ch.version] = ch.value
  /\ \A s \in Servers : Confirmed(server[s]) =>
       out[server[s].accepted.proposal.version] = server[s].accepted.value
  /\ \A c \in Clients : client[c].pc = "propose" =>
       \A s \in ConfirmedResponses(c) :
         out[client[c].responses[s].proposal.version] = client[c].responses[s].value
  /\ \A c \in Clients : client[c].pc = "confirm" => out[client[c].version] = Submission(c)
  /\ \A m \in late : m.type = "confirm" => out[m.proposal.version] # None
  /\ \A w \in Nat : out[w] # None =>
       \E q \in Proposal : q.version = w /\ Locked(q, out[w])
  /\ \A c \in Clients : Clear(c) => out[client[c].version] \in {None, Submission(c)}

\* What the peers that accepted from c hold it to.
Holding ==
  /\ \A c \in Clients : client[c].unavailable = {}
  /\ \A c \in Clients : \A p \in Proposal, v \in Value : Clear(c) /\ Asks(c, p, v) =>
       /\ Followed(p, v)
       /\ \A s \in Servers \ client[c].waiting : Bound(s, p, v) /\ Told(s, p, v)

Outcomes == [Nat -> Value \union {None}]

Deciding == Holding /\ \E out \in Outcomes : Decided(out)

-----------------------------------------------------------------------------
(* Servers that are bound stay so.                                         *)

LEMMA LessCases ==
  ASSUME NEW p \in Proposal, NEW q \in Proposal, ~Less(p, q)
  PROVE  p = q \/ Less(q, p)
<1>1. p.version \in Nat /\ p.round \in Nat /\ p.sender \in Nat
  BY ProposalFields
<1>2. q.version \in Nat /\ q.round \in Nat /\ q.sender \in Nat
  BY ProposalFields
<1>3. p.version = q.version /\ p.round = q.round /\ p.sender = q.sender => p = q
  BY DEF Proposal
<1> QED BY <1>1, <1>2, <1>3 DEF Less

\* What a bound server answers to a later proposal of the version.
LEMMA BoundAnswer ==
  ASSUME Inductive, NEW s \in Servers, NEW q \in Proposal, NEW v \in Value, Bound(s, q, v),
         NEW p \in Proposal, p.version = q.version, ~Promised(server[s], p), NEW k,
         ProposeReply(server[s], k, p).type = "response"
  PROVE  ProposeReply(server[s], k, p).value = v
<1> DEFINE t == server[s]
<1>1. t \in Server /\ Coherent(t) /\ t.proposal \in Proposal /\ t.proposal # None
  BY DEF Inductive, TypeOK, AcceptedUnderPromise, Bound, Promised, Server
<1>2. Less(t.proposal, p) /\ ~Less(t.proposal, q)
  BY <1>1 DEF Promised, Bound
<1>3. t.proposal.version \in Nat /\ p.version \in Nat
  BY <1>1, ProposalFields
<1>4. t.proposal.version = p.version
  BY <1>1, <1>2, <1>3, LessTotal
<1>5. t.accepted # None /\ t.accepted.proposal.version = p.version /\ t.accepted.value = v
  BY <1>3, <1>4 DEF Bound
<1>6. Settle(t, p) = t
  BY <1>1, <1>3, <1>4, SettleLemma
<1>7. ~Outdated(t, p)
  BY <1>3, <1>4, <1>5 DEF Outdated
<1>8. ~ProposeRefused(t, k, p)
  BY <1>7 DEF ProposeReply, WrongQuorum
<1> QED BY <1>5, <1>6, <1>7, <1>8 DEF ProposeReply, Response

\* Handling a request: what is accepted under p or more has value v.
LEMMA BoundKept ==
  ASSUME Inductive, ServersKept, NEW p \in Proposal, NEW v \in Value,
         UNCHANGED server \/ \E m \in InFlight : Handle(m),
         Followed(p, v), NEW s \in Servers, Bound(s, p, v)
  PROVE  Bound(s, p, v)'
<1> DEFINE t == server[s]
           u == server'[s]
<1>1. CASE UNCHANGED server
  BY <1>1 DEF Bound
<1>2. ASSUME NEW m \in InFlight, Handle(m) PROVE Bound(s, p, v)'
  <2>1. /\ m \in Request /\ m.server \in Servers /\ m.proposal \in Proposal
        /\ m.type \in {"propose", "accept", "confirm"} /\ Prepared(m)
    BY InFlightPrepared DEF Request
  <2>2. /\ u = IF s = m.server THEN Handled(m) ELSE t
        /\ t \in Server /\ Coherent(t) /\ Remembers(t, u) /\ u \in Server
    BY <1>2, <2>1 DEF Handle, Inductive, TypeOK, AcceptedUnderPromise, ServersKept, Remembers
  <2>3. /\ Promised(u, p) /\ Promised(t, p)
        /\ t.proposal \in Proposal /\ u.proposal \in Proposal
    BY <2>2 DEF Bound, Remembers, Promised, Server
  <2>4. /\ t.proposal.version \in Nat /\ u.proposal.version \in Nat /\ p.version \in Nat
        /\ m.proposal.version \in Nat
    BY <2>1, <2>3, ProposalFields
  <2>5. u.proposal.version >= t.proposal.version /\ t.proposal.version >= p.version
    <3>1. ~Less(u.proposal, t.proposal) /\ ~Less(t.proposal, p)
      <4>1. Promised(t, t.proposal)
        BY <2>3, LessTotal, NoneAssumption DEF Promised
      <4> QED BY <2>2, <2>3, <4>1 DEF Remembers, Promised
    <3> QED BY <2>3, <3>1, LessTotal
  <2>6. CASE u.proposal.version > p.version
    BY <2>3, <2>6 DEF Bound
  <2>7. CASE u.proposal.version = p.version
    <3>1. t.proposal.version = p.version
      BY <2>4, <2>5, <2>7
    <3>2. /\ t.accepted # None /\ t.accepted.proposal.version = p.version
          /\ t.accepted.value = v /\ t.accepted \in Accepted
      BY <2>2, <2>4, <3>1 DEF Bound, Server
    <3>3. CASE u = t
      BY <2>3, <3>2, <3>3 DEF Bound
    <3>4. CASE s = m.server /\ m.type = "propose"
      <4>1. u = ProposeState(t, m.quorum, m.proposal)
        BY <2>2, <3>4 DEF Handled
      <4>2. u.accepted \in {None, t.accepted}
        BY <2>1, <2>2, <4>1, ProposeAccepted
      <4>3. u.accepted # None
        <5>1. AcceptedOrPast(t, p)
          BY <3>2 DEF AcceptedOrPast
        <5>2. AcceptedOrPast(u, p)
          BY <2>2, <2>3, <5>1 DEF Remembers
        <5> QED BY <2>4, <2>7, <5>2 DEF AcceptedOrPast
      <4> QED BY <2>3, <3>2, <4>2, <4>3 DEF Bound
    <3>5. CASE s = m.server /\ m.type = "accept" /\ u # t
      <4>1. u = AcceptState(t, m.quorum, m.proposal, m.value)
        BY <2>2, <3>5 DEF Handled
      <4>2. /\ u.accepted = [proposal |-> m.proposal, value |-> m.value,
                             confirmed |-> Confirmed(t)]
            /\ ~Less(t.proposal, m.proposal) /\ ~Less(m.proposal, t.proposal)
        BY <2>1, <2>2, <3>5, <4>1, AcceptAccepted
      <4>3. m.proposal.version = p.version
        BY <2>1, <2>3, <3>1, <4>2, LessTotal
      <4>4. ~Less(m.proposal, p)
        BY <2>1, <2>3, <4>2, LessTransitive DEF Promised
      <4>5. m.value \in Value /\ Vote(m.proposal, m.value)
        BY <2>1, <3>5, InFlightVotes DEF Request, Prepared
      <4>6. m.value = v
        BY <2>1, <4>3, <4>4, <4>5 DEF Followed
      <4>7. u.accepted # None
        <5>1. Confirmed(t) \in BOOLEAN
          BY <3>2 DEF Confirmed, Accepted
        <5>2. u.accepted \in Accepted
          BY <2>1, <4>2, <4>5, <5>1 DEF Accepted
        <5> QED BY <5>2, NoneAssumption
      <4> QED BY <2>3, <4>2, <4>3, <4>6, <4>7 DEF Bound
    <3>6. CASE s = m.server /\ m.type = "confirm" /\ u # t
      <4>1. u = ConfirmState(t, m.quorum, m.proposal)
        BY <2>2, <3>6 DEF Handled
      <4>2. u.accepted = [t.accepted EXCEPT !.confirmed = TRUE]
        BY <2>1, <2>2, <3>6, <4>1, ConfirmAccepted
      <4>3. /\ u.accepted.proposal = t.accepted.proposal /\ u.accepted.value = t.accepted.value
            /\ u.accepted # None
        BY <3>2, <4>2, NoneAssumption DEF Accepted
      <4> QED BY <2>3, <3>2, <4>3 DEF Bound
    <3> QED BY <2>1, <2>2, <3>3, <3>4, <3>5, <3>6
  <2> QED BY <2>4, <2>5, <2>6, <2>7
<1> QED BY <1>1, <1>2

\* What a step does to a client when every peer can be reached.
Advances(d) ==
  /\ client'[d].unavailable = {}
  /\ client'[d].pc = "confirm" =>
       client[d].pc = "confirm" \/ (client[d].pc = "accept" /\ client[d].waiting = {})
  /\ client'[d].pc = "accept" => client[d].pc # "confirm"
  /\ client[d].pc = "accept" /\ client'[d].pc = "accept" =>
       /\ client'[d].waiting \subseteq client[d].waiting
       /\ \A s \in client[d].waiting \ client'[d].waiting :
            /\ server'[s].proposal = Current(d)
            /\ server'[s].accepted # None
            /\ server'[s].accepted.proposal = Current(d)
            /\ server'[s].accepted.value = Submission(d)

\* The round under way of c got a majority.
Finished(c) ==
  client[c].waiting = {} /\ Majority(client[c].quorum \ client[c].unavailable, client[c].quorum)

\* What the calls to choose() that return are about.
Returns ==
  \A ch \in choices' :
    \/ ch \in choices
    \/ \E c \in Clients :
         /\ client[c].pc = "confirm" /\ Finished(c)
         /\ ch.version = client[c].version /\ ch.value = Submission(c)
    \/ \E c \in Clients :
         /\ client[c].pc = "propose"
         /\ \E s \in ConfirmedResponses(c) :
              /\ ch.version = client[c].responses[s].proposal.version
              /\ ch.value = client[c].responses[s].value

\* The ways choose() ends or goes on.
LEMMA EndsAdvance ==
  ASSUME Inductive, NEW c \in Clients, client[c].unavailable = {}, client[c].pc # "idle",
         \/ Fail(c)
         \/ \E version, value : Return(c, version, value)
         \/ \E version, round, replace : Retry(c, version, round, replace)
         \/ client[c].pc = "propose" /\ \E replace : Proceed(c, "accept", replace)
         \/ /\ client[c].pc = "accept" /\ client[c].waiting = {}
            /\ Proceed(c, "confirm", client[c].replace)
         \/ \E s \in client[c].waiting : \E r :
              /\ client[c].pc = "accept" =>
                   /\ server'[s].proposal = Current(c)
                   /\ server'[s].accepted # None
                   /\ server'[s].accepted.proposal = Current(c)
                   /\ server'[s].accepted.value = Submission(c)
              /\ Answered(c, s, r)
  PROVE  OnlyMoves(c) /\ Advances(c)
<1>1. client[c] \in ClientState /\ client \in [Clients -> ClientState]
  BY DEF Inductive, TypeOK
<1>4. ASSUME client' = [client EXCEPT ![c] = Idle]
      PROVE  OnlyMoves(c) /\ Advances(c)
  <2>1. client'[c] = Idle /\ Idle.pc = "idle" /\ Idle.unavailable = {}
    BY <1>1, <1>4 DEF Idle
  <2>2. OnlyMoves(c)
    BY <1>1, <1>4 DEF OnlyMoves
  <2> QED BY <2>1, <2>2 DEF Advances
<1>5. CASE Fail(c)
  BY <1>4, <1>5 DEF Fail
<1>6. ASSUME NEW version, NEW value, Return(c, version, value)
      PROVE  OnlyMoves(c) /\ Advances(c)
  BY <1>4, <1>6 DEF Return
<1>7. ASSUME NEW version, NEW round, NEW replace, Retry(c, version, round, replace)
      PROVE  OnlyMoves(c) /\ Advances(c)
  <2> DEFINE new == [client[c] EXCEPT !.pc = "propose", !.version = version, !.round = round,
                       !.replace = replace, !.waiting = client[c].quorum,
                       !.unavailable = {}, !.responses = NoResponses]
  <2>1. client' = [client EXCEPT ![c] = new]
    BY <1>7 DEF Retry
  <2>2. new.pc = "propose" /\ new.unavailable = {}
    BY <1>1 DEF ClientState
  <2> HIDE DEF new
  <2>3. client'[c] = new /\ OnlyMoves(c)
    BY <1>1, <2>1 DEF OnlyMoves
  <2> QED BY <2>2, <2>3 DEF Advances
<1>8. ASSUME NEW pc, NEW replace, Proceed(c, pc, replace),
             \/ client[c].pc = "propose" /\ pc = "accept"
             \/ client[c].pc = "accept" /\ pc = "confirm" /\ client[c].waiting = {}
      PROVE  OnlyMoves(c) /\ Advances(c)
  <2> DEFINE new == [client[c] EXCEPT !.pc = pc, !.replace = replace,
                       !.waiting = client[c].quorum \ client[c].unavailable,
                       !.responses = NoResponses]
  <2>1. client' = [client EXCEPT ![c] = new]
    BY <1>8 DEF Proceed
  <2>2. new.pc = pc /\ new.unavailable = client[c].unavailable
    BY <1>1 DEF ClientState
  <2> HIDE DEF new
  <2>3. client'[c] = new /\ OnlyMoves(c)
    BY <1>1, <2>1 DEF OnlyMoves
  <2> QED BY <1>8, <2>2, <2>3 DEF Advances
<1>9. ASSUME NEW s \in client[c].waiting, NEW r, Answered(c, s, r),
             client[c].pc = "accept" =>
               /\ server'[s].proposal = Current(c)
               /\ server'[s].accepted # None
               /\ server'[s].accepted.proposal = Current(c)
               /\ server'[s].accepted.value = Submission(c)
      PROVE  OnlyMoves(c) /\ Advances(c)
  <2> DEFINE new == [client[c] EXCEPT !.waiting = client[c].waiting \ {s},
                       !.responses = [client[c].responses EXCEPT ![s] = r]]
  <2>1. client' = [client EXCEPT ![c] = new]
    BY <1>1, <1>9 DEF Answered, ClientState
  <2>2. /\ new.pc = client[c].pc /\ new.unavailable = client[c].unavailable
        /\ new.waiting = client[c].waiting \ {s}
    BY <1>1 DEF ClientState
  <2> HIDE DEF new
  <2>3. client'[c] = new /\ OnlyMoves(c)
    BY <1>1, <2>1 DEF OnlyMoves
  <2> QED BY <1>9, <2>2, <2>3 DEF Advances
<1> QED BY <1>5, <1>6, <1>7, <1>8, <1>9

\* A peer that answers an accept with no more than its proposal accepted it.
LEMMA AcceptTaken ==
  ASSUME Inductive, NEW c \in Clients, NEW s \in Servers, Accept(c, s),
         Reply(Call(c, s)).type = "minimum",
         ~Less(Current(c), Reply(Call(c, s)).proposal)
  PROVE  /\ server'[s].proposal = Current(c)
         /\ server'[s].accepted # None
         /\ server'[s].accepted.proposal = Current(c)
         /\ server'[s].accepted.value = Submission(c)
<1> DEFINE t == server[s]
           q == client[c].quorum
           p == Current(c)
           v == Submission(c)
<1>1. /\ s \in client[c].waiting /\ client[c].pc = "accept" /\ Handle(Call(c, s))
      /\ t \in Server /\ p \in Proposal /\ server \in [Servers -> Server]
  BY CallKeeps DEF Accept, Inductive, TypeOK
<1>2. Reply(Call(c, s)) = AcceptReply(t, q, p)
  BY <1>1 DEF Reply, Call
<1>3. server'[s] = AcceptState(t, q, p, v)
  BY <1>1 DEF Handle, Handled, Call
<1>4. ~AcceptWrongQuorum(t, q, p) /\ ~AcceptUnannounced(t, p)
  BY <1>2 DEF AcceptReply, WrongQuorum, Malicious
<1>5. AcceptReply(t, q, p).proposal = t.proposal
  BY <1>4 DEF AcceptReply
<1>6. /\ ~Less(p, t.proposal) /\ t.proposal # None /\ ~Less(t.proposal, p)
      /\ t.proposal \in Proposal
  BY <1>1, <1>2, <1>4, <1>5 DEF AcceptUnannounced, Server
<1>7. t.proposal = p
  BY <1>1, <1>6, LessCases
<1> DEFINE a == [proposal |-> p, value |-> v, confirmed |-> Confirmed(t)]
<1>8. server'[s] = [t EXCEPT !.accepted = a]
  BY <1>3, <1>4, <1>6 DEF AcceptState
<1>9. /\ [t EXCEPT !.accepted = a].accepted = a
      /\ [t EXCEPT !.accepted = a].proposal = t.proposal
  BY <1>1 DEF Server
<1>10. a # None
  <2>1. v \in Value
    BY <1>1 DEF Inductive, TypeOK, ClientState, Established, Submission
  <2>2. Confirmed(t) \in BOOLEAN
    BY <1>1 DEF Confirmed, Server, Accepted
  <2>3. a \in Accepted
    BY <1>1, <2>1, <2>2 DEF Accepted
  <2> QED BY <2>3, NoneAssumption
<1> QED BY <1>7, <1>8, <1>9, <1>10

\* The steps of a client.
LEMMA StepAdvances ==
  ASSUME Steady, Inductive, \A c \in Clients : client[c].unavailable = {}, [Next]_vars
  PROVE  (\A d \in Clients : Advances(d)) /\ Returns
<1>0. client \in [Clients -> ClientState]
  BY DEF Inductive, TypeOK
<1>1. ASSUME NEW d \in Clients, client'[d] = client[d] PROVE Advances(d)
  BY <1>1 DEF Advances
<1>2. ASSUME NEW c \in Clients, OnlyMoves(c) /\ Advances(c) PROVE \A d \in Clients : Advances(d)
  BY <1>1, <1>2 DEF OnlyMoves
<1>3. UNCHANGED choices => Returns
  BY DEF Returns
<1>4. ASSUME NEW c \in Clients, NEW q \in Known, NEW version \in Versions,
             NEW value \in Values \union Elections, Choose(c, q, version, value)
      PROVE  (\A d \in Clients : Advances(d)) /\ Returns
  <2> DEFINE new == [Idle EXCEPT !.pc = "propose", !.quorum = q, !.version = version,
                       !.round = 1, !.value = value, !.waiting = q]
  <2>1. new.pc = "propose" /\ new.unavailable = {}
    BY DEF Idle
  <2>2. client' = [client EXCEPT ![c] = new] /\ UNCHANGED choices
    BY <1>4 DEF Choose
  <2> HIDE DEF new
  <2>3. client'[c] = new /\ OnlyMoves(c)
    BY <1>0, <2>2 DEF OnlyMoves
  <2>4. Advances(c)
    BY <2>1, <2>3 DEF Advances
  <2> QED BY <1>2, <1>3, <2>2, <2>3, <2>4
<1>5. ASSUME NEW c \in Clients, NEW s \in Servers,
             Propose(c, s) \/ Accept(c, s) \/ Confirm(c, s)
      PROVE  (\A d \in Clients : Advances(d)) /\ Returns
  <2>1. s \in client[c].waiting /\ client[c].pc # "idle" /\ client[c].unavailable = {}
    BY <1>5 DEF Propose, Accept, Confirm
  <2>2. UNCHANGED choices
    BY <1>5 DEF Propose, Accept, Confirm, Fail, Answered, Retry
  <2>3. CASE Propose(c, s)
    <3>1. client[c].pc = "propose"
      BY <2>3 DEF Propose
    <3> QED BY <1>2, <1>3, <2>1, <2>2, <2>3, <3>1, EndsAdvance DEF Propose
  <2>4. CASE Accept(c, s)
    <3>1. CASE Fail(c) \/ \E version, round, replace : Retry(c, version, round, replace)
      BY <1>2, <1>3, <2>1, <2>2, <3>1, EndsAdvance
    <3>2. CASE /\ Reply(Call(c, s)).type = "minimum"
               /\ ~Less(Current(c), Reply(Call(c, s)).proposal)
               /\ Answered(c, s, None)
      BY <1>2, <1>3, <2>1, <2>2, <2>4, <3>2, EndsAdvance, AcceptTaken
    <3> QED BY <2>4, <3>1, <3>2 DEF Accept
  <2>5. CASE Confirm(c, s)
    <3>1. client[c].pc = "confirm"
      BY <2>5 DEF Confirm
    <3> QED BY <1>2, <1>3, <2>1, <2>2, <2>5, <3>1, EndsAdvance DEF Confirm
  <2> QED BY <1>5, <2>3, <2>4, <2>5
<1>6. ASSUME NEW c \in Clients, NEW version, NEW value, Return(c, version, value),
             client[c].pc # "idle",
             \/ /\ client[c].pc = "confirm" /\ Finished(c)
                /\ version = client[c].version /\ value = Submission(c)
             \/ /\ client[c].pc = "propose"
                /\ \E s \in ConfirmedResponses(c) :
                     /\ version = client[c].responses[s].proposal.version
                     /\ value = client[c].responses[s].value
      PROVE  (\A d \in Clients : Advances(d)) /\ Returns
  <2>1. \A d \in Clients : Advances(d)
    BY <1>2, <1>6, EndsAdvance
  <2>2. \A ch \in choices' : ch \in choices \/ (ch.version = version /\ ch.value = value)
    BY <1>6 DEF Return
  <2>3. Returns
    BY <1>6, <2>2 DEF Returns
  <2> QED BY <2>1, <2>3
<1>7. ASSUME NEW c \in Clients, client[c].pc # "idle",
             \/ Fail(c)
             \/ \E version, round, replace : Retry(c, version, round, replace)
             \/ client[c].pc = "propose" /\ \E replace : Proceed(c, "accept", replace)
             \/ /\ client[c].pc = "accept" /\ client[c].waiting = {}
                /\ Proceed(c, "confirm", client[c].replace)
      PROVE  (\A d \in Clients : Advances(d)) /\ Returns
  <2>1. UNCHANGED choices
    BY <1>7 DEF Fail, Retry, Proceed
  <2> QED BY <1>2, <1>3, <1>7, <2>1, EndsAdvance
<1>8. ASSUME NEW c \in Clients, Elect(c)
      PROVE  (\A d \in Clients : Advances(d)) /\ Returns
  <2>1. client[c].pc = "propose"
    BY <1>8 DEF Elect
  <2> QED BY <1>6, <1>7, <1>8, <2>1 DEF Elect
<1>9. ASSUME NEW c \in Clients, EndRound(c)
      PROVE  (\A d \in Clients : Advances(d)) /\ Returns
  <2>1. client[c].pc \in {"accept", "confirm"} /\ client[c].waiting = {}
    BY <1>9 DEF EndRound
  <2> QED BY <1>6, <1>7, <1>9, <2>1 DEF EndRound, Finished
<1>10. ASSUME NEW c \in Clients, Crash(c)
       PROVE  (\A d \in Clients : Advances(d)) /\ Returns
  BY <1>7, <1>10 DEF Crash
<1>11. ASSUME NEW c, NEW s \in Servers, Unreachable(c, s) \/ ReadUnreachable(c, s)
       PROVE  FALSE
  BY <1>11 DEF Unreachable, ReadUnreachable, Steady, Inductive, TypeOK
<1>12. ASSUME UNCHANGED <<client, choices>>
       PROVE  (\A d \in Clients : Advances(d)) /\ Returns
  BY <1>1, <1>3, <1>12
<1>13. ASSUME NEW r \in Readers,
              (\E q \in Known : Get(r, q)) \/ (\E s \in Servers : Read(r, s)) \/ EndGet(r)
       PROVE  UNCHANGED <<client, choices>>
  BY <1>13 DEF Get, Read, EndGet
<1>14. ASSUME (\E m \in late : Deliver(m)) \/ UNCHANGED vars
       PROVE  UNCHANGED <<client, choices>>
  BY <1>14 DEF Deliver, vars
<1> QED BY <1>4, <1>5, <1>8, <1>9, <1>10, <1>11, <1>12, <1>13, <1>14 DEF Next, ClientStep

-----------------------------------------------------------------------------
(* What is locked stays so.                                                *)

LEMMA ToldKept ==
  ASSUME Inductive, NEW c, OnlyMoves(c), c \in Clients => Answers(c),
         NEW q \in Proposal, NEW v \in Value, NEW s \in Servers, Bound(s, q, v), Told(s, q, v)
  PROVE  Told(s, q, v)'
<1> SUFFICES ASSUME NEW d \in Clients, Fresh(d, s)', client'[d].version = q.version,
                    Less(q, Current(d)')
             PROVE  client'[d].responses[s].value = v
  BY DEF Told
<1>1. CASE d # c
  <2>1. client'[d] = client[d]
    BY <1>1 DEF OnlyMoves
  <2>2. Fresh(d, s) /\ Current(d)' = Current(d)
    BY <2>1 DEF Fresh, Current
  <2> QED BY <2>1, <2>2 DEF Told
<1>2. CASE d = c
  <2>1. /\ Answers(d) /\ Current(d) \in Proposal
        /\ client'[d].pc = "propose" /\ client'[d].responses[s] # None
    BY <1>2, IdAssumption DEF Fresh, Inductive, TypeOK, Current, Proposal, ClientState
  <2>2. /\ Current(d)' = Current(d) /\ (Fresh(d, s) \/ ~Promised(server[s], Current(d)))
        /\ client'[d].version = client[d].version /\ Current(d).version = q.version
    BY <2>1, FreshFollows DEF Answers, Current
  <2>3. CASE client'[d].responses[s] = client[d].responses[s]
    <3>1. Fresh(d, s)
      BY <2>1, <2>2, <2>3 DEF Fresh, Answers
    <3> QED BY <2>2, <2>3, <3>1 DEF Told
  <2>4. CASE /\ client'[d].responses[s] = ProposeReply(server[s], client[d].quorum, Current(d))
             /\ client'[d].responses[s].type = "response"
    <3>1. ~Promised(server[s], Current(d))
      <4>1. server[s] \in Server /\ Coherent(server[s])
        BY DEF Inductive, TypeOK, AcceptedUnderPromise
      <4> QED BY <2>1, <2>2, <2>4, <4>1, FreshAnswer DEF Fresh
    <3>2. ProposeReply(server[s], client[d].quorum, Current(d)).type = "response"
      BY <2>4
    <3>3. ASSUME NEW p, p = Current(d), NEW k, k = client[d].quorum
          PROVE  ProposeReply(server[s], k, p).value = v
      <4>1. p \in Proposal /\ p.version = q.version /\ ~Promised(server[s], p)
        BY <2>1, <2>2, <3>1, <3>3
      <4>2. ProposeReply(server[s], k, p).type = "response"
        BY <3>2, <3>3
      <4> QED BY <4>1, <4>2, BoundAnswer
    <3> QED BY <2>4, <3>3
  <2> QED BY <2>1, <2>3, <2>4 DEF Answers
<1> QED BY <1>1, <1>2

LEMMA FollowedKept ==
  ASSUME Inductive, NEW c, Moves(c), c \in Clients => Follows(c),
         NEW q \in Proposal, NEW v \in Value, Followed(q, v)
  PROVE  Followed(q, v)'
<1>1. \A p, u : Vote(p, u)' => Vote(p, u)
  BY VoteFollows DEF Moves, Follows
<1> QED BY <1>1 DEF Followed

\* Majorities are not empty.
LEMMA SomeInMajority ==
  ASSUME Intersecting, NEW q \in Quora, NEW m \in SUBSET q, Majority(m, q)
  PROVE  m # {}
BY DEF Intersecting

LEMMA BackedBySome ==
  ASSUME Intersecting, NEW p, Backed(p)
  PROVE  \E s \in Servers : Taken(p, s)
<1>1. PICK q \in Quora : \E m \in SUBSET q : Majority(m, q) /\ \A s \in m : Taken(p, s)
  BY DEF Backed
<1>2. PICK m \in SUBSET q : Majority(m, q) /\ \A s \in m : Taken(p, s)
  BY <1>1
<1>3. q \subseteq Servers
  BY QuorumAssumption DEF Quora, Quorums
<1> QED BY <1>2, <1>3, SomeInMajority

\* With one quorum and no outage, an election has every server's promise.
LEMMA ElectedByAll ==
  ASSUME Steady, Inductive, Voting, NEW c \in Clients, Elected(c), client[c].unavailable = {}
  PROVE  /\ Reached(c) = Servers /\ Servers # {} /\ client'[c].waiting = Servers
         /\ \A s \in Servers : Fresh(c, s) /\ Promised(server[s], Current(c))
<1>1. client[c].quorum = Servers
  BY DEF Voting, Elected, Steady, Quora
<1>2. Reached(c) = Servers
  BY <1>1 DEF Reached
<1>3. Servers # {}
  BY <1>1, <1>2, SomeInMajority DEF Elected, Quora, Steady
<1>4. ASSUME NEW s \in Servers PROVE Fresh(c, s) /\ Promised(server[s], Current(c))
  <2>1. Fresh(c, s)
    BY <1>2 DEF Elected
  <2> QED BY <2>1 DEF Voting, Replied, Fresh, Inductive, Established
<1> QED BY <1>2, <1>3, <1>4 DEF Elected

\* The quorum of all servers gives its servers' word: what is locked stays so.
LEMMA LockedKept ==
  ASSUME Steady, Inductive, Inductive', Voting, ServersKept,
         NEW c, Moves(c), c \in Clients => client[c].unavailable = {},
         NEW q \in Proposal, NEW v \in Value, Locked(q, v)
  PROVE  Locked(q, v)'
<1>1. OnlyMoves(c) /\ (c \in Clients => Answers(c))
  BY DEF Moves, Follows, Elected, Answers
<1>2. Backed(q)'
  BY <1>1, TakenKept DEF Locked
<1>3. \A s \in Servers : Bound(s, q, v)' /\ Told(s, q, v)'
  BY <1>1, BoundKept, ToldKept DEF Locked, Moves
<1>4. Followed(q, v)'
  <2>1. CASE c \in Clients => Follows(c)
    BY <2>1, FollowedKept DEF Locked
  <2>2. CASE c \in Clients /\ Elected(c) /\ UNCHANGED <<server, late, submitted>>
    <3>1. /\ Reached(c) = Servers /\ Servers # {}
          /\ \A s \in Servers : Fresh(c, s)
          /\ Current(c) \in Proposal /\ Current(c).version = client[c].version
      BY <2>2, ElectedByAll, IdAssumption DEF Inductive, TypeOK, Current, Proposal, ClientState
    <3>2. Intersecting
      BY DEF Steady
    <3>3. \A p, u : Vote(p, u)' => Vote(p, u) \/ (p = Current(c) /\ u = Submission(c)')
      BY <1>1, <2>2, <3>2, ElectedVotes
    <3>4. ASSUME Current(c).version = q.version, ~Less(Current(c), q)
          PROVE  Submission(c)' = v
      <4>1. CASE Current(c) = q
        <5>1. PICK s \in Servers : Taken(q, s)
          BY <3>2, BackedBySome DEF Locked
        <5> QED BY <2>2, <3>1, <4>1, <5>1 DEF Taken
      <4>2. CASE Less(q, Current(c))
        <5>1. \A s \in Reached(c) : client[c].responses[s].value = v
          BY <2>2, <3>1, <3>4, <4>2 DEF Locked, Told
        <5> QED BY <2>2, <3>1, <5>1 DEF Elected
      <4> QED BY <3>1, <3>4, <4>1, <4>2, LessCases
    <3>5. Followed(q, v)
      BY DEF Locked
    <3> QED BY <3>3, <3>4, <3>5 DEF Followed
  <2> QED BY <2>1, <2>2 DEF Moves
<1> QED BY <1>2, <1>3, <1>4 DEF Locked

-----------------------------------------------------------------------------
(* What a client that may still have its value accepted by all is held to. *)

\* It was so before, unless it has just been elected.
LEMMA ClearBefore ==
  ASSUME Inductive, Inductive', ServersKept, NEW c, Moves(c), NEW d \in Clients, Advances(d),
         Clear(d)', ~(d = c /\ Elected(d))
  PROVE  /\ Clear(d) /\ Current(d)' = Current(d) /\ Submission(d)' = Submission(d)
         /\ client[d].pc = "accept" /\ client'[d].pc = "accept"
<1>1. client'[d].pc = "accept" /\ ~Blocked(d)'
  BY DEF Clear
<1>2. /\ client[d].pc = "accept"
      /\ client'[d].version = client[d].version /\ client'[d].round = client[d].round
      /\ client'[d].value = client[d].value /\ client'[d].replace = client[d].replace
  BY <1>1 DEF Moves, Follows, Insists, OnlyMoves, Advances
<1>3. Current(d)' = Current(d) /\ Submission(d)' = Submission(d) /\ Current(d) \in Proposal
  BY <1>2, IdAssumption
  DEF Current, Submission, Inductive, TypeOK, Proposal, ClientState
<1>4. ASSUME NEW s \in client[d].waiting PROVE ~Less(Current(d), server[s].proposal)
  <2>1. /\ s \in Servers /\ Promised(server[s], Current(d)) /\ server[s] \in Server
        /\ Remembers(server[s], server'[s]) /\ server'[s] \in Server
    <3>1. /\ Established(d) /\ s \in Servers /\ server[s] \in Server
          /\ server'[s] \in Server
      BY DEF Inductive, TypeOK, ClientState
    <3>2. Promised(server[s], Current(d))
      BY <1>2, <3>1 DEF Established
    <3>3. Remembers(server[s], server'[s])
      BY <3>1 DEF ServersKept
    <3> QED BY <3>1, <3>2, <3>3
  <2>2. server[s].proposal \in Proposal /\ server'[s].proposal \in Proposal
    BY <1>3, <2>1 DEF Promised, Server, Remembers
  <2>3. ~Less(server'[s].proposal, server[s].proposal)
    <3>1. Promised(server[s], server[s].proposal)
      BY <2>2, LessTotal, NoneAssumption DEF Promised
    <3> QED BY <2>1, <2>2, <3>1 DEF Remembers, Promised
  <2>4. ~Less(Current(d), server'[s].proposal)
    <3>1. CASE s \in client'[d].waiting
      BY <1>1, <1>3, <3>1 DEF Blocked
    <3>2. CASE s \notin client'[d].waiting
      BY <1>1, <1>2, <1>3, <3>2, LessTotal DEF Advances
    <3> QED BY <3>1, <3>2
  <2> QED BY <1>3, <2>2, <2>3, <2>4, LessTransfer, LessTransitive
<1>5. ~Blocked(d)
  BY <1>4 DEF Blocked
<1> QED BY <1>1, <1>2, <1>3, <1>5 DEF Clear

LEMMA AsksType ==
  ASSUME Inductive, NEW c \in Clients, client[c].pc \in {"accept", "confirm"}
  PROVE  Current(c) \in Proposal /\ Submission(c) \in Value
<1>1. client[c] \in ClientState /\ client[c].value # None
  BY DEF Inductive, TypeOK, Established
<1> QED BY <1>1, IdAssumption DEF Current, Proposal, Submission, ClientState

\* A value that all the servers accepted is locked.
LEMMA AllAccepted ==
  ASSUME Inductive, Voting, Holding, NEW c \in Clients, NEW p \in Proposal, NEW v \in Value,
         client[c].pc = "accept", client[c].waiting = {}, Asks(c, p, v)
  PROVE  Clear(c) /\ Locked(p, v)
<1>1. Clear(c)
  BY DEF Clear, Blocked
<1>2. Backed(p)
  BY DEF Voting, Vote
<1> QED BY <1>1, <1>2 DEF Holding, Locked

LEMMA HoldingKept ==
  ASSUME Steady, Inductive, Inductive', Voting, Voting', ServersKept, Holding,
         NEW c, Moves(c), \A d \in Clients : Advances(d)
  PROVE  Holding'
<1>1. \A d \in Clients : client'[d].unavailable = {} /\ client[d].unavailable = {}
  BY DEF Advances, Holding
<1> SUFFICES ASSUME NEW d \in Clients, NEW p \in Proposal, NEW v \in Value, Clear(d)',
                    Asks(d, p, v)'
             PROVE  /\ Followed(p, v)'
                    /\ \A s \in Servers \ client'[d].waiting : Bound(s, p, v)' /\ Told(s, p, v)'
  BY <1>1 DEF Holding
<1>2. Current(d)' = p /\ Submission(d)' = v /\ client'[d].pc = "accept" /\ ~Blocked(d)'
  BY DEF Asks, Clear
<1>3. OnlyMoves(c) /\ (c \in Clients => Answers(c))
  BY DEF Moves, Follows, Elected, Answers
<1>4. CASE ~(d = c /\ Elected(d))
  <2>1. /\ Clear(d) /\ Current(d) = p /\ Submission(d) = v /\ client[d].pc = "accept"
        /\ Advances(d)
    BY <1>2, <1>4, ClearBefore
  <2>2. /\ Asks(d, p, v) /\ Followed(p, v)
        /\ \A s \in Servers \ client[d].waiting : Bound(s, p, v) /\ Told(s, p, v)
    BY <2>1 DEF Asks, Holding
  <2>3. CASE client[d].waiting = {}
    <3>1. Locked(p, v)
      BY <2>1, <2>2, <2>3, AllAccepted
    <3>2. Locked(p, v)'
      BY <1>1, <3>1, LockedKept
    <3> QED BY <3>2 DEF Locked
  <2>4. CASE client[d].waiting # {}
    <3>1. Followed(p, v)'
      <4>1. CASE c \in Clients => Follows(c)
        BY <2>2, <4>1, FollowedKept
      <4>2. CASE c \in Clients /\ Elected(c) /\ UNCHANGED <<server, late, submitted>>
        <5>1. /\ \A s \in Servers : Promised(server[s], Current(c))
              /\ Current(c) \in Proposal
          BY <1>1, <4>2, ElectedByAll, IdAssumption
          DEF Inductive, TypeOK, Current, Proposal, ClientState
        <5>2. Intersecting
          BY DEF Steady
        <5>3. /\ \A u \in Value : ~Vote(Current(c), u)
              /\ \A q, u : Vote(q, u)' => Vote(q, u) \/ (q = Current(c) /\ u = Submission(c)')
          BY <1>3, <4>2, <5>2, ElectedVotes
        <5>4. Less(Current(c), p)
          <6>1. Current(c) # p
            BY <2>2, <5>3 DEF Vote
          <6>2. PICK s \in client[d].waiting : s \in Servers
            BY <2>4 DEF Inductive, TypeOK, ClientState
          <6>3. /\ ~Less(p, server[s].proposal) /\ ~Less(server[s].proposal, Current(c))
                /\ server[s].proposal \in Proposal
            BY <2>1, <5>1, <6>2 DEF Clear, Blocked, Promised, Inductive, TypeOK, Server
          <6>4. ~Less(p, Current(c))
            BY <5>1, <6>3, LessTransitive
          <6> QED BY <5>1, <6>1, <6>4, LessCases
        <5> QED BY <2>2, <5>3, <5>4 DEF Followed
      <4> QED BY <4>1, <4>2 DEF Moves
    <3>2. ASSUME NEW s \in Servers \ client'[d].waiting
          PROVE  Bound(s, p, v)' /\ Told(s, p, v)'
      <4>1. CASE s \notin client[d].waiting
        <5>1. Bound(s, p, v) /\ Told(s, p, v)
          BY <2>2, <4>1
        <5> QED BY <1>3, <2>2, <5>1, BoundKept, ToldKept DEF Moves
      <4>2. CASE s \in client[d].waiting
        <5>1. /\ server'[s].proposal = p /\ server'[s].accepted # None
              /\ server'[s].accepted.proposal = p /\ server'[s].accepted.value = v
          BY <1>2, <2>1, <3>2, <4>2 DEF Advances
        <5>2. Bound(s, p, v)'
          BY <5>1, LessTotal, NoneAssumption DEF Bound, Promised
        <5>3. ASSUME NEW e \in Clients, Fresh(e, s)', Less(p, Current(e)')
              PROVE  FALSE
          <6>1. Promised(server[s], Current(e))'
            BY <5>3 DEF Voting, Replied, Fresh, Inductive, Established
          <6>2. Promised(server'[s], Current(e)')
            BY <6>1
          <6> QED BY <5>1, <5>3, <6>2 DEF Promised
        <5> QED BY <5>2, <5>3 DEF Told
      <4> QED BY <4>1, <4>2
    <3> QED BY <3>1, <3>2
  <2> QED BY <2>3, <2>4
<1>5. CASE d = c /\ Elected(c)
  <2>0. UNCHANGED <<server, late, submitted>>
    BY <1>2, <1>5 DEF Moves, Follows, Insists, Elected
  <2>1. client'[d].waiting = Servers
    BY <1>1, <1>5, ElectedByAll
  <2>2. Intersecting
    BY DEF Steady
  <2>3. /\ Current(c) = p
        /\ \A u \in Value : ~Vote(p, u)
        /\ \A q, u : Vote(q, u)' => Vote(q, u) \/ (q = p /\ u = v)
    BY <1>2, <1>3, <1>5, <2>0, <2>2, ElectedVotes
  <2>4. ASSUME NEW q \in Proposal, NEW u \in Value, ~Less(q, p), Vote(q, u)
        PROVE  FALSE
    <3>1. Less(p, q)
      BY <2>3, <2>4, LessCases
    <3>2. PICK s \in Servers : Promised(server[s], q)
      BY <2>2, <2>4, BackedBySome DEF Voting, Taken
    <3>3. server[s].proposal \in Proposal /\ ~Less(server[s].proposal, q)
      BY <3>2 DEF Promised, Inductive, TypeOK, Server
    <3>4. Less(p, server[s].proposal)
      BY <3>1, <3>3, LessTransitive
    <3> QED BY <1>2, <2>0, <2>1, <3>4 DEF Blocked
  <2> QED BY <2>1, <2>3, <2>4 DEF Followed
<1> QED BY <1>4, <1>5

\* Once all the servers accepted from c, its version may be said decided.
LEMMA DecideNow ==
  ASSUME Inductive, Voting, Holding, NEW out \in Outcomes, Decided(out),
         NEW c \in Clients, client[c].pc = "accept", client[c].waiting = {}
  PROVE  \E o \in Outcomes : Decided(o) /\ o[client[c].version] = Submission(c)
<1> DEFINE w == client[c].version
           p == Current(c)
           v == Submission(c)
           o == [out EXCEPT ![w] = v]
<1>1. p \in Proposal /\ v \in Value /\ v # None /\ p.version = w /\ w \in Nat
  BY AsksType, NoneAssumption DEF Value, Current, Inductive, TypeOK, ClientState
<1>2. Clear(c) /\ Locked(p, v)
  BY <1>1, AllAccepted DEF Asks
<1>3. out[w] \in {None, v}
  BY <1>2 DEF Decided
<1>4. CASE out[w] = v
  BY <1>4
<1>5. CASE out[w] = None
  <2> HIDE DEF w, p, v
  <2>1. o \in Outcomes /\ o[w] = v /\ \A x \in Nat : out[x] # None => o[x] = out[x]
    BY <1>1, <1>5 DEF Outcomes
  <2> HIDE DEF o
  <2>2. \A ch \in choices : o[ch.version] = ch.value
    BY <2>1, NoneAssumption DEF Decided, Inductive, TypeOK, Choice, Value
  <2>3. \A s \in Servers : Confirmed(server[s]) =>
          o[server[s].accepted.proposal.version] = server[s].accepted.value
    <3> SUFFICES ASSUME NEW s \in Servers, Confirmed(server[s])
                 PROVE  o[server[s].accepted.proposal.version] = server[s].accepted.value
      OBVIOUS
    <3>1. server[s].accepted \in Accepted
      BY DEF Confirmed, Inductive, TypeOK, Server
    <3>2. /\ server[s].accepted.proposal.version \in Nat
          /\ server[s].accepted.value # None
      BY <3>1, ProposalFields, NoneAssumption DEF Accepted, Value
    <3> QED BY <2>1, <3>2 DEF Decided
  <2>4. \A d \in Clients : client[d].pc = "propose" =>
          \A s \in ConfirmedResponses(d) :
            o[client[d].responses[s].proposal.version] = client[d].responses[s].value
    <3> SUFFICES ASSUME NEW d \in Clients, client[d].pc = "propose",
                        NEW s \in ConfirmedResponses(d)
                 PROVE  o[client[d].responses[s].proposal.version] = client[d].responses[s].value
      OBVIOUS
    <3>1. /\ s \in Servers /\ client[d].responses[s] \in Responses
          /\ client[d].responses[s].value # None
      BY DEF ConfirmedResponses, Valued, Inductive, TypeOK, ClientState
    <3>2. client[d].responses[s].proposal # None
      BY <3>1, ResponsesAssumption DEF Inductive, Established
    <3>3. client[d].responses[s].proposal.version \in Nat
      BY <3>1, <3>2, ProposalFields DEF Responses
    <3> QED BY <2>1, <3>1, <3>3 DEF Decided
  <2>5. \A d \in Clients : client[d].pc = "confirm" => o[client[d].version] = Submission(d)
    <3> SUFFICES ASSUME NEW d \in Clients, client[d].pc = "confirm"
                 PROVE  o[client[d].version] = Submission(d)
      OBVIOUS
    <3>1. Submission(d) # None /\ client[d].version \in Nat
      BY AsksType, NoneAssumption DEF Value, Inductive, TypeOK, ClientState
    <3> QED BY <2>1, <3>1 DEF Decided
  <2>6. \A m \in late : m.type = "confirm" => o[m.proposal.version] # None
    <3> SUFFICES ASSUME NEW m \in late, m.type = "confirm"
                 PROVE  o[m.proposal.version] # None
      OBVIOUS
    <3>1. m.proposal.version \in Nat
      BY ProposalFields DEF Inductive, TypeOK, Request
    <3> QED BY <2>1, <3>1 DEF Decided
  <2>7. \A x \in Nat : o[x] # None => \E q \in Proposal : q.version = x /\ Locked(q, o[x])
    <3> SUFFICES ASSUME NEW x \in Nat, o[x] # None
                 PROVE  \E q \in Proposal : q.version = x /\ Locked(q, o[x])
      OBVIOUS
    <3>1. CASE x = w
      BY <1>1, <1>2, <2>1, <3>1
    <3>2. CASE x # w
      <4>1. o[x] = out[x]
        BY <3>2 DEF o, Outcomes
      <4> QED BY <4>1 DEF Decided
    <3> QED BY <3>1, <3>2
  <2>8. \A d \in Clients : Clear(d) => o[client[d].version] \in {None, Submission(d)}
    <3> SUFFICES ASSUME NEW d \in Clients, Clear(d)
                 PROVE  o[client[d].version] \in {None, Submission(d)}
      OBVIOUS
    <3>1. /\ client[d].pc = "accept" /\ client[d].version \in Nat
          /\ Current(d) \in Proposal /\ Submission(d) \in Value
          /\ Current(d).version = client[d].version
      BY AsksType DEF Clear, Inductive, TypeOK, ClientState, Current
    <3>2. CASE client[d].version = w
      <4>1. /\ Asks(d, Current(d), Submission(d)) /\ Vote(Current(d), Submission(d))
            /\ Followed(Current(d), Submission(d))
        BY <3>1 DEF Asks, Vote, Holding
      <4>2. Vote(p, v) /\ Followed(p, v)
        BY <1>2 DEF Asks, Vote, Locked, p, v
      <4>3. ~Less(p, Current(d)) \/ ~Less(Current(d), p)
        BY <1>1, <3>1, LessTotal
      <4>4. v = Submission(d)
        BY <1>1, <3>1, <3>2, <4>1, <4>2, <4>3 DEF Followed
      <4> QED BY <2>1, <3>2, <4>4
    <3>3. CASE client[d].version # w
      <4>1. o[client[d].version] = out[client[d].version]
        BY <3>1, <3>3 DEF o, Outcomes
      <4> QED BY <4>1 DEF Decided
    <3> QED BY <3>2, <3>3
  <2>9. Decided(o)
    BY <2>2, <2>3, <2>4, <2>5, <2>6, <2>7, <2>8 DEF Decided
  <2> QED BY <2>1, <2>9 DEF w, v
<1> QED BY <1>3, <1>4, <1>5

-----------------------------------------------------------------------------
(* What a step does with what is decided.                                  *)

\* What a server that confirmed it accepts again is what is decided.
LEMMA AcceptAgain ==
  ASSUME Inductive, NEW out \in Outcomes, Decided(out), NEW m \in InFlight, m.type = "accept",
         NEW s \in Servers, Confirmed(server[s]),
         ~Less(server[s].proposal, m.proposal), ~Less(m.proposal, server[s].proposal)
  PROVE  /\ m.value = server[s].accepted.value
         /\ m.proposal.version = server[s].accepted.proposal.version
<1> DEFINE t == server[s]
           w == t.accepted.proposal.version
<1>1. /\ t \in Server /\ Coherent(t) /\ t.accepted # None /\ t.accepted.confirmed
      /\ t.accepted \in Accepted
  BY DEF Confirmed, Inductive, TypeOK, AcceptedUnderPromise, Server
<1>2. /\ t.proposal # None /\ t.proposal \in Proposal /\ w = t.proposal.version
  BY <1>1 DEF Coherent, Server
<1>3. /\ m.proposal \in Proposal /\ m.value \in Value /\ Vote(m.proposal, m.value)
  BY InFlightVotes, InFlightPrepared DEF Request, Prepared
<1>4. m.proposal.version = w /\ w \in Nat
  BY <1>2, <1>3, LessTotal, ProposalFields
<1>5. /\ out[w] = t.accepted.value /\ out[w] # None
  BY <1>1, NoneAssumption DEF Decided, Accepted, Value
<1>6. PICK q \in Proposal : q.version = w /\ Locked(q, out[w])
  BY <1>4, <1>5 DEF Decided
<1>7. ~Less(t.proposal, q)
  BY <1>6 DEF Locked, Bound, Promised
<1>8. ~Less(m.proposal, q)
  BY <1>2, <1>3, <1>6, <1>7, LessTransitive
<1>9. out[w] \in Value
  BY <1>4, <1>5 DEF Outcomes
<1> QED BY <1>3, <1>4, <1>5, <1>6, <1>8, <1>9 DEF Locked, Followed

\* What a server says it confirmed it did.
LEMMA ConfirmedAnswer ==
  ASSUME NEW s \in Server, Coherent(s), NEW q, NEW p \in Proposal,
         ProposeReply(s, q, p).type = "response", ProposeReply(s, q, p).value # None,
         ProposeReply(s, q, p).confirmed
  PROVE  /\ Confirmed(s) /\ ProposeReply(s, q, p).value = s.accepted.value
         /\ ProposeReply(s, q, p).proposal.version = s.accepted.proposal.version
<1> DEFINE r == ProposeReply(s, q, p)
           t == Settle(s, p)
<1>1. CASE Outdated(s, p)
  <2>1. r = Response(s.accepted.proposal, s.accepted.value, s.accepted.confirmed)
    BY <1>1 DEF ProposeReply
  <2> QED BY <1>1, <2>1 DEF Outdated, Confirmed, Response
<1>2. CASE ~Outdated(s, p)
  <2>1. ~ProposeRefused(s, q, p)
    BY <1>2 DEF ProposeReply, WrongQuorum
  <2>2. t.accepted # None
    BY <1>2, <2>1 DEF ProposeReply, Response
  <2>3. t = s
    BY <2>2, SettleLemma
  <2>4. r = Response(s.proposal, s.accepted.value, s.accepted.confirmed)
    <3>1. r = Response(t.proposal, t.accepted.value, t.accepted.confirmed)
      BY <1>2, <2>1, <2>2 DEF ProposeReply
    <3> QED BY <2>3, <3>1
  <2>5. r.proposal = s.proposal /\ r.value = s.accepted.value /\ s.accepted.confirmed
    <3>1. s.accepted.confirmed \in BOOLEAN
      BY <2>2, <2>3 DEF Server, Accepted
    <3>2. ASSUME s.accepted.confirmed = FALSE PROVE FALSE
      <4>1. r = [type |-> "response", proposal |-> s.proposal, value |-> s.accepted.value,
                 confirmed |-> FALSE]
        BY <2>4, <3>2 DEF Response
      <4>2. r.confirmed = FALSE
        BY <4>1
      <4> QED BY <4>2
    <3>3. r.proposal = s.proposal /\ r.value = s.accepted.value
      BY <2>4 DEF Response
    <3> QED BY <3>1, <3>2, <3>3
  <2>6. s.accepted.proposal.version = s.proposal.version
    BY <2>2, <2>3, <2>5 DEF Coherent
  <2> QED BY <2>2, <2>3, <2>5, <2>6 DEF Confirmed
<1> QED BY <1>1, <1>2

LEMMA InFlightDecided ==
  ASSUME Inductive, NEW out \in Outcomes, Decided(out), NEW m \in InFlight, m.type = "confirm"
  PROVE  out[m.proposal.version] # None
<1>1. CASE m \in late
  BY <1>1 DEF Decided
<1>2. ASSUME NEW c \in Clients, NEW s \in client[c].waiting, m = Call(c, s)
      PROVE  out[m.proposal.version] # None
  <2>1. client[c].pc = "confirm" /\ m.proposal.version = client[c].version
    BY <1>2 DEF Call, Current
  <2>2. Submission(c) # None
    BY <2>1, AsksType, NoneAssumption DEF Value
  <2> QED BY <2>1, <2>2 DEF Decided
<1> QED BY <1>1, <1>2 DEF InFlight, Calls

\* What the servers confirm is decided, and what they confirmed they keep.
LEMMA ConfirmedKept ==
  ASSUME Inductive, NEW out \in Outcomes, Decided(out), NEW s \in Servers,
         UNCHANGED server \/ \E m \in InFlight : Handle(m)
  PROVE  /\ Confirmed(server'[s]) =>
              out[server'[s].accepted.proposal.version] = server'[s].accepted.value
         /\ /\ Confirmed(server[s]) /\ server'[s].accepted # None
            /\ server'[s].accepted.proposal.version = server[s].accepted.proposal.version
            => server'[s].accepted.value = server[s].accepted.value
<1> DEFINE t == server[s]
           u == server'[s]
           Goal == /\ Confirmed(u) => out[u.accepted.proposal.version] = u.accepted.value
                   /\ Confirmed(t) /\ u.accepted # None =>
                        u.accepted.value = t.accepted.value
<1> SUFFICES Goal
  OBVIOUS
<1>0. Confirmed(t) => out[t.accepted.proposal.version] = t.accepted.value
  BY DEF Decided
<1>1. CASE u.accepted = t.accepted
  BY <1>0, <1>1 DEF Confirmed
<1>2. ASSUME NEW m \in InFlight, Handle(m) PROVE Goal
  <2>1. /\ m \in Request /\ m.server \in Servers /\ m.proposal \in Proposal
        /\ m.type \in {"propose", "accept", "confirm"}
    BY InFlightPrepared DEF Request
  <2>2. /\ u = IF s = m.server THEN Handled(m) ELSE t
        /\ t \in Server /\ Coherent(t)
    BY <1>2, <2>1 DEF Handle, Inductive, TypeOK, AcceptedUnderPromise
  <2>3. CASE s = m.server /\ m.type = "propose"
    <3>1. u = ProposeState(t, m.quorum, m.proposal)
      BY <2>2, <2>3 DEF Handled
    <3>2. u.accepted \in {None, t.accepted}
      BY <2>1, <2>2, <3>1, ProposeAccepted
    <3> QED BY <1>1, <3>2 DEF Confirmed
  <2>4. CASE s = m.server /\ m.type = "accept" /\ u.accepted # t.accepted
    <3>1. u = AcceptState(t, m.quorum, m.proposal, m.value)
      BY <2>2, <2>4 DEF Handled
    <3>2. /\ u.accepted = [proposal |-> m.proposal, value |-> m.value,
                           confirmed |-> Confirmed(t)]
          /\ ~Less(t.proposal, m.proposal) /\ ~Less(m.proposal, t.proposal)
      BY <2>1, <2>2, <2>4, <3>1, AcceptAccepted
    <3>3. /\ u.accepted.proposal = m.proposal /\ u.accepted.value = m.value
          /\ u.accepted.confirmed = Confirmed(t)
      BY <3>2
    <3>4. Confirmed(t) => /\ m.value = t.accepted.value
                          /\ m.proposal.version = t.accepted.proposal.version
      BY <2>4, <3>2, AcceptAgain
    <3>5. Confirmed(u) => Confirmed(t)
      BY <3>3 DEF Confirmed
    <3> QED BY <1>0, <3>3, <3>4, <3>5
  <2>5. CASE s = m.server /\ m.type = "confirm" /\ u.accepted # t.accepted
    <3>1. u = ConfirmState(t, m.quorum, m.proposal)
      BY <2>2, <2>5 DEF Handled
    <3>2. /\ u.accepted = [t.accepted EXCEPT !.confirmed = TRUE]
          /\ t.accepted # None /\ t.proposal # None
          /\ ~Less(t.proposal, m.proposal) /\ ~(m.proposal.version < t.proposal.version)
      BY <2>1, <2>2, <2>5, <3>1, ConfirmAccepted
    <3>3. /\ u.accepted.proposal = t.accepted.proposal /\ u.accepted.value = t.accepted.value
          /\ t.proposal \in Proposal
      BY <2>2, <3>2 DEF Server, Accepted
    <3>4. /\ t.proposal.version = m.proposal.version /\ m.proposal.version \in Nat
      BY <2>1, <3>2, <3>3, ProposalFields, LessTotal
    <3>5. out[m.proposal.version] # None
      BY <2>5, InFlightDecided
    <3>6. PICK q \in Proposal :
            q.version = m.proposal.version /\ Locked(q, out[m.proposal.version])
      BY <3>4, <3>5 DEF Decided
    <3>7. Bound(s, q, out[m.proposal.version])
      BY <3>6 DEF Locked
    <3>8. /\ t.accepted.proposal.version = m.proposal.version
          /\ t.accepted.value = out[m.proposal.version]
      BY <3>4, <3>6, <3>7 DEF Bound
    <3> QED BY <3>3, <3>8
  <2> QED BY <1>1, <2>1, <2>2, <2>3, <2>4, <2>5
<1> QED BY <1>1, <1>2

LEMMA DecidedKept ==
  ASSUME Steady, Inductive, Inductive', Voting, Voting', ServersKept, Holding,
         NEW c, Moves(c), \A d \in Clients : Advances(d), Returns,
         NEW out \in Outcomes, Decided(out),
         c \in Clients /\ client[c].pc = "accept" /\ client[c].waiting = {} =>
           out[client[c].version] = Submission(c)
  PROVE  Decided(out)'
<1>0. OnlyMoves(c) /\ (c \in Clients => Answers(c))
  BY DEF Moves, Follows, Elected, Answers
<1>1. \A ch \in choices' : out[ch.version] = ch.value
  BY DEF Returns, Decided
<1>2. \A s \in Servers : Confirmed(server'[s]) =>
        out[server'[s].accepted.proposal.version] = server'[s].accepted.value
  BY ConfirmedKept DEF Moves
<1>3. ASSUME NEW d \in Clients, client'[d].pc = "propose", NEW s \in ConfirmedResponses(d)'
      PROVE  out[client'[d].responses[s].proposal.version] = client'[d].responses[s].value
  <2>1. /\ s \in Servers /\ client'[d].responses[s] # None
        /\ client'[d].responses[s].value # None /\ client'[d].responses[s].confirmed
    BY <1>3 DEF ConfirmedResponses, Valued
  <2>2. CASE client'[d].responses[s] = client[d].responses[s] /\ client[d].pc = "propose"
    <3>1. s \in ConfirmedResponses(d)
      BY <2>1, <2>2 DEF ConfirmedResponses, Valued
    <3>2. out[client[d].responses[s].proposal.version] = client[d].responses[s].value
      BY <2>2, <3>1 DEF Decided
    <3> QED BY <2>2, <3>2
  <2>3. CASE /\ client'[d].responses[s] = ProposeReply(server[s], client[d].quorum, Current(d))
             /\ client'[d].responses[s].type = "response"
    <3>1. server[s] \in Server /\ Coherent(server[s]) /\ Current(d) \in Proposal
      BY <2>1, IdAssumption
      DEF Inductive, TypeOK, AcceptedUnderPromise, Current, Proposal, ClientState
    <3>2. ASSUME NEW p, p = Current(d), NEW k, k = client[d].quorum
          PROVE  /\ Confirmed(server[s])
                 /\ ProposeReply(server[s], k, p).value = server[s].accepted.value
                 /\ ProposeReply(server[s], k, p).proposal.version
                      = server[s].accepted.proposal.version
      BY <2>1, <2>3, <3>1, <3>2, ConfirmedAnswer
    <3>3. Confirmed(server[s]) =>
            out[server[s].accepted.proposal.version] = server[s].accepted.value
      BY <2>1 DEF Decided
    <3>4. /\ Confirmed(server[s])
          /\ client'[d].responses[s].value = server[s].accepted.value
          /\ client'[d].responses[s].proposal.version = server[s].accepted.proposal.version
      BY <2>3, <3>2
    <3> QED BY <3>3, <3>4
  <2>4. d # c => client'[d] = client[d]
    BY <1>0 DEF OnlyMoves
  <2> QED BY <1>0, <1>3, <2>1, <2>2, <2>3, <2>4 DEF Answers
<1>4. ASSUME NEW d \in Clients, client'[d].pc = "confirm"
      PROVE  out[client'[d].version] = Submission(d)'
  <2>1. /\ client[d].pc \in {"accept", "confirm"}
        /\ client'[d].version = client[d].version
        /\ client'[d].value = client[d].value /\ client'[d].replace = client[d].replace
    BY <1>4 DEF Moves, Follows, Insists, OnlyMoves, Elected
  <2>2. Submission(d)' = Submission(d)
    BY <2>1 DEF Submission
  <2>3. CASE client[d].pc = "confirm"
    BY <2>1, <2>2, <2>3 DEF Decided
  <2>4. CASE client[d].pc # "confirm"
    BY <1>0, <1>4, <2>1, <2>2, <2>4 DEF OnlyMoves, Advances
  <2> QED BY <2>3, <2>4
<1>5. \A m \in late' : m.type = "confirm" => out[m.proposal.version] # None
  BY InFlightDecided DEF Moves
<1>6. \A w \in Nat : out[w] # None => \E q \in Proposal : q.version = w /\ Locked(q, out[w])'
  <2> SUFFICES ASSUME NEW w \in Nat, NEW v, v = out[w], v # None
               PROVE  \E q \in Proposal : q.version = w /\ Locked(q, v)'
    OBVIOUS
  <2>1. PICK q \in Proposal : q.version = w /\ Locked(q, v)
    BY DEF Decided
  <2>2. v \in Value
    BY DEF Outcomes
  <2>3. Locked(q, v)'
    BY <2>1, <2>2, LockedKept DEF Holding
  <2> QED BY <2>1, <2>3
<1>7. ASSUME NEW d \in Clients, Clear(d)'
      PROVE  out[client'[d].version] \in {None, Submission(d)'}
  <2>1. CASE ~(d = c /\ Elected(d))
    <3>1. Clear(d) /\ Current(d)' = Current(d) /\ Submission(d)' = Submission(d)
      BY <1>7, <2>1, ClearBefore
    <3> QED BY <3>1 DEF Decided, Current
  <2>2. ASSUME d = c, Elected(c), NEW w, w = client'[d].version, out[w] # None
        PROVE  out[w] = Submission(d)'
    <3>1. client'[d].pc = "accept" /\ ~Blocked(d)' /\ client'[d].waiting = Servers
      BY <1>7, <2>2, ElectedByAll DEF Clear, Holding
    <3>2. w \in Nat /\ client' \in [Clients -> ClientState]
      BY <2>2 DEF Inductive, TypeOK, ClientState
    <3>3. PICK q \in Proposal : q.version = w /\ Locked(q, out[w])'
      BY <1>6, <2>2, <3>2
    <3>4. Current(d)' \in Proposal /\ Submission(d)' \in Value
      <4>1. (Current(d) \in Proposal /\ Submission(d) \in Value)'
        <5>1. client'[d] \in ClientState /\ client'[d].value # None
          BY <3>1 DEF Inductive, TypeOK, Established
        <5> QED BY <5>1, IdAssumption DEF Current, Proposal, Submission, ClientState
      <4> QED BY <4>1
    <3>5. ASSUME NEW p, p = Current(d)', NEW v, v = Submission(d)' PROVE out[w] = v
      <4>1. p \in Proposal /\ v \in Value /\ Vote(p, v)' /\ p.version = w
        BY <2>2, <3>1, <3>4, <3>5 DEF Vote, Asks, Current
      <4>2. PICK s \in Servers : TRUE
        BY <2>2, ElectedByAll DEF Holding
      <4>3. Promised(server'[s], q)
        BY <3>3 DEF Locked, Bound
      <4>4. server'[s].proposal \in Proposal /\ ~Less(server'[s].proposal, q)
        BY <4>3 DEF Promised, Inductive, TypeOK, Server
      <4>5. ~Less(p, server'[s].proposal)
        BY <3>1, <3>5 DEF Blocked
      <4>6. ~Less(p, q)
        BY <4>1, <4>4, <4>5, LessTransitive
      <4> QED BY <3>3, <4>1, <4>6 DEF Locked, Followed
    <3> QED BY <3>5
  <2> QED BY <2>1, <2>2
<1> QED BY <1>1, <1>2, <1>3, <1>4, <1>5, <1>6, <1>7 DEF Decided

LEMMA InitDeciding == Init => Deciding
<1> SUFFICES ASSUME Init PROVE Deciding
  OBVIOUS
<1> DEFINE out == [w \in Nat |-> None]
<1>1. \A c \in Clients : client[c].pc = "idle" /\ client[c].unavailable = {}
  BY DEF Init, Idle
<1>2. \A s \in Servers : ~Confirmed(server[s])
  BY DEF Init, NewServer, Confirmed
<1>3. out \in Outcomes /\ \A w \in Nat : out[w] = None
  BY DEF Outcomes
<1> HIDE DEF out
<1>4. Decided(out)
  BY <1>1, <1>2, <1>3 DEF Decided, Clear, Init
<1>5. Holding
  BY <1>1 DEF Holding, Clear
<1> QED BY <1>3, <1>4, <1>5 DEF Deciding

\* The outcomes may be taken to tell what the clients are about to confirm.
LEMMA DecideAll ==
  ASSUME Steady, Inductive, Voting, Deciding, NEW c
  PROVE  \E out \in Outcomes :
           /\ Decided(out)
           /\ c \in Clients /\ client[c].pc = "accept" /\ client[c].waiting = {} =>
                out[client[c].version] = Submission(c)
BY DecideNow DEF Deciding

LEMMA NextDeciding ==
  ASSUME Steady
  PROVE  Inductive /\ Voting /\ Validity /\ Deciding /\ [Next]_vars => Deciding'
<1> SUFFICES ASSUME Inductive, Voting, Validity, Deciding, [Next]_vars PROVE Deciding'
  OBVIOUS
<1>1. Inductive' /\ ServersKept
  BY NextInductive
<1>2. Voting'
  BY NextVoting DEF Steady
<1>3. PICK c : Moves(c)
  BY StepMoves
<1>4. Holding /\ (\A d \in Clients : Advances(d)) /\ Returns
  BY StepAdvances DEF Deciding, Holding
<1>5. Holding'
  BY <1>1, <1>2, <1>3, <1>4, HoldingKept
<1>6. PICK out \in Outcomes :
        /\ Decided(out)
        /\ c \in Clients /\ client[c].pc = "accept" /\ client[c].waiting = {} =>
             out[client[c].version] = Submission(c)
  BY DecideAll
<1>7. Decided(out)'
  BY <1>1, <1>2, <1>3, <1>4, <1>6, DecidedKept
<1> QED BY <1>5, <1>7 DEF Deciding

\* Deciding holds: AgreementProofs draws the theorems from it.
LEMMA DecidingHolds ==
  ASSUME Steady
  PROVE  Spec => []Deciding
<1>1. Spec => []Voting
  BY VotingHolds DEF Steady
<1> QED BY <1>1, InitDeciding, NextDeciding, InductiveHolds, ValidityHolds, PTL DEF Spec

=============================================================================
