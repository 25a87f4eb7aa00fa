---------------------------- MODULE AgreementProofs --------------------------
(***************************************************************************)
(* choose() is consensus, version by version, get() is never behind what   *)
(* choose() had returned, and what a server confirmed stays, when every    *)
(* peer can be reached and no quorum is elected (Reliable). None of these  *)
(* holds if peers may be out of reach: a client that does not hear from    *)
(* one may be told of an old value by the others.                          *)
(*                                                                         *)
(* Reading says that a version is asked for only once all the servers have *)
(* got to the one before, and that one of them at least answers get() with *)
(* that one or with a later one.                                           *)
(***************************************************************************)
EXTENDS AthenaPaxosProofs, FiniteSetTheorems

\* The provers each leaf is tried with in turn, and the seconds each is given.
USE ZenonT(3), SMTT(30), ZenonT(30)

\* Every peer can be reached, and there is one quorum.
Reliable == MaxOutages = 0 /\ Elections = {}

\* The majorities of one quorum intersect.
LEMMA MajoritiesIntersect ==
  ASSUME Elections = {}
  PROVE  Intersecting
<1> SUFFICES ASSUME NEW m \in SUBSET Servers, NEW n \in SUBSET Servers,
                    Majority(m, Servers), Majority(n, Servers)
             PROVE  m \cap n # {}
  BY DEF Intersecting, Quora
<1>1. /\ Cardinality(Servers) \in Nat /\ Cardinality(m) \in Nat /\ Cardinality(n) \in Nat
  BY QuorumAssumption, FS_Subset, FS_CardinalityType
<1>2. Cardinality(m) + Cardinality(n) > Cardinality(Servers)
  BY <1>1 DEF Majority
<1> QED BY <1>2, QuorumAssumption, FS_MajoritiesIntersect

LEMMA ReliableSteady ==
  ASSUME Reliable
  PROVE  Steady
BY MajoritiesIntersect DEF Reliable, Steady

-----------------------------------------------------------------------------
(* What Deciding shows.                                                    *)

\* Two calls to choose() never return different values for a version (Client.hxx choose),
\* for any servers, clients, shared ids and crashes, as long as every peer can be reached
\* and no quorum is elected.
THEOREM AgreementHolds ==
  ASSUME Reliable
  PROVE  Spec => []Agreement
<1>1. Deciding => Agreement
  BY DEF Deciding, Decided, Agreement
<1>2. Spec => []Deciding
  BY ReliableSteady, DecidingHolds
<1> QED BY <1>1, <1>2, PTL

\* Under the same conditions what a server confirmed is not replaced by another value of
\* the same version, which the FIXME of Server.hxx accept wonders about.
THEOREM ConfirmedIsFinalHolds ==
  ASSUME Reliable
  PROVE  Spec => ConfirmedIsFinal
<1> DEFINE Final == \A s \in Servers :
             /\ Confirmed(server[s])
             /\ server[s]'.accepted # None
             /\ server[s]'.accepted.proposal.version
                  = server[s].accepted.proposal.version
             => server[s]'.accepted.value = server[s].accepted.value
<1>1. Inductive /\ Voting /\ Validity /\ Deciding /\ [Next]_vars => [Final]_vars
  <2> SUFFICES ASSUME Inductive, Voting, Validity, Deciding, [Next]_vars PROVE Final
    OBVIOUS
  <2>1. PICK c : Moves(c)
    BY StepMoves
  <2>2. PICK out \in Outcomes : Decided(out)
    BY DEF Deciding
  <2> QED BY <2>1, <2>2, ConfirmedKept DEF Moves
<1>2. Steady /\ Intersecting
  BY ReliableSteady DEF Steady
<1>3. (Spec => []Voting) /\ (Spec => []Deciding)
  BY <1>2, VotingHolds, DecidingHolds
<1> QED BY <1>1, <1>3, InductiveHolds, ValidityHolds, PTL
        DEF Spec, ConfirmedIsFinal

-----------------------------------------------------------------------------
(* Reads, under the same conditions.                                       *)

\* Once version w is over, every server has got to it, and one informs of it.
Past(srv, w) ==
  /\ \A s \in Servers : srv[s].proposal # None /\ srv[s].proposal.version >= w
  /\ \E s \in Servers : Informs(srv[s], w)

\* Version w may be asked for.
Opened(srv, w) == w \in 0..MaxVersion /\ (w > 0 => Past(srv, w - 1))

\* What a peer answered is about versions that may be, and is over if confirmed.
Sound(srv, r) ==
  r # None =>
    /\ r.proposal # None => Opened(srv, r.proposal.version)
    /\ r.value # None /\ r.confirmed => Past(srv, r.proposal.version)

\* So are the version client k is about and what it was answered.
Tracks(srv, k) ==
  k.pc # "idle" =>
    Opened(srv, k.version) /\ \A s \in Servers : Sound(srv, k.responses[s])

\* What was chosen when get() began is still to be heard of, or has been.
Finds(srv, k) ==
  k.pc \in {"get", "returned"} =>
    /\ k.quorum = Servers
    /\ k.pc = "returned" => k.waiting = {}
    /\ \A ch \in k.before :
         \/ \E s \in k.waiting : Informs(srv[s], ch.version)
         \/ k.best # None /\ k.best.proposal.version >= ch.version

\* The versions that are asked for may be, and those that were returned are over.
Reading ==
  /\ \A s \in Servers :
       /\ server[s].quorum = Servers
       /\ server[s].proposal # None => Opened(server, server[s].proposal.version)
       /\ server[s].accepted # None => Opened(server, server[s].accepted.proposal.version)
  /\ \A m \in late : m.quorum = Servers /\ Opened(server, m.proposal.version)
  /\ \A c \in Clients : Tracks(server, client[c])
  /\ \A c \in Clients : client[c].pc = "confirm" /\ client[c].waiting # Servers =>
       Past(server, client[c].version)
  /\ \A ch \in choices : ch.version \in 0..MaxVersion /\ Past(server, ch.version)
  /\ \A r \in Readers : Finds(server, reader[r])

\* Servers have one quorum as long as no other is elected.
LEMMA ServersOneQuorum ==
  ASSUME Steady, Inductive, Voting, Provenance, Reading
  PROVE  \A s \in Servers : OneQuorum(server[s])
<1>1. submitted \subseteq Values
  BY DEF Voting, Steady
<1>2. \A s \in Servers : server[s] \in Server /\ Coherent(server[s])
  BY DEF Inductive, TypeOK, AcceptedUnderPromise
<1> QED BY <1>1, <1>2 DEF OneQuorum, Reading, Provenance, Holds

\* The versions before one that is over are too.
LEMMA PastBefore ==
  ASSUME Inductive, NEW v \in Nat, NEW w \in Nat, w =< v, Past(server, v)
  PROVE  Past(server, w)
<1>1. \A s \in Servers :
        server[s].proposal # None => server[s].proposal.version \in Nat
  BY ProposalFields DEF Inductive, TypeOK, Server
<1>2. PICK s \in Servers : Informs(server[s], v)
  BY DEF Past
<1>3. server[s].proposal # None /\ server[s].proposal.version \in Nat
  BY <1>1, <1>2 DEF Informs
<1>4. Informs(server[s], w)
  BY <1>2, <1>3 DEF Informs
<1>5. \A t \in Servers : server[t].proposal # None /\ server[t].proposal.version >= w
  BY <1>1 DEF Past
<1> QED BY <1>4, <1>5 DEF Past

\* The requests in flight are for versions that may be asked for.
LEMMA InFlightOpened ==
  ASSUME Steady, Inductive, Voting, Reading, NEW m \in InFlight
  PROVE  m.quorum = Servers /\ Opened(server, m.proposal.version)
<1>1. CASE m \in late
  BY <1>1 DEF Reading
<1>2. ASSUME NEW c \in Clients, NEW s \in client[c].waiting, m = Call(c, s)
      PROVE  m.quorum = Servers /\ Opened(server, m.proposal.version)
  <2>1. client[c].pc # "idle"
    BY DEF Inductive, Established
  <2>2. client[c].quorum = Servers
    BY <2>1 DEF Voting, Quora, Steady
  <2>3. m.quorum = client[c].quorum /\ m.proposal.version = client[c].version
    BY <1>2 DEF Call, Current
  <2> QED BY <2>1, <2>2, <2>3 DEF Reading, Tracks
<1> QED BY <1>1, <1>2 DEF InFlight, Calls

\* Servers inform of no less as they go.
LEMMA InformsKept ==
  ASSUME Steady, Inductive, Voting, Provenance, Reading,
         UNCHANGED server \/ \E m \in InFlight : Handle(m)
  PROVE  \A s \in Servers :
           /\ server'[s].quorum = Servers
           /\ \A w \in Nat : Informs(server[s], w) => Informs(server'[s], w)
           /\ server'[s].proposal # None => Opened(server, server'[s].proposal.version)
           /\ server'[s].accepted # None => Opened(server, server'[s].accepted.proposal.version)
<1> SUFFICES ASSUME NEW s \in Servers
             PROVE  /\ server'[s].quorum = Servers
                    /\ \A w \in Nat : Informs(server[s], w) => Informs(server'[s], w)
                    /\ server'[s].proposal # None => Opened(server, server'[s].proposal.version)
                    /\ server'[s].accepted # None =>
                         Opened(server, server'[s].accepted.proposal.version)
  OBVIOUS
<1> DEFINE t == server[s]
           u == server'[s]
<1>1. /\ t.quorum = Servers /\ OneQuorum(t) /\ t \in Server /\ Coherent(t)
      /\ t.proposal # None => Opened(server, t.proposal.version)
      /\ t.accepted # None => Opened(server, t.accepted.proposal.version)
  BY ServersOneQuorum DEF Reading, OneQuorum
<1>2. CASE u = t
  BY <1>1, <1>2
<1>3. ASSUME NEW m \in InFlight, Handle(m), s = m.server
      PROVE  /\ u.quorum = Servers
             /\ \A w \in Nat : Informs(t, w) => Informs(u, w)
             /\ u.proposal # None => Opened(server, u.proposal.version)
             /\ u.accepted # None => Opened(server, u.accepted.proposal.version)
  <2>1. /\ m.proposal \in Proposal /\ Prepared(m) /\ u = Handled(m)
        /\ m.type \in {"propose", "accept", "confirm"} /\ m \in Request
    BY <1>3, InFlightPrepared DEF Request, Handle, Inductive, TypeOK
  <2>2. m.quorum = Servers /\ Opened(server, m.proposal.version)
    BY InFlightOpened
  <2>3. m.proposal.version \in Nat /\ (t.proposal # None => t.proposal.version \in Nat)
    BY <1>1, <2>1, ProposalFields DEF Server
  <2>4. CASE m.type = "propose"
    <3>1. u = ProposeState(t, m.quorum, m.proposal)
      BY <1>3, <2>1, <2>4 DEF Handled
    <3>2. t.proposal # None => m.proposal.version =< t.proposal.version + 1
      <4>1. CASE m.proposal.version = 0
        BY <2>3, <4>1
      <4>2. CASE m.proposal.version > 0
        <5>1. t.proposal # None => t.proposal.version >= m.proposal.version - 1
          BY <2>2, <4>2 DEF Opened, Past
        <5> QED BY <2>3, <5>1
      <4> QED BY <2>3, <4>1, <4>2
    <3>3. /\ u.quorum = Servers /\ u.proposal \in {t.proposal, m.proposal}
          /\ \A w \in Nat : Informs(t, w) => Informs(u, w)
      BY <1>1, <2>1, <3>1, <3>2, ProposeInforms
    <3>4. u.accepted \in {None, t.accepted}
      BY <1>1, <2>1, <3>1, ProposeAccepted
    <3> QED BY <1>1, <2>2, <3>3, <3>4
  <2>5. CASE m.type = "accept"
    <3>1. u = AcceptState(t, m.quorum, m.proposal, m.value) /\ m.value \in Value
      BY <1>3, <2>1, <2>5 DEF Handled, Prepared, Request
    <3>2. /\ u.quorum = Servers /\ u.proposal = t.proposal
          /\ \A w \in Nat : Informs(t, w) => Informs(u, w)
      BY <1>1, <2>1, <3>1, AcceptInforms
    <3>3. \/ u = t
          \/ u.accepted = [proposal |-> m.proposal, value |-> m.value, confirmed |-> Confirmed(t)]
      BY <1>1, <2>1, <3>1, AcceptAccepted
    <3> QED BY <1>1, <2>2, <3>2, <3>3
  <2>6. CASE m.type = "confirm"
    <3>1. u = ConfirmState(t, Servers, m.proposal)
      BY <1>3, <2>1, <2>2, <2>6 DEF Handled
    <3>2. /\ u.quorum = Servers /\ u.proposal = t.proposal
          /\ \A w \in Nat : Informs(t, w) => Informs(u, w)
      BY <1>1, <2>1, <3>1, ConfirmInforms
    <3>3. \/ u = t
          \/ t.accepted # None /\ u.accepted = [t.accepted EXCEPT !.confirmed = TRUE]
      BY <1>1, <2>1, <3>1, ConfirmAccepted
    <3>4. t.accepted # None => t.accepted \in Accepted
      BY <1>1 DEF Server
    <3>5. u.accepted # None => t.accepted # None /\ u.accepted.proposal = t.accepted.proposal
      BY <3>3, <3>4 DEF Accepted
    <3> QED BY <1>1, <3>2, <3>5
  <2> QED BY <2>1, <2>4, <2>5, <2>6
<1>4. u = t \/ \E m \in InFlight : Handle(m) /\ s = m.server
  BY InFlightPrepared DEF Handle, Inductive, TypeOK, Request
<1> QED BY <1>2, <1>3, <1>4

\* What is over stays so, and what may be asked for too.
LEMMA PastKept ==
  ASSUME Steady, Inductive, ServersKept, Voting, Provenance, Reading,
         UNCHANGED server \/ \E m \in InFlight : Handle(m)
  PROVE  /\ \A w \in Nat : Past(server, w) => Past(server', w)
         /\ \A w \in Nat : Opened(server, w) => Opened(server', w)
<1>1. ASSUME NEW s \in Servers, server[s].proposal # None
      PROVE  /\ server'[s].proposal # None
             /\ server'[s].proposal.version \in Nat /\ server[s].proposal.version \in Nat
             /\ server'[s].proposal.version >= server[s].proposal.version
  <2>1. Remembers(server[s], server'[s]) /\ server[s].proposal \in Proposal
    BY <1>1 DEF ServersKept, Inductive, TypeOK, Server
  <2>2. Promised(server[s], server[s].proposal)
    BY <1>1, <2>1, LessTotal DEF Promised
  <2>3. server'[s].proposal # None /\ ~Less(server'[s].proposal, server[s].proposal)
    BY <2>1, <2>2 DEF Remembers, Promised
  <2>4. server'[s].proposal \in Proposal
    BY <2>1, <2>3 DEF Remembers, Server
  <2> QED BY <2>1, <2>3, <2>4, LessTotal, ProposalFields
<1>2. ASSUME NEW w \in Nat, Past(server, w) PROVE Past(server', w)
  <2>1. ASSUME NEW s \in Servers
        PROVE  server'[s].proposal # None /\ server'[s].proposal.version >= w
    BY <1>1, <1>2 DEF Past
  <2>2. \E s \in Servers : Informs(server'[s], w)
    BY <1>2, InformsKept DEF Past
  <2> QED BY <2>1, <2>2 DEF Past
<1>3. ASSUME NEW w \in Nat, Opened(server, w) PROVE Opened(server', w)
  <2>1. w > 0 => w - 1 \in Nat
    OBVIOUS
  <2> QED BY <1>2, <1>3, <2>1 DEF Opened
<1> QED BY <1>2, <1>3

-----------------------------------------------------------------------------
(* What the clients are told, and what they return.                        *)

\* A version that a server confirmed is over.
LEMMA ConfirmedPast ==
  ASSUME Inductive, Deciding, NEW s \in Servers, Confirmed(server[s])
  PROVE  Past(server, server[s].accepted.proposal.version)
<1> DEFINE t == server[s]
           w == t.accepted.proposal.version
<1>1. t \in Server /\ Coherent(t) /\ t.accepted # None /\ t.accepted \in Accepted
  BY DEF Inductive, TypeOK, AcceptedUnderPromise, Confirmed, Server
<1>2. /\ t.proposal # None /\ t.proposal.version = w
      /\ w \in Nat /\ t.accepted.value # None
  <2>1. t.accepted.proposal \in Proposal /\ t.accepted.value \in Value
    BY <1>1 DEF Accepted
  <2>2. t.accepted.value # None
    BY <2>1, NoneAssumption DEF Value
  <2> QED BY <1>1, <2>1, <2>2, ProposalFields DEF Coherent, Confirmed
<1>3. PICK out \in Outcomes : Decided(out)
  BY DEF Deciding
<1>4. out[w] = t.accepted.value
  BY <1>3 DEF Decided
<1>5. PICK q \in Proposal : q.version = w /\ Locked(q, out[w])
  BY <1>2, <1>3, <1>4 DEF Decided
<1>6. ASSUME NEW x \in Servers
      PROVE  server[x].proposal # None /\ server[x].proposal.version >= w
  <2>1. Promised(server[x], q)
    BY <1>5 DEF Locked, Bound
  <2>2. server[x].proposal # None /\ server[x].proposal \in Proposal /\ ~Less(server[x].proposal, q)
    BY <2>1 DEF Promised, Inductive, TypeOK, Server
  <2> QED BY <1>5, <2>2, LessTotal
<1>7. Informs(t, w)
  BY <1>2 DEF Informs
<1> QED BY <1>6, <1>7 DEF Past

\* The answer to a proposal.
LEMMA AnswerSound ==
  ASSUME Inductive, Deciding, Reading, NEW s \in Servers, NEW q, NEW p \in Proposal,
         ProposeReply(server[s], q, p).type = "response"
  PROVE  Sound(server, ProposeReply(server[s], q, p))
<1> DEFINE t == server[s]
           u == Settle(t, p)
           r == ProposeReply(t, q, p)
<1>1. t \in Server /\ Coherent(t)
  BY DEF Inductive, TypeOK, AcceptedUnderPromise
<1>2. u.proposal \in {None, t.proposal}
  BY <1>1, SettleLemma
<1>3. r.proposal # None => Opened(server, r.proposal.version)
  <2>1. CASE Outdated(t, p)
    BY <2>1 DEF ProposeReply, Response, Outdated, Reading
  <2>2. CASE ~Outdated(t, p)
    <3>1. ~ProposeRefused(t, q, p)
      BY <2>2 DEF ProposeReply, WrongQuorum
    <3>2. r.proposal \in {None, u.proposal}
      <4> HIDE DEF u
      <4> QED BY <2>2, <3>1 DEF ProposeReply, Response, u
    <3> QED BY <1>2, <3>2 DEF Reading
  <2> QED BY <2>1, <2>2
<1>4. r.value # None /\ r.confirmed => Past(server, r.proposal.version)
  BY <1>1, ConfirmedAnswer, ConfirmedPast
<1> QED BY <1>3, <1>4 DEF Sound

\* A confirm that is answered.
LEMMA ConfirmPast ==
  ASSUME Steady, Inductive, ServersKept, Voting, Provenance, Deciding, Reading,
         NEW c \in Clients, NEW s \in Servers, Confirm(c, s),
         Reply(Call(c, s)).type = "done"
  PROVE  Past(server', client[c].version)
<1> DEFINE t == server[s]
           p == Current(c)
           w == client[c].version
<1>1. /\ s \in client[c].waiting /\ client[c].pc = "confirm" /\ Handle(Call(c, s))
      /\ t \in Server /\ p \in Proposal /\ server \in [Servers -> Server]
  BY CallKeeps DEF Confirm, Inductive, TypeOK
<1>2. p.version = w /\ w \in Nat
  BY <1>1, ProposalFields DEF Current
<1>3. client[c].quorum = Servers /\ client[c].unavailable = {}
  BY <1>1 DEF Voting, Quora, Steady, Deciding, Holding
<1>4. \A x \in Servers : Promised(server[x], p)
  BY <1>1, <1>3 DEF Inductive, Established
<1>5. ASSUME NEW x \in Servers
      PROVE  server'[x].proposal # None /\ server'[x].proposal.version >= w
  <2>1. Remembers(server[x], server'[x])
    BY DEF ServersKept
  <2>2. Promised(server'[x], p) /\ server'[x] \in Server
    BY <1>1, <1>4, <2>1 DEF Remembers
  <2>3. server'[x].proposal # None /\ server'[x].proposal \in Proposal /\ ~Less(server'[x].proposal, p)
    BY <2>2 DEF Promised, Server
  <2> QED BY <1>1, <1>2, <2>3, LessTotal
<1>6. Call(c, s) \in InFlight
  BY <1>1 DEF InFlight, Calls
<1>7. /\ server'[s] = ConfirmState(t, Servers, p)
      /\ ConfirmReply(t, Servers, p).type = "done"
  BY <1>1, <1>3 DEF Handle, Handled, Reply, Call
<1>8. t.proposal # None /\ t.proposal.version \in Nat
  BY <1>1, <1>4, ProposalFields DEF Promised, Server
<1>9. OneQuorum(t)
  BY ServersOneQuorum
<1>10. t.proposal.version > w \/ Informs(server'[s], w)
  BY <1>1, <1>2, <1>7, <1>8, <1>9, ConfirmInforms
<1>11. CASE t.proposal.version > w
  <2>1. Opened(server, t.proposal.version)
    BY <1>8 DEF Reading
  <2>2. Past(server, t.proposal.version - 1)
    BY <1>2, <1>8, <1>11, <2>1 DEF Opened
  <2>3. Past(server, w)
    BY <1>2, <1>8, <1>11, <2>2, PastBefore
  <2> QED BY <1>1, <1>2, <1>6, <2>3, PastKept
<1>12. CASE Informs(server'[s], w)
  BY <1>5, <1>12 DEF Past
<1> QED BY <1>10, <1>11, <1>12

\* What a step does to the versions a client is about.
Goes(c) ==
  /\ Tracks(server, client'[c])
  /\ client'[c].pc = "confirm" /\ client'[c].waiting # Servers =>
       Past(server', client'[c].version)

\* The ways choose() ends or goes on.
LEMMA EndsGo ==
  ASSUME Inductive, Reading, NEW c \in Clients, client[c].pc # "idle",
         client[c].quorum = Servers, client[c].unavailable = {},
         \/ Fail(c)
         \/ \E version, value : Return(c, version, value)
         \/ \E version, round, replace :
              Opened(server, version) /\ Retry(c, version, round, replace)
         \/ \E pc, replace : Proceed(c, pc, replace)
         \/ \E s \in client[c].waiting : \E r :
              /\ Sound(server, r)
              /\ client[c].pc = "confirm" => Past(server', client[c].version)
              /\ Answered(c, s, r)
  PROVE  OnlyMoves(c) /\ Goes(c)
<1>1. client[c] \in ClientState /\ client \in [Clients -> ClientState]
  BY DEF Inductive, TypeOK
<1>2. /\ Opened(server, client[c].version)
      /\ \A s \in Servers : Sound(server, client[c].responses[s])
  BY DEF Reading, Tracks
<1>3. \A s \in Servers : Sound(server, NoResponses[s])
  BY DEF Sound, NoResponses
<1>4. ASSUME client' = [client EXCEPT ![c] = Idle]
      PROVE  OnlyMoves(c) /\ Goes(c)
  <2>1. client'[c] = Idle /\ Idle.pc = "idle"
    BY <1>1, <1>4 DEF Idle
  <2>2. OnlyMoves(c)
    BY <1>1, <1>4 DEF OnlyMoves
  <2> QED BY <2>1, <2>2 DEF Goes, Tracks
<1>5. CASE Fail(c)
  BY <1>4, <1>5 DEF Fail
<1>6. ASSUME NEW version, NEW value, Return(c, version, value)
      PROVE  OnlyMoves(c) /\ Goes(c)
  BY <1>4, <1>6 DEF Return
<1>7. ASSUME NEW version, NEW round, NEW replace, Opened(server, version),
             Retry(c, version, round, replace)
      PROVE  OnlyMoves(c) /\ Goes(c)
  <2> DEFINE new == [client[c] EXCEPT !.pc = "propose", !.version = version, !.round = round,
                       !.replace = replace, !.waiting = client[c].quorum,
                       !.unavailable = {}, !.responses = NoResponses]
  <2>1. client' = [client EXCEPT ![c] = new]
    BY <1>7 DEF Retry
  <2>2. new.pc = "propose" /\ new.version = version /\ new.responses = NoResponses
    BY <1>1 DEF ClientState
  <2> HIDE DEF new
  <2>3. client'[c] = new /\ OnlyMoves(c)
    BY <1>1, <2>1 DEF OnlyMoves
  <2> QED BY <1>3, <1>7, <2>2, <2>3 DEF Goes, Tracks
<1>8. ASSUME NEW pc, NEW replace, Proceed(c, pc, replace)
      PROVE  OnlyMoves(c) /\ Goes(c)
  <2> DEFINE new == [client[c] EXCEPT !.pc = pc, !.replace = replace,
                       !.waiting = client[c].quorum \ client[c].unavailable,
                       !.responses = NoResponses]
  <2>1. client' = [client EXCEPT ![c] = new]
    BY <1>8 DEF Proceed
  <2>2. /\ new.version = client[c].version /\ new.responses = NoResponses
        /\ new.waiting = Servers
    BY <1>1 DEF ClientState
  <2> HIDE DEF new
  <2>3. client'[c] = new /\ OnlyMoves(c)
    BY <1>1, <2>1 DEF OnlyMoves
  <2> QED BY <1>2, <1>3, <2>2, <2>3 DEF Goes, Tracks
<1>9. ASSUME NEW s \in client[c].waiting, NEW r, Sound(server, r), Answered(c, s, r),
             client[c].pc = "confirm" => Past(server', client[c].version)
      PROVE  OnlyMoves(c) /\ Goes(c)
  <2> DEFINE new == [client[c] EXCEPT !.waiting = client[c].waiting \ {s},
                       !.responses = [client[c].responses EXCEPT ![s] = r]]
  <2>1. client' = [client EXCEPT ![c] = new]
    BY <1>1, <1>9 DEF Answered, ClientState
  <2>2. /\ new.pc = client[c].pc /\ new.version = client[c].version
        /\ \A x \in Servers : new.responses[x] = IF x = s THEN r ELSE client[c].responses[x]
    BY <1>1 DEF ClientState
  <2> HIDE DEF new
  <2>3. client'[c] = new /\ OnlyMoves(c)
    BY <1>1, <2>1 DEF OnlyMoves
  <2> QED BY <1>2, <1>9, <2>2, <2>3 DEF Goes, Tracks
<1> QED BY <1>5, <1>6, <1>7, <1>8, <1>9

LEMMA VersionsOpened ==
  ASSUME Inductive, Reading, NEW v \in Versions
  PROVE  Opened(server, v)
<1>1. v \in 0..MaxVersion /\ (v = 0 \/ \E ch \in choices : v =< ch.version + 1)
  BY DEF Versions
<1>2. ASSUME v > 0 PROVE Past(server, v - 1)
  <2>1. v \in Nat /\ v - 1 \in Nat
    BY <1>1, <1>2
  <2>2. PICK ch \in choices : v =< ch.version + 1
    BY <1>1, <1>2
  <2>3. ch.version \in Nat /\ Past(server, ch.version)
    BY DEF Inductive, TypeOK, Choice, Reading
  <2> QED BY <2>1, <2>2, <2>3, PastBefore
<1> QED BY <1>1, <1>2 DEF Opened

\* The steps of a client.
LEMMA StepGoes ==
  ASSUME Steady, Inductive, ServersKept, Voting, Provenance, Deciding, Reading, [Next]_vars
  PROVE  \A d \in Clients : Goes(d)
<1>0. client \in [Clients -> ClientState] /\ Validity
  BY DEF Inductive, TypeOK, Provenance
<1>1. ASSUME NEW d \in Clients, client'[d] = client[d] PROVE Goes(d)
  <2>1. UNCHANGED server \/ \E m \in InFlight : Handle(m)
    BY <1>0, StepMoves DEF Moves
  <2>2. client[d].version \in Nat
    BY <1>0 DEF ClientState
  <2> QED BY <1>1, <2>1, <2>2, PastKept DEF Goes, Reading
<1>2. ASSUME NEW c \in Clients, OnlyMoves(c) /\ Goes(c) PROVE \A d \in Clients : Goes(d)
  BY <1>1, <1>2 DEF OnlyMoves
<1>3. \A c \in Clients : client[c].pc # "idle" =>
        /\ client[c].quorum = Servers /\ client[c].unavailable = {}
        /\ Opened(server, client[c].version)
        /\ \A s \in Servers : Sound(server, client[c].responses[s])
  BY DEF Voting, Quora, Steady, Deciding, Holding, Reading, Tracks
<1>4. ASSUME NEW c \in Clients, NEW q \in Known, NEW version \in Versions,
             NEW value \in Values \union Elections, Choose(c, q, version, value)
      PROVE  \A d \in Clients : Goes(d)
  <2> DEFINE new == [Idle EXCEPT !.pc = "propose", !.quorum = q, !.version = version,
                       !.round = 1, !.value = value, !.waiting = q]
  <2>1. new.pc = "propose" /\ new.version = version /\ new.responses = NoResponses
    BY DEF Idle
  <2>2. client' = [client EXCEPT ![c] = new]
    BY <1>4 DEF Choose
  <2> HIDE DEF new
  <2>3. client'[c] = new /\ OnlyMoves(c)
    BY <1>0, <2>2 DEF OnlyMoves
  <2>4. Opened(server, version)
    BY VersionsOpened
  <2>5. Goes(c)
    BY <2>1, <2>3, <2>4 DEF Goes, Tracks, Sound, NoResponses
  <2> QED BY <1>2, <2>3, <2>5
<1>5. Sound(server, None)
  BY DEF Sound
<1>6. ASSUME NEW c \in Clients, NEW s \in Servers, Propose(c, s)
      PROVE  \A d \in Clients : Goes(d)
  <2>1. /\ s \in client[c].waiting /\ client[c].pc = "propose"
        /\ Reply(Call(c, s)) = ProposeReply(server[s], client[c].quorum, Current(c))
    BY <1>6 DEF Propose, Reply, Call
  <2>2. Current(c) \in Proposal
    BY <1>6, <2>1, CallKeeps DEF Propose
  <2>3. Reply(Call(c, s)).type = "response" => Sound(server, Reply(Call(c, s)))
    BY <2>1, <2>2, AnswerSound
  <2> QED BY <1>2, <1>3, <1>6, <2>1, <2>3, EndsGo DEF Propose
<1>7. ASSUME NEW c \in Clients, NEW s \in Servers, Accept(c, s)
      PROVE  \A d \in Clients : Goes(d)
  <2> DEFINE r == Reply(Call(c, s))
  <2>1. /\ s \in client[c].waiting /\ client[c].pc = "accept"
        /\ r = AcceptReply(server[s], client[c].quorum, Current(c))
    BY <1>7 DEF Accept, Reply, Call
  <2>2. r.type = "minimum" => Opened(server, r.proposal.version)
    <3>1. ASSUME r.type = "minimum" PROVE server[s].proposal # None /\ r.proposal = server[s].proposal
      BY <2>1, <3>1 DEF AcceptReply, AcceptUnannounced, WrongQuorum, Malicious
    <3> QED BY <3>1 DEF Reading
  <2> HIDE DEF r
  <2> QED BY <1>2, <1>3, <1>5, <1>7, <2>1, <2>2, EndsGo DEF Accept, r
<1>8. ASSUME NEW c \in Clients, NEW s \in Servers, Confirm(c, s)
      PROVE  \A d \in Clients : Goes(d)
  <2>1. s \in client[c].waiting /\ client[c].pc = "confirm"
    BY <1>8 DEF Confirm
  <2>2. Reply(Call(c, s)).type = "done" => Past(server', client[c].version)
    BY <1>8, ConfirmPast
  <2> QED BY <1>2, <1>3, <1>5, <1>8, <2>1, <2>2, EndsGo DEF Confirm
<1>9. ASSUME NEW c \in Clients, Elect(c)
      PROVE  \A d \in Clients : Goes(d)
  <2>1. client[c].pc = "propose"
    BY <1>9 DEF Elect
  <2>2. ASSUME NEW p \in {client[c].responses[s].proposal : s \in Highest(c, Proposed(c))}
        PROVE  Opened(server, p.version)
    BY <1>3, <2>1 DEF Highest, Proposed, Sound
  <2>3. \/ Fail(c)
        \/ \E version, value : Return(c, version, value)
        \/ \E version, round, replace :
             Opened(server, version) /\ Retry(c, version, round, replace)
        \/ \E pc, replace : Proceed(c, pc, replace)
    BY <1>3, <1>9, <2>1, <2>2 DEF Elect
  <2> QED BY <1>2, <1>3, <2>1, <2>3, EndsGo
<1>10. ASSUME NEW c \in Clients, EndRound(c) \/ Crash(c)
       PROVE  \A d \in Clients : Goes(d)
  <2>1. client[c].pc # "idle"
    BY <1>10 DEF EndRound, Crash
  <2>2. \/ Fail(c)
        \/ \E version, value : Return(c, version, value)
        \/ \E pc, replace : Proceed(c, pc, replace)
    BY <1>10 DEF EndRound, Crash
  <2> QED BY <1>2, <1>3, <2>1, <2>2, EndsGo
<1>11. ASSUME NEW c, NEW s \in Servers, Unreachable(c, s) \/ ReadUnreachable(c, s)
       PROVE  FALSE
  BY <1>11 DEF Unreachable, ReadUnreachable, Steady, Inductive, TypeOK
<1>12. UNCHANGED client => \A d \in Clients : Goes(d)
  BY <1>1
<1>13. ASSUME NEW r \in Readers,
              (\E q \in Known : Get(r, q)) \/ (\E s \in Servers : Read(r, s)) \/ EndGet(r)
       PROVE  UNCHANGED client
  BY <1>13 DEF Get, Read, EndGet
<1>14. ASSUME (\E m \in late : Deliver(m)) \/ UNCHANGED vars
       PROVE  UNCHANGED client
  BY <1>14 DEF Deliver, vars
<1> QED BY <1>4, <1>6, <1>7, <1>8, <1>9, <1>10, <1>11, <1>12, <1>13, <1>14 DEF Next, ClientStep

\* What choose() returns is over.
LEMMA ReturnsPast ==
  ASSUME Steady, Inductive, Voting, Deciding, Reading, Returns
  PROVE  \A ch \in choices' : ch.version \in 0..MaxVersion /\ Past(server, ch.version)
<1> SUFFICES ASSUME NEW ch \in choices'
             PROVE  ch.version \in 0..MaxVersion /\ Past(server, ch.version)
  OBVIOUS
<1>1. CASE ch \in choices
  BY <1>1 DEF Reading
<1>2. ASSUME NEW c \in Clients, client[c].pc = "confirm", Finished(c),
             ch.version = client[c].version
      PROVE  ch.version \in 0..MaxVersion /\ Past(server, ch.version)
  <2>1. client[c].quorum = Servers /\ client[c].unavailable = {}
    BY <1>2 DEF Voting, Quora, Steady, Deciding, Holding
  <2>2. client[c].waiting = {} /\ Majority(Servers \ {}, Servers)
    BY <1>2, <2>1 DEF Finished
  <2>3. Servers \ {} # {}
    BY <2>2, SomeInMajority DEF Steady, Quora
  <2>4. client[c].waiting # Servers
    BY <2>2, <2>3
  <2> QED BY <1>2, <2>4 DEF Reading, Tracks, Opened
<1>3. ASSUME NEW c \in Clients, client[c].pc = "propose", NEW s \in ConfirmedResponses(c),
             ch.version = client[c].responses[s].proposal.version
      PROVE  ch.version \in 0..MaxVersion /\ Past(server, ch.version)
  <2>1. /\ s \in Servers /\ client[c].responses[s] # None
        /\ client[c].responses[s].value # None /\ client[c].responses[s].confirmed
    BY DEF ConfirmedResponses, Valued
  <2>2. client[c].responses[s].proposal # None
    BY <2>1 DEF Inductive, Established
  <2>3. Sound(server, client[c].responses[s])
    BY <1>3, <2>1 DEF Reading, Tracks
  <2> QED BY <1>3, <2>1, <2>2, <2>3 DEF Sound, Opened
<1> QED BY <1>1, <1>2, <1>3 DEF Returns

-----------------------------------------------------------------------------
(* What get() is told.                                                     *)

\* A server asked with the quorum there is answers with what it informs of.
LEMMA GetInforms ==
  ASSUME NEW t, OneQuorum(t)
  PROVE  LET reply == GetReply(t, Servers)
         IN  /\ reply = [type |-> "value", accepted |-> CurrentValue(t)]
             /\ CurrentValue(t) # None => CurrentValue(t).proposal.version \in Int
             /\ \A w \in Nat : Informs(t, w) =>
                  CurrentValue(t) # None /\ CurrentValue(t).proposal.version >= w
<1>1. /\ t \in Server /\ Coherent(t) /\ t.quorum = Servers
      /\ t.accepted # None => t.accepted.value \in Values
  BY DEF OneQuorum
<1>2. CurrentQuorum(t) = Servers
  BY <1>1 DEF CurrentQuorum, ConfirmedQuorum, Confirmed, IsQuorum
<1>3. CurrentValue(t) # None => CurrentValue(t).proposal.version \in Int
  BY <1>1, GetAnswer DEF Reported
<1>4. ASSUME NEW w \in Nat, Informs(t, w)
      PROVE  CurrentValue(t) # None /\ CurrentValue(t).proposal.version >= w
  <2>1. t.proposal # None /\ t.proposal \in Proposal /\ t.proposal.version \in Nat
    BY <1>1, <1>4, ProposalFields DEF Informs, Server
  <2>2. CASE Confirmed(t)
    <3>1. CurrentValue(t) = t.accepted /\ t.accepted # None
      BY <1>1, <2>2 DEF CurrentValue, Confirmed, IsQuorum
    <3>2. t.accepted.proposal.version = t.proposal.version
      BY <1>1, <2>2, <3>1 DEF Coherent, Confirmed
    <3> QED BY <1>4, <2>1, <2>2, <3>1, <3>2 DEF Informs
  <2>3. CASE ~Confirmed(t)
    <3> DEFINE p == [version |-> t.proposal.version - 1, round |-> 0, sender |-> NullSender]
               a == [proposal |-> p, value |-> t.value, confirmed |-> TRUE]
    <3>1. t.value # None /\ t.proposal.version > w
      BY <1>4, <2>3 DEF Informs
    <3>2. p \in Reported /\ p # None
      BY <2>1, NoneAssumption DEF Reported
    <3>3. CurrentProposal(t) = p
      BY <2>1, <2>3, <3>1 DEF CurrentProposal
    <3>4. CurrentValue(t) = a
      BY <2>3, <3>1, <3>2, <3>3 DEF CurrentValue
    <3>5. a \in [proposal : Reported, value : Values, confirmed : {TRUE}]
      BY <1>1, <3>1, <3>2 DEF Server
    <3>6. a # None
      BY <3>5, ResponsesAssumption
    <3>7. a.proposal.version = t.proposal.version - 1
      OBVIOUS
    <3> HIDE DEF a
    <3> QED BY <2>1, <3>1, <3>4, <3>6, <3>7
  <2> QED BY <2>2, <2>3
<1> QED BY <1>2, <1>3, <1>4 DEF GetReply

\* A peer that answers get() is heard of.
LEMMA ReadFinds ==
  ASSUME Steady, Inductive, Voting, Provenance, Reading,
         NEW r \in Readers, NEW s \in Servers, Read(r, s)
  PROVE  Finds(server, reader'[r])
<1> DEFINE k == reader[r]
           a == CurrentValue(server[s])
           b == IF a # None /\ (k.best = None \/ Less(k.best.proposal, a.proposal))
                  THEN a ELSE k.best
<1>1. /\ k \in ReaderState /\ reader \in [Readers -> ReaderState] /\ OneQuorum(server[s])
      /\ Finds(server, k) /\ server[s] \in Server
  BY ServersOneQuorum DEF Inductive, TypeOK, Reading
<1>2. /\ a # None => a.proposal.version \in Int
      /\ k.best # None => k.best.proposal.version \in Int
      /\ \A w \in Nat : Informs(server[s], w) => a # None /\ a.proposal.version >= w
      /\ \A ch \in k.before : ch.version \in Nat
  BY <1>1, GetInforms DEF ReaderState, Reported, Choice
<1>3. CASE k.quorum = Servers /\ k.pc \in {"get", "returned"}
  <2>1. GetReply(server[s], k.quorum) = [type |-> "value", accepted |-> a]
    BY <1>1, <1>3, GetInforms
  <2>2. reader' = [reader EXCEPT ![r].waiting = @ \ {s}, ![r].best = b]
    BY <2>1 DEF Read
  <2>3. s \in k.waiting /\ k.pc = "get"
    BY <1>1, <1>3 DEF Read, Finds
  <2> HIDE DEF b
  <2>4. /\ reader'[r].pc = "get" /\ reader'[r].quorum = Servers
        /\ reader'[r].waiting = k.waiting \ {s} /\ reader'[r].best = b
        /\ reader'[r].before = k.before
    BY <1>1, <1>3, <2>2, <2>3 DEF ReaderState
  <2> HIDE DEF a
  <2>5. /\ k.best # None => b # None /\ b.proposal.version >= k.best.proposal.version
        /\ a # None => b # None /\ b.proposal.version >= a.proposal.version
        /\ b # None => b.proposal.version \in Int
    BY <1>2 DEF b, Less
  <2>6. ASSUME NEW ch \in k.before
        PROVE  \/ \E x \in k.waiting \ {s} : Informs(server[x], ch.version)
               \/ b # None /\ b.proposal.version >= ch.version
    <3>1. ch.version \in Nat
      BY <1>2
    <3>2. CASE Informs(server[s], ch.version)
      BY <1>2, <2>5, <3>1, <3>2
    <3>3. CASE k.best # None /\ k.best.proposal.version >= ch.version
      BY <1>2, <2>5, <3>1, <3>3
    <3> QED BY <1>1, <1>3, <3>2, <3>3 DEF Finds
  <2> QED BY <2>4, <2>6 DEF Finds
<1>4. CASE ~(k.quorum = Servers /\ k.pc \in {"get", "returned"})
  <2>1. k.pc \notin {"get", "returned"}
    BY <1>1, <1>4 DEF Finds
  <2>2. reader'[r].pc \in {k.pc, "failed"}
    <3>1. CASE reader' = [reader EXCEPT ![r].pc = "failed", ![r].waiting = {}]
      BY <1>1, <3>1 DEF ReaderState
    <3>2. ASSUME NEW w, reader' = [reader EXCEPT ![r].waiting = @ \ {s}, ![r].wrong = w]
          PROVE  reader'[r].pc = k.pc
      BY <1>1, <3>2 DEF ReaderState
    <3>3. ASSUME NEW x, reader' = [reader EXCEPT ![r].waiting = @ \ {s}, ![r].best = x]
          PROVE  reader'[r].pc = k.pc
      BY <1>1, <3>3 DEF ReaderState
    <3> QED BY <3>1, <3>2, <3>3 DEF Read
  <2> QED BY <2>1, <2>2 DEF Finds
<1> QED BY <1>3, <1>4

\* The other steps of get().
LEMMA GetFinds ==
  ASSUME Steady, Inductive, Voting, Provenance, Reading, NEW r \in Readers,
         (\E q \in Known : Get(r, q)) \/ EndGet(r)
  PROVE  Finds(server, reader'[r])
<1>1. reader[r] \in ReaderState /\ reader \in [Readers -> ReaderState] /\ Finds(server, reader[r])
  BY DEF Inductive, TypeOK, Reading
<1>2. ASSUME NEW q \in Known, Get(r, q)
      PROVE  Finds(server, reader'[r])
  <2>1. q = Servers
    <3>1. \A ch \in choices : ch.value \in Values
      BY DEF Provenance, Validity, Voting, Steady
    <3> QED BY <3>1 DEF Known, IsQuorum
  <2> DEFINE new == [reader[r] EXCEPT !.pc = "get", !.quorum = q, !.waiting = q,
                       !.before = choices]
  <2>2. reader' = [reader EXCEPT ![r] = new]
    BY <1>2 DEF Get
  <2>3. new.pc = "get" /\ new.quorum = q /\ new.waiting = q /\ new.before = choices
    BY <1>1 DEF ReaderState
  <2> HIDE DEF new
  <2>4. reader'[r] = new
    BY <1>1, <2>2
  <2> QED BY <2>1, <2>3, <2>4 DEF Finds, Reading, Past
<1>3. CASE EndGet(r)
  <2>1. PICK pc \in {"failed", "returned"} : reader' = [reader EXCEPT ![r].pc = pc]
    BY <1>3 DEF EndGet
  <2>2. /\ reader'[r].pc = pc /\ reader'[r].quorum = reader[r].quorum
        /\ reader'[r].waiting = reader[r].waiting /\ reader'[r].best = reader[r].best
        /\ reader'[r].before = reader[r].before
    BY <1>1, <2>1 DEF ReaderState
  <2>3. reader[r].pc = "get" /\ reader[r].waiting = {}
    BY <1>3 DEF EndGet
  <2> QED BY <1>1, <2>2, <2>3 DEF Finds
<1> QED BY <1>2, <1>3

LEMMA ReadersFind ==
  ASSUME Steady, Inductive, ServersKept, Voting, Provenance, Reading, [Next]_vars
  PROVE  \A r \in Readers : Finds(server', reader'[r])
<1>1. UNCHANGED server \/ \E m \in InFlight : Handle(m)
  BY StepMoves DEF Moves, Provenance
<1>2. ASSUME NEW r \in Readers, reader'[r] = reader[r] PROVE Finds(server', reader'[r])
  <2>1. /\ reader[r].waiting \subseteq Servers /\ Finds(server, reader[r])
        /\ \A ch \in reader[r].before : ch.version \in Nat
    <3>1. reader[r] \in ReaderState /\ Finds(server, reader[r])
      BY DEF Inductive, TypeOK, Reading
    <3> QED BY <3>1 DEF ReaderState, Choice
  <2>2. \A s \in Servers : \A w \in Nat : Informs(server[s], w) => Informs(server'[s], w)
    BY <1>1, InformsKept
  <2> QED BY <1>2, <2>1, <2>2 DEF Finds
<1>3. reader \in [Readers -> ReaderState]
  BY DEF Inductive, TypeOK
<1>4. ASSUME NEW r \in Readers,
             (\E q \in Known : Get(r, q)) \/ (\E s \in Servers : Read(r, s)) \/ EndGet(r)
      PROVE  \A x \in Readers : Finds(server', reader'[x])
  <2>1. Finds(server, reader'[r])
    BY <1>4, GetFinds, ReadFinds
  <2>2. UNCHANGED server
    BY <1>4 DEF Get, Read, EndGet
  <2>3. \A x \in Readers \ {r} : reader'[x] = reader[x]
    <3>1. CASE \E q \in Known : Get(r, q)
      BY <1>3, <3>1 DEF Get
    <3>2. CASE \E s \in Servers : Read(r, s)
      BY <1>3, <3>2 DEF Read
    <3>3. CASE EndGet(r)
      BY <1>3, <3>3 DEF EndGet
    <3> QED BY <1>4, <3>1, <3>2, <3>3
  <2> QED BY <1>2, <2>1, <2>2, <2>3
<1>5. ASSUME NEW c \in Clients, ClientStep(c) \/ Crash(c) PROVE UNCHANGED reader
  BY <1>5 DEF ClientStep, Crash, Propose, Accept, Confirm, Elect, EndRound
<1>6. ASSUME (\E c, q, version, value : Choose(c, q, version, value))
               \/ (\E m : Deliver(m)) \/ UNCHANGED vars
      PROVE  UNCHANGED reader
  BY <1>6 DEF Choose, Deliver, vars
<1>7. ASSUME NEW c, NEW s \in Servers, Unreachable(c, s) \/ ReadUnreachable(c, s)
      PROVE  FALSE
  BY <1>7 DEF Unreachable, ReadUnreachable, Steady, Inductive, TypeOK
<1> QED BY <1>2, <1>4, <1>5, <1>6, <1>7 DEF Next

LEMMA InitReading ==
  ASSUME Steady
  PROVE  Init => Reading
<1> SUFFICES ASSUME Init PROVE Reading
  OBVIOUS
<1>1. \A s \in Servers : /\ server[s].quorum = Servers /\ server[s].proposal = None
                         /\ server[s].accepted = None
  BY DEF Init, NewServer
<1>2. /\ \A c \in Clients : client[c].pc = "idle"
      /\ \A r \in Readers : reader[r].pc = "idle"
      /\ late = {} /\ choices = {}
  BY DEF Init, Idle, IdleReader
<1> QED BY <1>1, <1>2 DEF Reading, Tracks, Finds

LEMMA NextReading ==
  ASSUME Steady
  PROVE  Inductive /\ Voting /\ Provenance /\ Deciding /\ Reading /\ [Next]_vars => Reading'
<1> SUFFICES ASSUME Inductive, Voting, Provenance, Deciding, Reading, [Next]_vars
             PROVE  Reading'
  OBVIOUS
<1>1. Inductive' /\ ServersKept
  BY NextInductive
<1>2. PICK c : Moves(c)
  BY StepMoves DEF Provenance
<1>3. UNCHANGED server \/ \E m \in InFlight : Handle(m)
  BY <1>2 DEF Moves
<1>4. /\ \A w \in Nat : Past(server, w) => Past(server', w)
      /\ \A w \in Nat : Opened(server, w) => Opened(server', w)
  BY <1>1, <1>3, PastKept
<1>5. \A s \in Servers :
        /\ server'[s].quorum = Servers
        /\ server'[s].proposal # None => Opened(server', server'[s].proposal.version)
        /\ server'[s].accepted # None => Opened(server', server'[s].accepted.proposal.version)
  <2>1. \A s \in Servers :
          /\ server'[s].proposal # None => server'[s].proposal.version \in Nat
          /\ server'[s].accepted # None => server'[s].accepted.proposal.version \in Nat
    BY <1>1, ProposalFields DEF Inductive, TypeOK, Server, Accepted
  <2> QED BY <1>3, <1>4, <2>1, InformsKept
<1>6. \A m \in late' : m.quorum = Servers /\ Opened(server', m.proposal.version)
  <2>1. \A m \in late' : m \in InFlight /\ m.proposal.version \in Nat
    BY <1>2, InFlightPrepared, ProposalFields DEF Moves, Request
  <2> QED BY <1>4, <2>1, InFlightOpened
<1>7. \A d \in Clients : Goes(d)
  BY <1>1, StepGoes
<1>8. ASSUME NEW d \in Clients PROVE Tracks(server', client'[d])
  <2>1. Tracks(server, client'[d])
    BY <1>7 DEF Goes
  <2>2. /\ client'[d].version \in Nat
        /\ \A s \in Servers : LET r == client'[d].responses[s] IN
             r # None /\ r.proposal # None => r.proposal.version \in Nat
    BY <1>1, ProposalFields DEF Inductive, TypeOK, ClientState, Responses
  <2>3. \A s \in Servers : LET r == client'[d].responses[s] IN
          r # None /\ r.value # None => r.proposal # None
    BY <1>1 DEF Inductive, Established
  <2> QED BY <1>4, <2>1, <2>2, <2>3 DEF Tracks, Sound
<1>9. (\A d \in Clients : Advances(d)) /\ Returns
  BY StepAdvances DEF Deciding, Holding
<1>10. \A ch \in choices' : ch.version \in 0..MaxVersion /\ Past(server', ch.version)
  <2>1. \A ch \in choices' : ch.version \in Nat
    BY <1>1 DEF Inductive, TypeOK, Choice
  <2> QED BY <1>4, <1>9, <2>1, ReturnsPast
<1>11. \A r \in Readers : Finds(server', reader'[r])
  BY <1>1, ReadersFind
<1> QED BY <1>5, <1>6, <1>7, <1>8, <1>10, <1>11 DEF Reading, Goes

LEMMA ReadingHolds ==
  ASSUME Reliable
  PROVE  Spec => []Reading
<1>1. Steady /\ Intersecting
  BY ReliableSteady DEF Steady
<1>2. Init => Reading
  BY <1>1, InitReading
<1>3. Inductive /\ Voting /\ Provenance /\ Deciding /\ Reading /\ [Next]_vars => Reading'
  BY <1>1, NextReading
<1>4. (Spec => []Voting) /\ (Spec => []Deciding)
  BY <1>1, VotingHolds, DecidingHolds
<1> QED BY <1>2, <1>3, <1>4, InductiveHolds, ProvenanceHolds, PTL DEF Spec

\* get() never reports a version below one choose() had returned when it was called
\* (Client.hxx get and choose), under the same conditions.
THEOREM ReadVersionHolds ==
  ASSUME Reliable
  PROVE  Spec => []ReadVersion
<1>1. Reading => ReadVersion
  BY DEF Reading, Finds, ReadVersion, ChosenBefore
<1> QED BY <1>1, ReadingHolds, PTL

\* What a step submits and returns.
LEMMA StepKinds ==
  ASSUME [Next]_vars
  PROVE  \/ UNCHANGED <<submitted, choices>>
         \/ \E v \in Value : submitted' = submitted \union {v} /\ UNCHANGED choices
         \/ \E n, v : /\ choices' = choices \union {[version |-> n, value |-> v]}
                      /\ UNCHANGED submitted
<1>1. ASSUME NEW c, NEW q, NEW version, NEW value \in Values \union Elections,
             Choose(c, q, version, value)
      PROVE  \E v \in Value : submitted' = submitted \union {v} /\ UNCHANGED choices
  BY <1>1, QuorumAssumption DEF Choose, Value
<1>2. ASSUME NEW c, ClientStep(c) \/ Crash(c)
      PROVE  /\ UNCHANGED submitted
             /\ \/ UNCHANGED choices
                \/ \E n, v : choices' = choices \union {[version |-> n, value |-> v]}
  BY <1>2 DEF ClientStep, Crash, Propose, Accept, Confirm, Elect, EndRound, Answered, Fail,
       Retry, Proceed, Return
<1>3. ASSUME NEW c, NEW s, Unreachable(c, s) \/ ReadUnreachable(c, s) \/ Read(c, s) \/ EndGet(c)
      PROVE  UNCHANGED <<submitted, choices>>
  BY <1>3 DEF Unreachable, ReadUnreachable, Read, EndGet
<1>4. ASSUME NEW m, NEW q, Deliver(m) \/ Get(m, q) \/ UNCHANGED vars
      PROVE  UNCHANGED <<submitted, choices>>
  BY <1>4 DEF Deliver, Get, vars
<1> QED BY <1>1, <1>2, <1>3, <1>4 DEF Next

\* choose() implements consensus, version by version, on what is submitted to it
\* (Consensus), under the same conditions: a step submits a value, decides one, or is
\* not seen by the callers.
THEOREM ConsensusImplemented ==
  ASSUME Reliable
  PROVE  Spec => ImplementsConsensus
<1>1. Init => Promise!Init
  BY DEF Init, Promise!Init
<1>2. Inductive' /\ Agreement' /\ Validity' /\ Reading' /\ [Next]_vars => [Promise!Next]_(Promise!vars)
  <2> SUFFICES ASSUME Inductive', Agreement', Validity', Reading', [Next]_vars
               PROVE  [Promise!Next]_(Promise!vars)
    OBVIOUS
  <2>1. CASE UNCHANGED <<submitted, choices>>
    BY <2>1 DEF Promise!vars
  <2>2. ASSUME NEW v \in Value, submitted' = submitted \union {v}, UNCHANGED choices
        PROVE  Promise!Next
    BY <2>2 DEF Promise!Next, Promise!Submit
  <2>3. ASSUME NEW n, NEW v, choices' = choices \union {[version |-> n, value |-> v]},
               UNCHANGED submitted
        PROVE  Promise!Next
    <3> DEFINE new == [version |-> n, value |-> v]
    <3>1. new \in choices' /\ new.version = n /\ new.value = v
      BY <2>3
    <3>2. n \in 0..MaxVersion /\ v \in submitted
      BY <2>3, <3>1 DEF Reading, Validity
    <3>3. \A ch \in choices : ch.version = n => ch.value = v
      BY <2>3, <3>1 DEF Agreement
    <3>4. Promise!Decide(n, v)
      BY <2>3, <3>2, <3>3 DEF Promise!Decide
    <3>5. v \in Value
      BY <2>3, <3>2 DEF Inductive, TypeOK
    <3> QED BY <3>2, <3>4, <3>5 DEF Promise!Next
  <2> QED BY <2>1, <2>2, <2>3, StepKinds
<1> QED BY <1>1, <1>2, InductiveHolds, AgreementHolds, ValidityHolds, ReadingHolds, PTL
        DEF Spec, ImplementsConsensus, Promise!Spec
=============================================================================
