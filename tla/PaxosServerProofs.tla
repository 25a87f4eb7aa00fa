------------------------- MODULE PaxosServerProofs -------------------------
(* What the handlers of an athena server (PaxosServer) preserve.           *)
EXTENDS PaxosServer, TLAPS

\* The provers each leaf is tried with in turn, and the seconds each is given.
USE ZenonT(3), SMTT(30), ZenonT(30)

\* What s accepted is within its promise.
WithinPromise(s) ==
  s.accepted # None =>
    /\ s.proposal # None
    /\ ~Less(s.proposal, s.accepted.proposal)

\* Server t recalls all that s promised and accepted.
Recalls(s, t) ==
  /\ t \in Server
  /\ WithinPromise(t)
  /\ \A p \in Proposal : Promised(s, p) => Promised(t, p)
  /\ \A p \in Proposal :
       Promised(s, p) /\ AcceptedOrPast(s, p) => AcceptedOrPast(t, p)

\* Server t remembers all that s promised and accepted, and is coherent.
Remembers(s, t) ==
  /\ t \in Server
  /\ Coherent(t)
  /\ \A p \in Proposal : Promised(s, p) => Promised(t, p)
  /\ \A p \in Proposal :
       Promised(s, p) /\ AcceptedOrPast(s, p) => AcceptedOrPast(t, p)

-----------------------------------------------------------------------------
(* Proposals and their order.                                              *)

\* The fields of a proposal are numbers.
LEMMA ProposalFields ==
  ASSUME NEW p \in Proposal
  PROVE  p.version \in Nat /\ p.round \in Nat /\ p.sender \in Nat
BY SendersAssumption DEF Proposal

\* The order of proposals (Proposal::operator <) is total.
LEMMA LessTotal ==
  ASSUME NEW p \in Proposal, NEW q \in Proposal
  PROVE  /\ ~(Less(p, q) /\ Less(q, p))
         /\ ~Less(p, p)
         /\ ~Less(p, q) /\ ~Less(q, p) => p.version = q.version
         /\ ~Less(p, q) => p.version >= q.version
         /\ Less(p, q) => p.version =< q.version
<1>1. p.version \in Nat /\ p.round \in Nat /\ p.sender \in Nat
  BY ProposalFields
<1>2. q.version \in Nat /\ q.round \in Nat /\ q.sender \in Nat
  BY ProposalFields
<1> QED BY <1>1, <1>2 DEF Less

\* ... and transitive.
LEMMA LessTransitive ==
  ASSUME NEW p \in Proposal, NEW q \in Proposal, NEW r \in Proposal,
         ~Less(p, q), ~Less(q, r)
  PROVE  ~Less(p, r)
<1>1. p.version \in Nat /\ p.round \in Nat /\ p.sender \in Nat
  BY ProposalFields
<1>2. q.version \in Nat /\ q.round \in Nat /\ q.sender \in Nat
  BY ProposalFields
<1>3. r.version \in Nat /\ r.round \in Nat /\ r.sender \in Nat
  BY ProposalFields
<1> QED BY <1>1, <1>2, <1>3 DEF Less

\* A server that promised more than s, and still holds what s accepted unless
\* it is past that version, recalls s.
LEMMA RecallsBy ==
  ASSUME NEW s \in Server, NEW t \in Server, WithinPromise(t),
         s.proposal # None =>
           t.proposal # None /\ ~Less(t.proposal, s.proposal),
         s.proposal # None /\ s.accepted # None =>
           \/ t.proposal.version > s.accepted.proposal.version
           \/ /\ t.accepted # None
              /\ t.accepted.proposal.version = s.accepted.proposal.version
  PROVE  Recalls(s, t)
<1>1. \A p \in Proposal : Promised(s, p) => Promised(t, p)
  BY LessTransitive DEF Promised, Server
<1>2. ASSUME NEW p \in Proposal, Promised(s, p), AcceptedOrPast(s, p)
      PROVE  AcceptedOrPast(t, p)
  <2>1. /\ s.proposal \in Proposal /\ t.proposal \in Proposal
        /\ ~Less(t.proposal, s.proposal)
    BY <1>2 DEF Promised, Server
  <2>2. t.proposal.version >= s.proposal.version
    BY <2>1, LessTotal
  <2>3. p.version \in Nat /\ s.proposal.version \in Nat /\ t.proposal.version \in Nat
    BY <2>1, ProposalFields
  <2>4. CASE s.proposal.version > p.version
    BY <2>2, <2>3, <2>4 DEF AcceptedOrPast
  <2>5. CASE s.accepted # None /\ s.accepted.proposal.version = p.version
    BY <2>1, <2>5, NoneAssumption DEF AcceptedOrPast
  <2> QED BY <1>2, <2>4, <2>5 DEF AcceptedOrPast
<1> QED BY <1>1, <1>2 DEF Recalls

LEMMA CoherentWithin ==
  ASSUME NEW s, Coherent(s)
  PROVE  WithinPromise(s)
BY DEF Coherent, WithinPromise

LEMMA CoherentRemembers ==
  ASSUME NEW s, NEW t, Recalls(s, t), Coherent(t)
  PROVE  Remembers(s, t)
BY DEF Recalls, Remembers

-----------------------------------------------------------------------------
(* The handlers.                                                           *)

\* The reset done by propose leaves a server of the right type, with less to
\* remember only when p opens a later version.
LEMMA SettleWithin ==
  ASSUME NEW s \in Server, WithinPromise(s), NEW p \in Proposal
  PROVE  LET t == Settle(s, p)
         IN  /\ t \in Server
             /\ WithinPromise(t)
             /\ \/ t = s
                \/ /\ t.proposal = None /\ t.accepted = None
                   /\ s.proposal # None /\ p.version > s.proposal.version
             /\ t = s /\ t.accepted # None /\ ~t.partial =>
                  p.version =< s.proposal.version
<1>1. s.proposal # None => s.proposal \in Proposal
  BY DEF Server
<1>2. p.version \in Nat /\ (s.proposal # None => s.proposal.version \in Nat)
  BY <1>1, ProposalFields
<1>3. CASE CheckConfirmed(s, p) /\ s.proposal # None /\ p.version > s.proposal.version
  <2>1. Confirmed(s)
    BY <1>2, <1>3 DEF CheckConfirmed
  <2>2. s.accepted \in Accepted /\ s.accepted.value \in Value
    BY <2>1 DEF Confirmed, Server, Accepted
  <2>3. Settle(s, p) = Commit(s)
    BY <1>3 DEF Settle
  <2>4. Commit(s) \in Server /\ Commit(s).proposal = None /\ Commit(s).accepted = None
    BY <2>2 DEF Commit, Server, IsQuorum, Value
  <2> QED BY <1>3, <2>3, <2>4 DEF WithinPromise
<1>4. CASE CheckConfirmed(s, p) /\ ~(s.proposal # None /\ p.version > s.proposal.version)
  BY <1>2, <1>4 DEF Settle, WithinPromise
<1>5. CASE ~CheckConfirmed(s, p) /\ s.partial
  BY <1>5 DEF Settle
<1>6. CASE ~CheckConfirmed(s, p) /\ ~s.partial
  <2> DEFINE t == [s EXCEPT !.partial = TRUE, !.proposal = None, !.accepted = None]
  <2>1. Settle(s, p) = t
    BY <1>6 DEF Settle
  <2>2. t \in Server /\ t.proposal = None /\ t.accepted = None
    BY DEF Server
  <2>3. s.proposal # None /\ p.version > s.proposal.version
    BY <1>2, <1>6 DEF CheckConfirmed
  <2> QED BY <2>1, <2>2, <2>3 DEF WithinPromise
<1> QED BY <1>3, <1>4, <1>5, <1>6

\* ... and a coherent server coherent.
LEMMA SettleLemma ==
  ASSUME NEW s \in Server, Coherent(s), NEW p \in Proposal
  PROVE  LET t == Settle(s, p)
         IN  /\ t \in Server
             /\ Coherent(t)
             /\ \/ t = s
                \/ /\ t.proposal = None /\ t.accepted = None
                   /\ s.proposal # None /\ p.version > s.proposal.version
             /\ t = s /\ t.accepted # None /\ ~t.partial =>
                  p.version =< s.proposal.version
<1>1. WithinPromise(s)
  BY CoherentWithin
<1> QED BY <1>1, SettleWithin DEF Coherent

\* propose never forgets a promise, nor an acceptance of the version under
\* way.
LEMMA ProposeRecalls ==
  ASSUME NEW s \in Server, WithinPromise(s), NEW q, NEW p \in Proposal
  PROVE  Recalls(s, ProposeState(s, q, p))
<1> DEFINE t == Settle(s, p)
           u == ProposeState(s, q, p)
<1>1. /\ t \in Server /\ WithinPromise(t)
      /\ \/ t = s
         \/ /\ t.proposal = None /\ t.accepted = None
            /\ s.proposal # None /\ p.version > s.proposal.version
  BY SettleWithin
<1>2. s.proposal # None => s.proposal \in Proposal
  BY DEF Server
<1>3. p.version \in Nat /\ (s.proposal # None => s.proposal.version \in Nat)
  BY <1>2, ProposalFields
<1>4. CASE u = s
  BY <1>4, RecallsBy, LessTotal DEF Server
<1>5. CASE (t.proposal = None \/ Less(t.proposal, p)) /\ u = [t EXCEPT !.proposal = p]
  <2>1. u \in Server /\ u.proposal = p /\ u.accepted = t.accepted
    BY <1>1, <1>5 DEF Server
  <2>2. s.proposal # None => ~Less(p, s.proposal)
    <3>1. CASE t = s
      BY <1>2, <1>5, <3>1, LessTotal
    <3>2. CASE s.proposal # None /\ p.version > s.proposal.version
      BY <1>2, <1>3, <3>2, LessTotal
    <3> QED BY <1>1, <3>1, <3>2
  <2>3. CASE t = s /\ s.accepted # None
    <3>1. /\ s.accepted \in Accepted /\ s.accepted.proposal \in Proposal
          /\ s.proposal \in Proposal /\ ~Less(s.proposal, s.accepted.proposal)
      BY <1>2, <2>3 DEF WithinPromise, Server, Accepted
    <3>2. ~Less(p, s.accepted.proposal)
      BY <2>2, <3>1, LessTransitive, NoneAssumption
    <3>3. WithinPromise(u)
      BY <2>1, <2>3, <3>2, NoneAssumption DEF WithinPromise
    <3> QED BY <2>1, <2>2, <2>3, <3>3, RecallsBy, NoneAssumption
  <2>4. CASE t = s /\ s.accepted = None
    BY <2>1, <2>2, <2>4, RecallsBy, NoneAssumption DEF WithinPromise
  <2>5. CASE /\ t.proposal = None /\ t.accepted = None
             /\ s.proposal # None /\ p.version > s.proposal.version
    <3>1. WithinPromise(u)
      BY <2>1, <2>5 DEF WithinPromise
    <3>2. s.accepted # None => p.version > s.accepted.proposal.version
      <4> SUFFICES ASSUME s.accepted # None
                   PROVE  p.version > s.accepted.proposal.version
        OBVIOUS
      <4>1. /\ s.accepted.proposal \in Proposal
            /\ ~Less(s.proposal, s.accepted.proposal)
        BY DEF WithinPromise, Server, Accepted
      <4>2. s.accepted.proposal.version \in Nat
        BY <4>1, ProposalFields
      <4>3. s.proposal.version >= s.accepted.proposal.version
        BY <1>2, <2>5, <4>1, LessTotal
      <4> QED BY <1>3, <2>5, <4>2, <4>3
    <3> QED BY <2>1, <2>2, <3>1, <3>2, RecallsBy, NoneAssumption
  <2> QED BY <1>1, <2>3, <2>4, <2>5
<1>6. \/ u = s
      \/ (t.proposal = None \/ Less(t.proposal, p)) /\ u = [t EXCEPT !.proposal = p]
  BY <1>1 DEF ProposeState
<1> QED BY <1>4, <1>5, <1>6

\* ... and leaves a coherent server coherent.
LEMMA ProposeRemembers ==
  ASSUME NEW s \in Server, Coherent(s), NEW q, NEW p \in Proposal
  PROVE  Remembers(s, ProposeState(s, q, p))
<1> DEFINE t == Settle(s, p)
           u == ProposeState(s, q, p)
<1>1. /\ t \in Server /\ Coherent(t)
      /\ t = s \/ (t.proposal = None /\ t.accepted = None)
      /\ t = s /\ t.accepted # None /\ ~t.partial => p.version =< s.proposal.version
  BY SettleLemma
<1>2. Recalls(s, u) /\ WithinPromise(u)
  BY CoherentWithin, ProposeRecalls DEF Recalls
<1>3. CASE u = s
  BY <1>2, <1>3, CoherentRemembers
<1>4. CASE (t.proposal = None \/ Less(t.proposal, p)) /\ u = [t EXCEPT !.proposal = p]
  <2>1. u.proposal = p /\ u.accepted = t.accepted /\ u.partial = t.partial
    BY <1>1, <1>4 DEF Server
  <2>2. ASSUME s.accepted # None, t = s, ~s.partial
        PROVE  s.accepted.proposal.version = p.version
    <3>1. /\ s.proposal \in Proposal /\ Less(s.proposal, p)
          /\ s.accepted.proposal.version = s.proposal.version
          /\ p.version =< s.proposal.version
      BY <1>1, <1>4, <2>2 DEF Coherent, Server
    <3>2. s.proposal.version \in Nat /\ p.version \in Nat /\ s.proposal.version =< p.version
      BY <3>1, ProposalFields, LessTotal
    <3> QED BY <3>1, <3>2
  <2>3. Coherent(u)
    BY <1>1, <1>2, <2>1, <2>2 DEF Coherent, WithinPromise
  <2> QED BY <1>2, <2>3, CoherentRemembers
<1>5. \/ u = s
      \/ (t.proposal = None \/ Less(t.proposal, p)) /\ u = [t EXCEPT !.proposal = p]
  BY <1>1 DEF ProposeState
<1> QED BY <1>3, <1>4, <1>5

\* A server that answers a proposal promised it, or is past its version, and
\* the answer tells the proposal of the value it carries.
LEMMA ProposePromises ==
  ASSUME NEW s \in Server, WithinPromise(s), NEW q, NEW p \in Proposal,
         ProposeReply(s, q, p).type = "response"
  PROVE  LET r == ProposeReply(s, q, p)
         IN  /\ Promised(ProposeState(s, q, p), p)
             /\ r \in [type : {"response"}, proposal : Proposal \union {None},
                       value : Value \union {None}, confirmed : BOOLEAN]
             /\ r.value # None => r.proposal # None
<1> DEFINE t == Settle(s, p)
<1>1. t \in Server /\ WithinPromise(t)
  BY SettleWithin
<1>2. CASE Outdated(s, p)
  <2>1. /\ s.accepted \in Accepted /\ s.accepted.proposal \in Proposal
        /\ s.accepted.value \in Value /\ s.accepted.confirmed \in BOOLEAN
    BY <1>2 DEF Outdated, Server, Accepted
  <2>2. s.proposal \in Proposal /\ ~Less(s.proposal, s.accepted.proposal)
    BY <1>2 DEF Outdated, WithinPromise, Server
  <2>3. ~Less(s.accepted.proposal, p)
    <3>1. s.accepted.proposal.version \in Nat /\ p.version \in Nat
      BY <2>1, ProposalFields
    <3> QED BY <1>2, <3>1 DEF Outdated, Less
  <2>4. ~Less(s.proposal, p)
    BY <2>1, <2>2, <2>3, LessTransitive
  <2>5. ProposeState(s, q, p) = s
    BY <1>2 DEF ProposeState, ProposeRefused
  <2>6. ProposeReply(s, q, p) = Response(s.accepted.proposal, s.accepted.value,
                                         s.accepted.confirmed)
    BY <1>2 DEF ProposeReply
  <2> QED BY <2>1, <2>2, <2>4, <2>5, <2>6, NoneAssumption DEF Promised, Response
<1>3. CASE ~Outdated(s, p)
  <2>1. ~ProposeRefused(s, q, p)
    BY <1>3 DEF ProposeReply, WrongQuorum
  <2>2. Promised(ProposeState(s, q, p), p)
    <3>1. CASE t.proposal = None \/ Less(t.proposal, p)
      <4>1. ProposeState(s, q, p) = [t EXCEPT !.proposal = p]
        BY <2>1, <3>1 DEF ProposeState
      <4>2. [t EXCEPT !.proposal = p].proposal = p
        BY <1>1 DEF Server
      <4> QED BY <4>1, <4>2, LessTotal, NoneAssumption DEF Promised
    <3>2. CASE ~(t.proposal = None \/ Less(t.proposal, p))
      BY <2>1, <3>2 DEF ProposeState, Promised
    <3> QED BY <3>1, <3>2
  <2>3. CASE t.accepted # None
    <3>1. /\ t.accepted.value \in Value /\ t.accepted.confirmed \in BOOLEAN
          /\ t.proposal \in Proposal
      BY <1>1, <2>3 DEF Server, Accepted, WithinPromise
    <3>2. ProposeReply(s, q, p) = Response(t.proposal, t.accepted.value,
                                           t.accepted.confirmed)
      BY <1>3, <2>1, <2>3 DEF ProposeReply
    <3> QED BY <2>2, <3>1, <3>2, NoneAssumption DEF Response
  <2>4. CASE t.accepted = None
    <3>1. \E r \in Proposal \union {None} :
            ProposeReply(s, q, p) = Response(r, None, FALSE)
      BY <1>1, <1>3, <2>1, <2>4 DEF ProposeReply, Server
    <3> QED BY <2>2, <3>1 DEF Response
  <2> QED BY <2>3, <2>4
<1> QED BY <1>2, <1>3

LEMMA ProposeAnswer ==
  ASSUME NEW s \in Server, Coherent(s), NEW q, NEW p \in Proposal,
         ProposeReply(s, q, p).type = "response"
  PROVE  LET r == ProposeReply(s, q, p)
         IN  /\ Promised(ProposeState(s, q, p), p)
             /\ r \in [type : {"response"}, proposal : Proposal \union {None},
                       value : Value \union {None}, confirmed : BOOLEAN]
             /\ r.value # None => r.proposal # None
BY CoherentWithin, ProposePromises

\* accept changes what is accepted only under the very proposal promised.
LEMMA AcceptRecalls ==
  ASSUME NEW s \in Server, WithinPromise(s), NEW q, NEW p \in Proposal,
         NEW v \in Value
  PROVE  /\ Recalls(s, AcceptState(s, q, p, v))
         /\ LET r == AcceptReply(s, q, p) IN
              r.type = "minimum" =>
                /\ r.proposal \in Proposal
                /\ ~Less(p, r.proposal) =>
                     AcceptedOrPast(AcceptState(s, q, p, v), p)
<1> DEFINE u == AcceptState(s, q, p, v)
           new == [proposal |-> p, value |-> v, confirmed |-> Confirmed(s)]
<1>1. Confirmed(s) \in BOOLEAN
  BY DEF Confirmed, Server, Accepted
<1>2. ASSUME u = s PROVE Recalls(s, u)
  BY <1>2, RecallsBy, LessTotal DEF Server
<1>3. ASSUME u = [s EXCEPT !.accepted = new],
             s.proposal # None, ~Less(s.proposal, p), ~Less(p, s.proposal)
      PROVE  Recalls(s, u)
  <2>1. new \in Accepted /\ new # None /\ new.proposal = p /\ new.confirmed = Confirmed(s)
    BY <1>1, NoneAssumption DEF Accepted
  <2>2. /\ u \in Server /\ u.accepted = new /\ u.proposal = s.proposal
    BY <1>3, <2>1 DEF Server
  <2>3. s.proposal \in Proposal /\ p.version = s.proposal.version
    BY <1>3, LessTotal DEF Server
  <2>4. WithinPromise(u)
    BY <1>3, <2>1, <2>2, <2>3 DEF WithinPromise
  <2>5. s.accepted # None =>
          \/ u.proposal.version > s.accepted.proposal.version
          \/ u.accepted.proposal.version = s.accepted.proposal.version
    <3> SUFFICES ASSUME s.accepted # None
                 PROVE  \/ s.proposal.version > s.accepted.proposal.version
                        \/ p.version = s.accepted.proposal.version
      BY <2>1, <2>2
    <3>1. /\ s.accepted.proposal \in Proposal
          /\ ~Less(s.proposal, s.accepted.proposal)
      BY DEF WithinPromise, Server, Accepted
    <3>2. s.accepted.proposal.version \in Nat /\ s.proposal.version \in Nat
      BY <2>3, <3>1, ProposalFields
    <3>3. s.proposal.version >= s.accepted.proposal.version
      BY <2>3, <3>1, LessTotal
    <3> QED BY <2>3, <3>2, <3>3
  <2> QED BY <2>1, <2>2, <2>3, <2>4, <2>5, LessTotal, RecallsBy
<1>4. u = s \/ /\ u = [s EXCEPT !.accepted = new]
               /\ s.proposal # None /\ ~Less(s.proposal, p) /\ ~Less(p, s.proposal)
  BY DEF AcceptState, AcceptUnannounced
<1>5. ASSUME AcceptReply(s, q, p).type = "minimum"
      PROVE  /\ AcceptReply(s, q, p).proposal \in Proposal
             /\ ~Less(p, AcceptReply(s, q, p).proposal) =>
                  u = [s EXCEPT !.accepted = new]
  BY <1>5 DEF AcceptReply, AcceptState, AcceptUnannounced, WrongQuorum,
              Malicious, Server
<1>6. u = [s EXCEPT !.accepted = new] => AcceptedOrPast(u, p)
  BY <1>1, NoneAssumption DEF AcceptedOrPast, Server, Accepted
<1> QED BY <1>2, <1>3, <1>4, <1>5, <1>6

\* ... and leaves a coherent server coherent.
LEMMA AcceptRemembers ==
  ASSUME NEW s \in Server, Coherent(s), NEW q, NEW p \in Proposal,
         NEW v \in Value
  PROVE  /\ Remembers(s, AcceptState(s, q, p, v))
         /\ LET r == AcceptReply(s, q, p) IN
              r.type = "minimum" =>
                /\ r.proposal \in Proposal
                /\ ~Less(p, r.proposal) =>
                     AcceptedOrPast(AcceptState(s, q, p, v), p)
<1> DEFINE u == AcceptState(s, q, p, v)
           new == [proposal |-> p, value |-> v, confirmed |-> Confirmed(s)]
<1>1. /\ Recalls(s, u) /\ WithinPromise(u)
      /\ LET r == AcceptReply(s, q, p) IN
           r.type = "minimum" =>
             r.proposal \in Proposal /\ (~Less(p, r.proposal) => AcceptedOrPast(u, p))
  BY CoherentWithin, AcceptRecalls DEF Recalls
<1>2. u = s \/ /\ u = [s EXCEPT !.accepted = new]
               /\ s.proposal # None /\ ~Less(s.proposal, p) /\ ~Less(p, s.proposal)
  BY DEF AcceptState, AcceptUnannounced
<1>3. ASSUME u = [s EXCEPT !.accepted = new],
             s.proposal # None, ~Less(s.proposal, p), ~Less(p, s.proposal)
      PROVE  Coherent(u)
  <2>1. u.accepted = new /\ u.proposal = s.proposal /\ u.partial = s.partial
    BY <1>3 DEF Server
  <2>2. p.version = s.proposal.version
    BY <1>3, LessTotal DEF Server
  <2>3. s.partial => ~Confirmed(s)
    BY DEF Coherent, Confirmed
  <2> QED BY <1>1, <1>3, <2>1, <2>2, <2>3 DEF Coherent
<1>4. Remembers(s, u)
  BY <1>1, <1>2, <1>3, CoherentRemembers
<1> QED BY <1>1, <1>4

\* confirm changes nothing that was promised or accepted.
LEMMA ConfirmRecalls ==
  ASSUME NEW s \in Server, WithinPromise(s), NEW q \in Quorums, NEW p \in Proposal
  PROVE  Recalls(s, ConfirmState(s, q, p))
<1> DEFINE u == ConfirmState(s, q, p)
           new == [s.accepted EXCEPT !.confirmed = TRUE]
<1>1. CASE u = s
  BY <1>1, RecallsBy, LessTotal DEF Server
<1>2. CASE /\ s.accepted # None
           /\ u = [s EXCEPT !.accepted.confirmed = TRUE,
                            !.quorum = IF s.partial THEN q ELSE @,
                            !.partial = FALSE]
  <2>1. s.accepted \in Accepted
    BY <1>2 DEF Server
  <2>2. new \in Accepted /\ new # None /\ new.proposal = s.accepted.proposal
    BY <2>1, NoneAssumption DEF Accepted
  <2>3. u \in Server /\ u.accepted = new /\ u.proposal = s.proposal
    BY <1>2, <2>1, <2>2 DEF Server
  <2>4. WithinPromise(u) /\ s.proposal \in Proposal
    BY <1>2, <2>2, <2>3 DEF WithinPromise, Server
  <2> QED BY <2>2, <2>3, <2>4, LessTotal, RecallsBy, NoneAssumption
<1>3. \/ u = s
      \/ /\ s.accepted # None
         /\ u = [s EXCEPT !.accepted.confirmed = TRUE,
                          !.quorum = IF s.partial THEN q ELSE @,
                          !.partial = FALSE]
  BY DEF ConfirmState, ConfirmUnannounced
<1> QED BY <1>1, <1>2, <1>3

\* ... and leaves a coherent server coherent, if its client proposed and was
\* accepted.
LEMMA ConfirmRemembers ==
  ASSUME NEW s \in Server, Coherent(s), NEW q \in Quorums, NEW p \in Proposal,
         Promised(s, p), AcceptedOrPast(s, p)
  PROVE  Remembers(s, ConfirmState(s, q, p))
<1> DEFINE u == ConfirmState(s, q, p)
           new == [s.accepted EXCEPT !.confirmed = TRUE]
<1>1. Recalls(s, u) /\ WithinPromise(u)
  BY CoherentWithin, ConfirmRecalls DEF Recalls
<1>2. CASE u = s
  BY <1>1, <1>2, CoherentRemembers
<1>3. CASE /\ ~ConfirmObsolete(s, p) /\ s.accepted # None
           /\ u = [s EXCEPT !.accepted.confirmed = TRUE,
                            !.quorum = IF s.partial THEN q ELSE @,
                            !.partial = FALSE]
  <2>1. s.accepted \in Accepted /\ s.proposal \in Proposal
    BY <1>3 DEF Server, Promised
  <2>2. new.proposal = s.accepted.proposal
    BY <2>1 DEF Accepted
  <2>3. u.accepted = new /\ u.proposal = s.proposal /\ u.partial = FALSE
    BY <1>3, <2>1, <2>2 DEF Server
  <2>4. s.proposal.version \in Nat /\ p.version \in Nat
    BY <2>1, ProposalFields
  <2>5. s.proposal.version >= p.version /\ ~(p.version < s.proposal.version)
    BY <1>3, <2>1, LessTotal, NoneAssumption DEF Promised, ConfirmObsolete
  <2>6. new.proposal.version = s.proposal.version
    BY <1>3, <2>2, <2>4, <2>5 DEF AcceptedOrPast
  <2>7. Coherent(u)
    BY <1>1, <2>3, <2>6 DEF Coherent, WithinPromise
  <2> QED BY <1>1, <2>7, CoherentRemembers
<1>4. \/ u = s
      \/ /\ ~ConfirmObsolete(s, p) /\ s.accepted # None
         /\ u = [s EXCEPT !.accepted.confirmed = TRUE,
                          !.quorum = IF s.partial THEN q ELSE @,
                          !.partial = FALSE]
  BY DEF ConfirmState, ConfirmUnannounced
<1> QED BY <1>2, <1>3, <1>4

\* An accept that follows a promise, and a confirm that follows an acceptance,
\* do not hit the errors meant for malicious clients.
LEMMA NotMalicious ==
  ASSUME NEW s \in Server, NEW q, NEW p \in Proposal, Promised(s, p)
  PROVE  /\ AcceptReply(s, q, p).type # "malicious"
         /\ AcceptedOrPast(s, p) => ConfirmReply(s, q, p).type # "malicious"
<1>1. s.proposal \in Proposal
  BY DEF Promised, Server
<1>2. AcceptReply(s, q, p).type # "malicious"
  BY DEF AcceptReply, AcceptUnannounced, Promised, WrongQuorum
<1>3. ASSUME AcceptedOrPast(s, p)
      PROVE  ConfirmReply(s, q, p).type # "malicious"
  BY <1>1, <1>3, ProposalFields
     DEF AcceptedOrPast, ConfirmReply, ConfirmObsolete, ConfirmUnannounced,
         Promised, WrongQuorum
<1> QED BY <1>2, <1>3

-----------------------------------------------------------------------------
(* Reads, when there is one quorum.                                        *)

\* A server in state t answers get() with version w or a later one.
Informs(t, w) ==
  /\ t.proposal # None
  /\ \/ Confirmed(t) /\ t.proposal.version >= w
     \/ t.value # None /\ t.proposal.version > w

\* The state of a server when there is one quorum.
OneQuorum(t) ==
  /\ t \in Server /\ Coherent(t) /\ t.quorum = Servers
  /\ t.accepted # None => t.accepted.value \in Values

\* No version is skipped: a server that answers get() with a version goes on.
LEMMA ProposeInforms ==
  ASSUME NEW t, OneQuorum(t), NEW q, NEW p \in Proposal
  PROVE  /\ ProposeState(t, q, p).quorum = Servers
         /\ ProposeState(t, q, p).proposal \in {t.proposal, p}
         /\ (t.proposal # None => p.version =< t.proposal.version + 1) =>
              \A w \in Nat : Informs(t, w) => Informs(ProposeState(t, q, p), w)
<1> DEFINE u == Settle(t, p)
<1>1. /\ t \in Server /\ Coherent(t) /\ t.quorum = Servers
      /\ t.accepted # None => t.accepted.value \in Values
  BY DEF OneQuorum
<1>2. p.version \in Nat /\ (t.proposal # None => t.proposal.version \in Nat)
  BY <1>1, ProposalFields DEF Server
<1>3. u \in Server /\ (u = t \/ u.proposal = None)
  BY <1>1, SettleLemma
<1>4. u.quorum = Servers
  <2>1. CASE CheckConfirmed(t, p) /\ t.proposal # None /\ p.version > t.proposal.version
    <3>1. t.accepted # None
      BY <1>2, <2>1 DEF CheckConfirmed, Confirmed
    <3> QED BY <1>1, <2>1, <3>1 DEF Settle, Commit, IsQuorum, Server
  <2>2. CASE u = t \/ u = [t EXCEPT !.partial = TRUE, !.proposal = None, !.accepted = None]
    BY <1>1, <2>2 DEF Server
  <2> QED BY <2>1, <2>2 DEF Settle
<1>5. ASSUME t.proposal # None => p.version =< t.proposal.version + 1,
             NEW w \in Nat, Informs(t, w)
      PROVE  \/ u = t
             \/ u.value # None /\ p.version > w
  <2>1. t.proposal # None /\ p.version =< t.proposal.version + 1
    BY <1>5 DEF Informs
  <2>2. CASE Confirmed(t)
    <3>1. ~t.partial /\ t.accepted # None
      BY <1>1, <2>2 DEF Confirmed, Coherent
    <3>2. CheckConfirmed(t, p)
      BY <1>2, <2>1, <2>2, <3>1 DEF CheckConfirmed
    <3>3. CASE p.version > t.proposal.version
      <4>1. u = Commit(t)
        BY <2>1, <3>2, <3>3 DEF Settle
      <4>2. Commit(t).value = t.accepted.value
        BY <1>1, <3>1 DEF Commit, IsQuorum, Server
      <4>3. u.value # None
        BY <1>1, <3>1, <4>1, <4>2, NoneAssumption
      <4> QED BY <1>2, <1>5, <3>3, <4>3 DEF Informs
    <3>4. CASE ~(p.version > t.proposal.version)
      BY <3>2, <3>4 DEF Settle
    <3> QED BY <3>3, <3>4
  <2>3. CASE ~Confirmed(t)
    <3>1. t.value # None /\ t.proposal.version > w
      BY <1>5, <2>3 DEF Informs
    <3>2. CASE u # t
      <4>1. p.version > t.proposal.version
        BY <1>1, <3>2, SettleLemma
      <4>2. u = [t EXCEPT !.partial = TRUE, !.proposal = None, !.accepted = None]
        BY <1>2, <2>3, <3>2, <4>1 DEF Settle, CheckConfirmed
      <4>3. u.value = t.value
        BY <1>1, <4>2 DEF Server
      <4> QED BY <1>2, <2>1, <3>1, <4>1, <4>3
    <3> QED BY <3>2
  <2> QED BY <2>2, <2>3
<1> HIDE DEF u
<1> DEFINE n == [u EXCEPT !.proposal = p]
<1>6. n.proposal = p /\ n.value = u.value /\ n.accepted = u.accepted /\ n.quorum = u.quorum
  BY <1>3 DEF Server
<1> HIDE DEF n
<1>7. \/ ProposeState(t, q, p) = t
      \/ ProposeState(t, q, p) = n /\ (u.proposal = None \/ Less(u.proposal, p))
      \/ ProposeState(t, q, p) = u /\ u.proposal # None
  BY DEF ProposeState, u, n
<1>8. ASSUME t.proposal # None => p.version =< t.proposal.version + 1,
             NEW w \in Nat, Informs(t, w), ProposeState(t, q, p) = n,
             u.proposal = None \/ Less(u.proposal, p)
      PROVE  Informs(n, w)
  <2>1. t.proposal # None
    BY <1>8 DEF Informs
  <2>2. CASE u = t
    <3>1. p.version >= t.proposal.version
      BY <1>2, <1>8, <2>1, <2>2 DEF Less
    <3>2. CASE Confirmed(t)
      <4>1. Confirmed(n)
        BY <1>6, <2>2, <3>2 DEF Confirmed
      <4> QED BY <1>2, <1>6, <1>8, <2>1, <3>1, <4>1, NoneAssumption DEF Informs
    <3>3. CASE ~Confirmed(t)
      BY <1>2, <1>6, <1>8, <2>1, <2>2, <3>1, <3>3, NoneAssumption DEF Informs
    <3> QED BY <3>2, <3>3
  <2>3. CASE u.value # None /\ p.version > w
    BY <1>6, <2>3, NoneAssumption DEF Informs
  <2> QED BY <1>5, <1>8, <2>2, <2>3
<1> QED BY <1>1, <1>3, <1>4, <1>6, <1>7, <1>8

\* So does one that accepts ...
LEMMA AcceptInforms ==
  ASSUME NEW t, OneQuorum(t), NEW q, NEW p \in Proposal, NEW v \in Value
  PROVE  /\ AcceptState(t, q, p, v).quorum = Servers
         /\ AcceptState(t, q, p, v).proposal = t.proposal
         /\ \A w \in Nat : Informs(t, w) => Informs(AcceptState(t, q, p, v), w)
<1> DEFINE a == [proposal |-> p, value |-> v, confirmed |-> Confirmed(t)]
           u == [t EXCEPT !.accepted = a]
<1>1. t \in Server /\ t.quorum = Servers
  BY DEF OneQuorum
<1>2. u.quorum = t.quorum /\ u.proposal = t.proposal /\ u.value = t.value /\ u.accepted = a
  BY <1>1 DEF Server
<1>3. Confirmed(t) => Confirmed(u)
  <2>1. Confirmed(t) \in BOOLEAN
    BY <1>1 DEF Confirmed, Server, Accepted
  <2>2. a \in Accepted
    BY <2>1 DEF Accepted
  <2>3. a # None
    BY <2>2, NoneAssumption
  <2>4. Confirmed(t) => a.confirmed
    OBVIOUS
  <2> HIDE DEF a
  <2> QED BY <1>2, <2>3, <2>4 DEF Confirmed
<1> HIDE DEF u
<1>4. AcceptState(t, q, p, v) \in {t, u}
  BY DEF AcceptState, u
<1>5. \A w \in Nat : Informs(t, w) => Informs(u, w)
  BY <1>2, <1>3 DEF Informs
<1> QED BY <1>1, <1>2, <1>4, <1>5

\* ... or confirms, and then it answers get() with what it confirmed.
LEMMA ConfirmInforms ==
  ASSUME NEW t, OneQuorum(t), NEW p \in Proposal
  PROVE  /\ ConfirmState(t, Servers, p).quorum = Servers
         /\ ConfirmState(t, Servers, p).proposal = t.proposal
         /\ \A w \in Nat : Informs(t, w) => Informs(ConfirmState(t, Servers, p), w)
         /\ ConfirmReply(t, Servers, p).type = "done" /\ t.proposal # None =>
              \/ t.proposal.version > p.version
              \/ Informs(ConfirmState(t, Servers, p), p.version)
<1> DEFINE u == [t EXCEPT !.accepted.confirmed = TRUE,
                          !.quorum = IF t.partial THEN Servers ELSE @, !.partial = FALSE]
<1>1. t \in Server /\ t.quorum = Servers
  BY DEF OneQuorum
<1>2. /\ u.quorum = Servers /\ u.proposal = t.proposal /\ u.value = t.value
      /\ u.accepted = [t.accepted EXCEPT !.confirmed = TRUE]
  BY <1>1 DEF Server
<1>3. t.accepted # None => Confirmed(u)
  <2> SUFFICES ASSUME t.accepted # None PROVE Confirmed(u)
    OBVIOUS
  <2> DEFINE a == [t.accepted EXCEPT !.confirmed = TRUE]
  <2>1. t.accepted \in Accepted
    BY <1>1 DEF Server
  <2>2. a \in Accepted /\ a.confirmed
    BY <2>1 DEF Accepted
  <2>3. a # None
    BY <2>2, NoneAssumption
  <2> HIDE DEF a
  <2> QED BY <1>2, <2>2, <2>3 DEF Confirmed, a
<1> HIDE DEF u
<1>4. ConfirmState(t, Servers, p) \in {t, u}
  BY DEF ConfirmState, u
<1>5. \A w \in Nat : Informs(t, w) => Informs(u, w)
  <2>1. Confirmed(t) => Confirmed(u)
    BY <1>3 DEF Confirmed
  <2> QED BY <1>2, <2>1 DEF Informs
<1>6. ASSUME ConfirmReply(t, Servers, p).type = "done", t.proposal # None,
             ~(t.proposal.version > p.version)
      PROVE  Informs(ConfirmState(t, Servers, p), p.version)
  <2>1. t.proposal.version \in Nat /\ p.version \in Nat /\ t.proposal \in Proposal
    BY <1>1, <1>6, ProposalFields DEF Server
  <2>2. ~ConfirmObsolete(t, p)
    BY <1>6, <2>1 DEF ConfirmObsolete
  <2>3. ~ConfirmWrongQuorum(t, Servers, p) /\ ~ConfirmUnannounced(t, p)
    BY <1>6, <2>2 DEF ConfirmReply, WrongQuorum, Malicious
  <2>4. t.accepted # None /\ ~Less(t.proposal, p)
    BY <2>3 DEF ConfirmUnannounced
  <2>5. t.proposal.version >= p.version
    BY <2>1, <2>4, LessTotal
  <2>6. ConfirmState(t, Servers, p) = IF Confirmed(t) THEN t ELSE u
    BY <2>2, <2>3 DEF ConfirmState, u
  <2>7. Confirmed(ConfirmState(t, Servers, p))
    BY <1>3, <2>4, <2>6
  <2> QED BY <1>2, <1>6, <2>5, <2>6, <2>7 DEF Informs
<1> QED BY <1>1, <1>2, <1>4, <1>5, <1>6

=============================================================================
