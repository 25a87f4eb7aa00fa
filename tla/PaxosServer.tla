---------------------------- MODULE PaxosServer ----------------------------
(***************************************************************************)
(* The acceptor of athena, elle's multi-version Paxos (Server.hxx).        *)
(*                                                                         *)
(* A server holds the last committed value and quorum, and the state of    *)
(* the version under way: the proposal it promised and what it accepted.   *)
(* A value is a client's value (T) or a quorum: electing a quorum changes  *)
(* the membership from the next version on.                                *)
(*                                                                         *)
(* Every handler is a pure operator from the server's state and the        *)
(* request to the state it leaves (...State) and the reply (...Reply), so  *)
(* that the modules that own servers can put it in their own actions.      *)
(***************************************************************************)
EXTENDS Integers

CONSTANTS
  Servers,   \* ids of the servers
  Values,    \* what clients want chosen (T)
  Senders,   \* ids of the clients, ordered
  None       \* an empty boost::optional

ASSUME SendersAssumption == Senders \subseteq Nat

Quorums == SUBSET Servers

Value == Quorums \union Values

ASSUME ValuesAssumption == \A q \in Quorums : q \notin Values

IsQuorum(v) == v \notin Values

-----------------------------------------------------------------------------
(* Proposals: (version, round, sender), in lexicographic order.            *)

Proposal == [version : Nat, round : Nat, sender : Senders]

\* Sender id of a default-constructed proposal ({} in current_proposal).
NullSender == 0

\* What a server may report: also the made up proposal of current_proposal.
Reported == [version : Int, round : Nat, sender : Senders \union {NullSender}]

Less(p, q) ==
  \/ p.version < q.version
  \/ p.version = q.version /\ p.round < q.round
  \/ p.version = q.version /\ p.round = q.round /\ p.sender < q.sender

-----------------------------------------------------------------------------
(* The state of a server. An empty VersionState is proposal = None.        *)

Accepted == [proposal : Proposal, value : Value, confirmed : BOOLEAN]

ASSUME NoneAssumption ==
  /\ None \notin Values
  /\ \A q \in Quorums : q # None
  /\ None \notin Reported
  /\ None \notin Proposal
  /\ None \notin Accepted

Server ==
  [quorum   : Quorums,
   value    : Values \union {None},
   partial  : BOOLEAN,
   proposal : Proposal \union {None},
   accepted : Accepted \union {None}]

NewServer(q, v) ==
  [quorum |-> q, value |-> v, partial |-> FALSE,
   proposal |-> None, accepted |-> None]

Confirmed(s) == s.accepted # None /\ s.accepted.confirmed

ConfirmedQuorum(s) == Confirmed(s) /\ IsQuorum(s.accepted.value)

\* Fault: off by one in the version of the committed value.
CurrentProposalEarly(s) ==
  IF s.proposal = None THEN None
  ELSE IF Confirmed(s) THEN s.proposal
  ELSE IF s.value # None
    THEN [version |-> s.proposal.version - 2, round |-> 0,
          sender |-> NullSender]
  ELSE None

\* Proposal of the value this server would answer get() with.
CurrentProposal(s) ==
  IF s.proposal = None THEN None
  ELSE IF Confirmed(s) THEN s.proposal
  ELSE IF s.value # None
    THEN [version |-> s.proposal.version - 1, round |-> 0,
          sender |-> NullSender]
  ELSE None

CurrentQuorum(s) ==
  IF ConfirmedQuorum(s) THEN s.accepted.value ELSE s.quorum

\* The last confirmed value: the one of the version under way, or else the
\* committed one, dated from the version before the one under way.
CurrentValue(s) ==
  IF Confirmed(s) /\ ~IsQuorum(s.accepted.value) THEN s.accepted
  ELSE IF s.value # None /\ CurrentProposal(s) # None
    THEN [proposal |-> CurrentProposal(s), value |-> s.value,
          confirmed |-> TRUE]
  ELSE None

-----------------------------------------------------------------------------
(* check_quorum: the quorum a request must name. A confirmed quorum        *)
(* election applies to the versions after its own, and to reads.           *)

ExpectedQuorum(s, p) ==
  IF ConfirmedQuorum(s) /\ p.version > s.accepted.proposal.version
    THEN s.accepted.value ELSE s.quorum

WrongQuorum(s, expected) ==
  [type |-> "wrong_quorum", expected |-> expected,
   proposal |-> CurrentProposal(s)]

Malicious == [type |-> "malicious"]

-----------------------------------------------------------------------------
(* propose                                                                 *)

Response(p, v, c) ==
  [type |-> "response", proposal |-> p, value |-> v, confirmed |-> c]

\* Something was already accepted for a later version.
Outdated(s, p) ==
  s.accepted # None /\ s.accepted.proposal.version > p.version

\* check_confirmed: no version is skipped and the one before is confirmed.
CheckConfirmed(s, p) ==
  /\ ~s.partial
  /\ \/ s.proposal = None
     \/ s.proposal.version >= p.version
     \/ s.proposal.version = p.version - 1 /\ Confirmed(s)

\* Fault: a quorum election is committed as a value.
CommitAsValue(s) ==
  [s EXCEPT !.value = s.accepted.value, !.proposal = None, !.accepted = None]

\* The version under way is confirmed and p opens the next one: commit it.
Commit(s) ==
  IF IsQuorum(s.accepted.value)
    THEN [s EXCEPT !.quorum = s.accepted.value,
                   !.proposal = None, !.accepted = None]
    ELSE [s EXCEPT !.value = s.accepted.value,
                   !.proposal = None, !.accepted = None]

\* What propose does before it looks at the promise: commit the previous
\* version, or forget it if this server cannot tell how it ended.
Settle(s, p) ==
  IF CheckConfirmed(s, p)
    THEN IF s.proposal # None /\ p.version > s.proposal.version
           THEN Commit(s) ELSE s
    ELSE IF s.partial THEN s
           ELSE [s EXCEPT !.partial = TRUE,
                          !.proposal = None, !.accepted = None]

ProposeRefused(s, q, p) ==
  \/ Outdated(s, p)
  \/ CheckConfirmed(s, p) /\ q # ExpectedQuorum(s, p)

\* Fault: the promise is replaced without comparing.
ProposeStateUnguarded(s, q, p) ==
  IF ProposeRefused(s, q, p) THEN s
  ELSE [Settle(s, p) EXCEPT !.proposal = p]

ProposeState(s, q, p) ==
  IF ProposeRefused(s, q, p) THEN s
  ELSE LET t == Settle(s, p)
       IN  IF t.proposal = None \/ Less(t.proposal, p)
             THEN [t EXCEPT !.proposal = p] ELSE t

\* Fault: a higher proposal is not told what was accepted.
ProposeReplySilent(s, q, p) ==
  IF Outdated(s, p)
    THEN Response(s.accepted.proposal, s.accepted.value, s.accepted.confirmed)
  ELSE IF ProposeRefused(s, q, p)
    THEN WrongQuorum(s, ExpectedQuorum(s, p))
  ELSE LET t == Settle(s, p)
       IN  IF t.proposal = None \/ Less(t.proposal, p)
             THEN Response(None, None, FALSE)
           ELSE Response(t.proposal, None, FALSE)

ProposeReply(s, q, p) ==
  IF Outdated(s, p)
    THEN Response(s.accepted.proposal, s.accepted.value, s.accepted.confirmed)
  ELSE IF ProposeRefused(s, q, p)
    THEN WrongQuorum(s, ExpectedQuorum(s, p))
  ELSE LET t == Settle(s, p)
       IN  IF t.accepted # None
             \* The promise held so far, not the accepted proposal.
             THEN Response(t.proposal, t.accepted.value, t.accepted.confirmed)
           ELSE IF t.proposal = None \/ Less(t.proposal, p)
             THEN Response(None, None, FALSE)
           ELSE Response(t.proposal, None, FALSE)

-----------------------------------------------------------------------------
(* accept                                                                  *)

AcceptWrongQuorum(s, q, p) == ~s.partial /\ q # ExpectedQuorum(s, p)

\* "someone malicious sent an accept before propose"
AcceptUnannounced(s, p) == s.proposal = None \/ Less(s.proposal, p)

\* Fault: an obsolete accept is not discarded.
AcceptStateObsolete(s, q, p, v) ==
  IF AcceptWrongQuorum(s, q, p) \/ AcceptUnannounced(s, p) THEN s
    ELSE [s EXCEPT !.accepted =
            [proposal |-> p, value |-> v, confirmed |-> Confirmed(s)]]

AcceptState(s, q, p, v) ==
  IF \/ AcceptWrongQuorum(s, q, p)
     \/ AcceptUnannounced(s, p)
     \/ Less(p, s.proposal)
    THEN s
    ELSE [s EXCEPT !.accepted =
            [proposal |-> p, value |-> v, confirmed |-> Confirmed(s)]]

AcceptReply(s, q, p) ==
  IF AcceptWrongQuorum(s, q, p) THEN WrongQuorum(s, ExpectedQuorum(s, p))
  ELSE IF AcceptUnannounced(s, p) THEN Malicious
  ELSE [type |-> "minimum", proposal |-> s.proposal]

-----------------------------------------------------------------------------
(* confirm                                                                 *)

\* Fault: a confirm of a version that is over is not discarded.
ConfirmObsoleteNever(s, p) == FALSE

ConfirmObsolete(s, p) ==
  s.proposal # None /\ p.version < s.proposal.version

ConfirmWrongQuorum(s, q, p) == ~s.partial /\ q # ExpectedQuorum(s, p)

\* "someone malicious sent a confirm before propose/accept"
ConfirmUnannounced(s, p) ==
  s.proposal = None \/ Less(s.proposal, p) \/ s.accepted = None

ConfirmState(s, q, p) ==
  IF \/ ConfirmObsolete(s, p)
     \/ ConfirmWrongQuorum(s, q, p)
     \/ ConfirmUnannounced(s, p)
     \/ Confirmed(s)
    THEN s
    ELSE [s EXCEPT !.accepted.confirmed = TRUE,
                   !.quorum = IF s.partial THEN q ELSE @,
                   !.partial = FALSE]

ConfirmReply(s, q, p) ==
  IF ConfirmObsolete(s, p) THEN [type |-> "done"]
  ELSE IF ConfirmWrongQuorum(s, q, p)
    THEN WrongQuorum(s, ExpectedQuorum(s, p))
  ELSE IF ConfirmUnannounced(s, p) THEN Malicious
  ELSE [type |-> "done"]

-----------------------------------------------------------------------------
(* get: a read names the quorum that follows the last confirmed version,   *)
(* partial or not.                                                         *)

GetReply(s, q) ==
  IF q # CurrentQuorum(s) THEN WrongQuorum(s, CurrentQuorum(s))
  ELSE [type |-> "value", accepted |-> CurrentValue(s)]

-----------------------------------------------------------------------------
(* Predicates on a server the properties are built from.                   *)

\* What s accepted is within its promise, from the version under way unless
\* its state is partial, and a partial state is never confirmed.
Coherent(s) ==
  s.accepted # None =>
    /\ s.proposal # None
    /\ ~Less(s.proposal, s.accepted.proposal)
    /\ ~s.partial => s.accepted.proposal.version = s.proposal.version
    /\ s.partial => ~s.accepted.confirmed

\* s promised p, or more.
Promised(s, p) == s.proposal # None /\ ~Less(s.proposal, p)

\* s accepted a value of p's version, or is past that version.
AcceptedOrPast(s, p) ==
  \/ s.proposal.version > p.version
  \/ s.accepted # None /\ s.accepted.proposal.version = p.version

=============================================================================
