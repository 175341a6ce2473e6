------------------------- MODULE GatewayPartsProofs -------------------------
(***************************************************************************)
(* Proofs about five components of the gateway that share no state, each   *)
(* of its own specification:                                               *)
(*                                                                         *)
(* NodeRegistry, for every set of calls and every number of connections:   *)
(* the registry agrees with the connections that are open, and a call is   *)
(* told that its node has disconnected only when it has.                   *)
(*                                                                         *)
(* ExecApproval, for every set of requests, every choice of their ids (two *)
(* requests may bring the same one) and every set of decisions: a request  *)
(* can be decided until it is, the first decision stands, clients are told *)
(* of it, and an approval for one run allows one.                          *)
(*                                                                         *)
(* ConfigReload, for any modes, retries and number of edits: a change is   *)
(* noticed and recorded, and what is recorded takes effect.                *)
(*                                                                         *)
(* ChannelManager, for any callers, slots and attempts: the tasks, the     *)
(* tables that know them and the status that is shown agree, and what was  *)
(* stopped or has failed too often stays down.                             *)
(*                                                                         *)
(* SubagentRegistry, for any runs and any tree of requesters: a run is     *)
(* announced once at most, after its descendants, and not while it is      *)
(* stopped; until then it is in somebody's hands.                          *)
(***************************************************************************)
EXTENDS NodeRegistry, ExecApproval, ConfigReload, ChannelManager, SubagentRegistry,
        FiniteSetTheorems, TLAPS

-----------------------------------------------------------------------------
(* Nodes: the inductive invariant *)

Open(c) == nodeConn[c] \in {"live", "gone"}

\* Connections are made in the order of their numbers.
MadeInOrder ==
  \A c, d \in Connections : d < c /\ nodeConn[c] # "new" => nodeConn[d] # "new"

\* The registered session is of a connection whose close has not been handled.
SessionIsOpen == nodeSession # 0 => Open(nodeSession)

\* LiveNodeIsRegistered holds of a connection whose peer is gone as well: it is the
\* close handler that takes the session away, and not the loss of the peer.
OpenNodeIsRegistered ==
  \A c \in Connections : Open(c) /\ Newest(c) => nodeSession = c \/ unseated

NodeIInv ==
  /\ NodeTypeOK
  /\ sentOver \in [Invokes -> Connections \cup {0}]
  /\ MadeInOrder
  /\ SessionIsOpen
  /\ OpenNodeIsRegistered
  /\ NoCallOutlivesConnection

LEMMA NodeInitInv == NodeInit => NodeIInv
<1> SUFFICES ASSUME NodeInit PROVE NodeIInv
  OBVIOUS
<1>1. 0 \notin Connections
  BY NodeAssumption DEF Connections
<1> QED
  BY <1>1 DEF NodeInit, NodeIInv, NodeTypeOK, CallSettled, MadeInOrder, SessionIsOpen, Open,
     OpenNodeIsRegistered, NoCallOutlivesConnection, PendingCalls

\* What settling calls does to the invariant's claims about calls.
LEMMA SettledCalls ==
  ASSUME NodeIInv, NEW S \in SUBSET Invokes, NEW how \in CallSettled \ {"new"},
         SettleCalls(S, how)
  PROVE  /\ invoke' \in [Invokes -> CallSettled \cup {"waking", "pending"}]
         /\ sentOver' \in [Invokes -> Connections \cup {0}]
         /\ \A i \in Invokes : sentOver'[i] \in Connections <=> invoke'[i] = "pending"
         /\ \A i \in Invokes : invoke'[i] = "pending" =>
              i \notin S /\ invoke[i] = "pending" /\ sentOver'[i] = sentOver[i]
<1>1. 0 \notin Connections
  BY NodeAssumption DEF Connections
<1> QED
  BY <1>1 DEF NodeIInv, NodeTypeOK, SettleCalls, CallSettled

\* A step that only settles calls, and takes requests off the node, keeps the invariant.
LEMMA SettlingStep ==
  ASSUME NodeIInv, NEW S \in SUBSET Invokes, NEW how \in CallSettled \ {"new"},
         SettleCalls(S, how), UNCHANGED <<nodeConn, nodeSession, unseated>>,
         atNode' \subseteq Invokes
  PROVE  NodeIInv'
<1>1. /\ invoke' \in [Invokes -> CallSettled \cup {"waking", "pending"}]
      /\ sentOver' \in [Invokes -> Connections \cup {0}]
      /\ \A i \in Invokes : sentOver'[i] \in Connections <=> invoke'[i] = "pending"
      /\ \A i \in Invokes : invoke'[i] = "pending" =>
           invoke[i] = "pending" /\ sentOver'[i] = sentOver[i]
  BY SettledCalls
<1>2. NodeTypeOK'
  BY <1>1 DEF NodeIInv, NodeTypeOK
<1>3. (MadeInOrder /\ SessionIsOpen /\ OpenNodeIsRegistered)'
  BY DEF NodeIInv, MadeInOrder, SessionIsOpen, OpenNodeIsRegistered, Open, Newest
<1>4. NoCallOutlivesConnection'
  BY <1>1 DEF NodeIInv, NoCallOutlivesConnection, PendingCalls
<1> QED
  BY <1>1, <1>2, <1>3, <1>4 DEF NodeIInv

LEMMA SendStep ==
  ASSUME NodeIInv, NEW i \in Invokes, invoke[i] \in {"new", "waking"}, Send(i),
         UNCHANGED <<nodeConn, nodeSession, unseated>>
  PROVE  NodeIInv'
<1>1. 0 \notin Connections
  BY NodeAssumption DEF Connections
<1>2. (MadeInOrder /\ SessionIsOpen /\ OpenNodeIsRegistered)'
  BY DEF NodeIInv, MadeInOrder, SessionIsOpen, OpenNodeIsRegistered, Open, Newest
<1>3. CASE /\ nodeSession # 0
           /\ invoke' = [invoke EXCEPT ![i] = "pending"]
           /\ sentOver' = [sentOver EXCEPT ![i] = nodeSession]
           /\ atNode' = IF nodeConn[nodeSession] = "live" THEN atNode \cup {i} ELSE atNode
  <2>1. nodeSession \in Connections /\ nodeConn[nodeSession] # "closed"
    BY <1>3 DEF NodeIInv, NodeTypeOK, SessionIsOpen, Open
  <2>2. NodeTypeOK' /\ sentOver' \in [Invokes -> Connections \cup {0}]
    BY <1>3, <2>1 DEF NodeIInv, NodeTypeOK
  <2>3. NoCallOutlivesConnection'
    BY <1>3, <2>1 DEF NodeIInv, NodeTypeOK, NoCallOutlivesConnection, PendingCalls
  <2> QED
    BY <1>2, <2>2, <2>3 DEF NodeIInv
<1>4. CASE invoke' = [invoke EXCEPT ![i] = "refused"] /\ UNCHANGED <<sentOver, atNode>>
  <2>1. NodeTypeOK' /\ sentOver' \in [Invokes -> Connections \cup {0}]
    BY <1>4 DEF NodeIInv, NodeTypeOK, CallSettled
  <2>2. NoCallOutlivesConnection'
    BY <1>4 DEF NodeIInv, NodeTypeOK, NoCallOutlivesConnection, PendingCalls
  <2> QED
    BY <1>2, <2>1, <2>2 DEF NodeIInv
<1> QED
  BY <1>3, <1>4 DEF Send

LEMMA NodeNextInv == NodeIInv /\ [NodeNext]_nodeVars => NodeIInv'
<1> SUFFICES ASSUME NodeIInv, [NodeNext]_nodeVars PROVE NodeIInv'
  OBVIOUS
<1>0. 0 \notin Connections /\ Connections \subseteq Nat
  BY NodeAssumption DEF Connections
<1>1. ASSUME NEW c \in Connections, RegisterNode(c)
      PROVE  NodeIInv'
  <2>1. /\ nodeConn' \in [Connections -> {"new", "live", "gone", "closed"}]
        /\ nodeConn'[c] = "live" /\ nodeSession' = c /\ unseated' = FALSE
        /\ \A d \in Connections : d # c => nodeConn'[d] = nodeConn[d]
        /\ nodeConn[c] = "new"
        /\ \A d \in Connections : d < c => nodeConn[d] # "new"
        /\ UNCHANGED <<invoke, sentOver, atNode>>
    BY <1>1 DEF NodeIInv, NodeTypeOK, RegisterNode, IsNext
  <2>2. NodeTypeOK'
    BY <2>1 DEF NodeIInv, NodeTypeOK
  <2>3. MadeInOrder'
    BY <1>0, <2>1 DEF NodeIInv, MadeInOrder
  <2>4. SessionIsOpen'
    BY <2>1 DEF SessionIsOpen, Open
  <2>5. OpenNodeIsRegistered'
    <3> SUFFICES ASSUME NEW d \in Connections, nodeConn'[d] # "new", d # c,
                        \A k \in Connections : k > d => nodeConn'[k] = "new"
                 PROVE  FALSE
      BY <2>1 DEF OpenNodeIsRegistered, Open, Newest
    <3>1. ~(c > d)
      BY <2>1
    <3>2. c < d
      BY <1>0, <3>1
    <3> QED
      BY <2>1, <3>2 DEF NodeIInv, MadeInOrder
  <2>6. NoCallOutlivesConnection'
    BY <2>1 DEF NodeIInv, NodeTypeOK, NoCallOutlivesConnection, PendingCalls
  <2> QED
    BY <2>1, <2>2, <2>3, <2>4, <2>5, <2>6 DEF NodeIInv
<1>2. ASSUME NEW c \in Connections, PeerGone(c)
      PROVE  NodeIInv'
  <2>1. /\ nodeConn' \in [Connections -> {"new", "live", "gone", "closed"}]
        /\ nodeConn[c] = "live" /\ nodeConn'[c] = "gone"
        /\ \A d \in Connections : d # c => nodeConn'[d] = nodeConn[d]
        /\ atNode' \subseteq Invokes
        /\ UNCHANGED <<nodeSession, invoke, sentOver, unseated>>
    BY <1>2 DEF NodeIInv, NodeTypeOK, PeerGone
  <2>2. NodeTypeOK'
    BY <2>1 DEF NodeIInv, NodeTypeOK
  <2>3. (MadeInOrder /\ SessionIsOpen)'
    BY <2>1 DEF NodeIInv, NodeTypeOK, MadeInOrder, SessionIsOpen, Open
  <2>4. OpenNodeIsRegistered'
    BY <2>1 DEF NodeIInv, OpenNodeIsRegistered, Open, Newest
  <2>5. NoCallOutlivesConnection'
    BY <2>1 DEF NodeIInv, NodeTypeOK, NoCallOutlivesConnection, PendingCalls
  <2> QED
    BY <2>1, <2>2, <2>3, <2>4, <2>5 DEF NodeIInv
<1>3. ASSUME NEW c \in Connections, Unregister(c)
      PROVE  NodeIInv'
  <2>1. /\ nodeConn' \in [Connections -> {"new", "live", "gone", "closed"}]
        /\ Open(c) /\ nodeConn'[c] = "closed"
        /\ \A d \in Connections : d # c => nodeConn'[d] = nodeConn[d]
        /\ nodeSession' = 0
        /\ unseated' = (unseated \/ c # nodeSession)
        /\ SettleCalls(PendingCalls, "disconnected")
        /\ UNCHANGED atNode
    BY <1>3 DEF NodeIInv, NodeTypeOK, Unregister, Open
  <2>2. /\ invoke' \in [Invokes -> CallSettled \cup {"waking", "pending"}]
        /\ sentOver' \in [Invokes -> Connections \cup {0}]
        /\ \A i \in Invokes : sentOver'[i] \in Connections <=> invoke'[i] = "pending"
        /\ \A i \in Invokes : invoke'[i] = "pending" =>
             i \notin PendingCalls /\ invoke[i] = "pending"
    <3>1. PendingCalls \in SUBSET Invokes /\ "disconnected" \in CallSettled \ {"new"}
      BY DEF PendingCalls, CallSettled
    <3> QED
      BY <2>1, <3>1, SettledCalls
  <2>3. \A i \in Invokes : invoke'[i] # "pending"
    BY <2>2 DEF PendingCalls
  <2>4. NodeTypeOK'
    BY <2>1, <2>2 DEF NodeIInv, NodeTypeOK
  <2>5. MadeInOrder' /\ SessionIsOpen'
    BY <2>1 DEF NodeIInv, MadeInOrder, SessionIsOpen, Open
  <2>6. OpenNodeIsRegistered'
    BY <2>1 DEF NodeIInv, OpenNodeIsRegistered, Open, Newest
  <2>7. NoCallOutlivesConnection'
    BY <2>3 DEF NoCallOutlivesConnection, PendingCalls
  <2> QED
    BY <2>2, <2>4, <2>5, <2>6, <2>7 DEF NodeIInv
<1>4. ASSUME NEW i \in Invokes, Invoke(i)
      PROVE  NodeIInv'
  <2>1. invoke[i] = "new" /\ UNCHANGED <<nodeConn, nodeSession, unseated>>
    BY <1>4 DEF Invoke
  <2>2. CASE nodeSession # 0 /\ Send(i)
    BY <2>1, <2>2, SendStep
  <2>3. CASE /\ nodeSession = 0
             /\ \E where \in {"waking", "refused"} : invoke' = [invoke EXCEPT ![i] = where]
             /\ UNCHANGED <<sentOver, atNode>>
    <3>1. NodeTypeOK' /\ sentOver' \in [Invokes -> Connections \cup {0}]
      BY <2>1, <2>3 DEF NodeIInv, NodeTypeOK, CallSettled
    <3>2. (MadeInOrder /\ SessionIsOpen /\ OpenNodeIsRegistered)'
      BY <2>1 DEF NodeIInv, MadeInOrder, SessionIsOpen, OpenNodeIsRegistered, Open, Newest
    <3>3. NoCallOutlivesConnection'
      BY <2>1, <2>3 DEF NodeIInv, NodeTypeOK, NoCallOutlivesConnection, PendingCalls
    <3> QED
      BY <3>1, <3>2, <3>3 DEF NodeIInv
  <2> QED
    BY <1>4, <2>2, <2>3 DEF Invoke
<1>5. ASSUME NEW i \in Invokes, WakeEnds(i)
      PROVE  NodeIInv'
  BY <1>5, SendStep DEF WakeEnds
<1>6. ASSUME NEW i \in Invokes, InvokeTimeout(i)
      PROVE  NodeIInv'
  <2>1. {i} \in SUBSET Invokes /\ "timed out" \in CallSettled \ {"new"}
    BY DEF CallSettled
  <2>2. /\ SettleCalls({i}, "timed out") /\ UNCHANGED <<nodeConn, nodeSession, unseated>>
        /\ atNode' \subseteq Invokes
    BY <1>6 DEF InvokeTimeout, NodeIInv, NodeTypeOK
  <2> QED
    BY <2>1, <2>2, SettlingStep
<1>7. ASSUME NEW i \in Invokes, NEW c \in Connections, Result(i, c)
      PROVE  NodeIInv'
  <2>1. atNode' \subseteq Invokes /\ UNCHANGED <<nodeConn, nodeSession, unseated>>
    BY <1>7 DEF Result, NodeIInv, NodeTypeOK
  <2>2. CASE invoke[i] = "pending"
    <3>1. {i} \in SUBSET Invokes /\ "answered" \in CallSettled \ {"new"}
      BY DEF CallSettled
    <3>2. SettleCalls({i}, "answered")
      BY <1>7, <2>2 DEF Result
    <3> QED
      BY <2>1, <3>1, <3>2, SettlingStep
  <2>3. CASE invoke[i] # "pending"
    <3>1. UNCHANGED <<invoke, sentOver>>
      BY <1>7, <2>3 DEF Result
    <3> QED
      BY <2>1, <3>1 DEF NodeIInv, NodeTypeOK, MadeInOrder, SessionIsOpen, OpenNodeIsRegistered,
         Open, Newest, NoCallOutlivesConnection, PendingCalls
  <2> QED
    BY <2>2, <2>3
<1>8. CASE UNCHANGED nodeVars
  BY <1>8 DEF nodeVars, NodeIInv, NodeTypeOK, MadeInOrder, SessionIsOpen, OpenNodeIsRegistered,
     Open, Newest, NoCallOutlivesConnection, PendingCalls
<1> QED
  BY <1>1, <1>2, <1>3, <1>4, <1>5, <1>6, <1>7, <1>8 DEF NodeNext

LEMMA NodeInvariance == NodeSpec => []NodeIInv
BY NodeInitInv, NodeNextInv, PTL DEF NodeSpec

-----------------------------------------------------------------------------
(* Nodes: the properties *)

\* A node whose newest connection is live is registered with it unless an earlier one
\* was closed since, and no call waits for an answer over a connection that is closed.
THEOREM RegistryAgrees == NodeSpec => []NodeInv
<1>1. NodeIInv => NodeInv
  BY DEF NodeIInv, NodeInv, OpenNodeIsRegistered, Open, LiveNodeIsRegistered
<1> QED
  BY <1>1, NodeInvariance, PTL

\* A call sent over the newest connection is told of a disconnection only when that
\* connection is closed, or an earlier one after it had registered.
THEOREM NoFalseDisconnection == NodeSpec => RejectedWithConnection
<1> DEFINE Told ==
      \A i \in PendingCalls : Newest(sentOver[i]) /\ invoke'[i] = "disconnected" =>
        nodeConn'[sentOver[i]] = "closed" \/ unseated'
<1>1. NodeIInv /\ [NodeNext]_nodeVars => [Told]_nodeVars
  <2> SUFFICES ASSUME NodeIInv, NodeNext, NEW i \in PendingCalls, Newest(sentOver[i]),
                      invoke'[i] = "disconnected"
               PROVE  nodeConn'[sentOver[i]] = "closed" \/ unseated'
    OBVIOUS
  <2>1. i \in Invokes /\ invoke[i] = "pending" /\ sentOver[i] \in Connections
    BY DEF NodeIInv, NodeTypeOK, PendingCalls
  <2>2. PICK c \in Connections : Unregister(c)
    BY <2>1 DEF NodeIInv, NodeTypeOK, NodeNext, RegisterNode, PeerGone, Invoke, WakeEnds, Send,
       InvokeTimeout, Result, SettleCalls
  <2>3. Open(sentOver[i])
    BY <2>1 DEF NodeIInv, NodeTypeOK, NoCallOutlivesConnection, Newest, Open
  <2>4. nodeSession = sentOver[i] \/ unseated
    BY <2>1, <2>3 DEF NodeIInv, OpenNodeIsRegistered
  <2> QED
    BY <2>2, <2>4 DEF Unregister, NodeIInv, NodeTypeOK
<1> QED
  BY <1>1, NodeInvariance, PTL DEF NodeSpec, RejectedWithConnection

-----------------------------------------------------------------------------
(* Approvals: the inductive invariant *)

\* An entry stands at the id its request has brought.
EntriesAreNamed ==
  \A r \in Requests : EntryAt(r) # NoRequest => ApprovalId[EntryAt(r)] = ApprovalId[r]

\* A client awaits the promise of a request with its own id.
AskedSameId ==
  \A r \in Requests : client[r] = "waiting" =>
    asked[r] \in Requests /\ ApprovalId[asked[r]] = ApprovalId[r]

\* What a client was told is the decision on a request with its id, and one was made.
ToldADecision ==
  \A r \in Requests : told[r] \notin {"nothing", "not found"} =>
    \E q \in Requests :
      ApprovalId[q] = ApprovalId[r] /\ promise[q] # "open" /\ told[r] = promise[q]

\* A run allowed by an approval for one run has used it up.
UsedUp ==
  \A r \in Requests : uses[r] = 0 \/ (uses[r] = 1 /\ record[r] = "used")

ApprovalIInv ==
  /\ ApprovalTypeOK
  /\ EntriesAreNamed
  /\ OpenRequestIsKept
  /\ AskedSameId
  /\ ToldADecision
  /\ UsedUp

\* What no step undoes: a promise that is settled keeps its value, and an approval that
\* was used stays so.
Decided ==
  \A r \in Requests :
    /\ promise[r] # "open" => promise'[r] = promise[r]
    /\ record[r] = "used" => record'[r] = "used"

LEMMA ApprovalInitInv == ApprovalInit => ApprovalIInv
<1> SUFFICES ASSUME ApprovalInit PROVE ApprovalIInv
  OBVIOUS
<1>1. ApprovalTypeOK
  BY DEF ApprovalInit, ApprovalTypeOK, Values
<1>2. \A r \in Requests : EntryAt(r) = NoRequest
  BY DEF ApprovalInit, EntryAt, Ids
<1>3. EntriesAreNamed
  BY <1>2 DEF EntriesAreNamed
<1>4. OpenRequestIsKept
  BY DEF ApprovalInit, OpenRequestIsKept
<1>5. AskedSameId /\ ToldADecision /\ UsedUp
  BY DEF ApprovalInit, AskedSameId, ToldADecision, UsedUp
<1> QED
  BY <1>1, <1>3, <1>4, <1>5 DEF ApprovalIInv

-----------------------------------------------------------------------------
(* Approvals: decisions *)

\* A decision settles an open request, and leaves every other one as it is.
LEMMA DecideFacts ==
  ASSUME ApprovalTypeOK, NEW e \in Requests,
         NEW how \in Decisions \cup {"timed out", "no approver"},
         NEW value \in Decisions \cup {"no decision"},
         Decide(e, how, value)
  PROVE  /\ record' \in [Requests -> Decisions \cup {"open", "timed out", "no approver", "used"}]
         /\ promise' \in [Requests -> Values]
         /\ \A r \in Requests : record'[r] = "open" <=> promise'[r] = "open"
         /\ Decided
<1>1. how # "open" /\ value # "open" /\ value \in Values
  BY ApprovalAssumption DEF Values
<1>2. CASE record[e] = "open"
  <2>1. /\ record' = [record EXCEPT ![e] = how]
        /\ promise' = [promise EXCEPT ![e] = value]
        /\ promise[e] = "open"
    BY <1>2 DEF Decide, ApprovalTypeOK
  <2>2. Decided
    BY <1>2, <2>1 DEF Decided, ApprovalTypeOK
  <2> QED
    BY <1>1, <2>1, <2>2 DEF ApprovalTypeOK
<1>3. CASE record[e] # "open"
  BY <1>3 DEF Decide, ApprovalTypeOK, Decided
<1> QED
  BY <1>2, <1>3

\* Those steps that decide, and change nothing but who is told and where handlers are,
\* keep the claims about entries, open requests, clients and uses.
LEMMA DecidingStep ==
  ASSUME ApprovalIInv,
         record' \in [Requests -> Decisions \cup {"open", "timed out", "no approver", "used"}],
         promise' \in [Requests -> Values],
         \A r \in Requests : record'[r] = "open" <=> promise'[r] = "open",
         Decided,
         handler' \in [Requests -> {"new", "refused", "forwarding", "waiting", "responded"}],
         client' \in [Requests -> {"idle", "accepted", "waiting", "told"}],
         \A r \in Requests : handler'[r] \in {"forwarding", "waiting"} =>
           handler[r] \in {"forwarding", "waiting"},
         \A r \in Requests : client'[r] = "waiting" => client[r] = "waiting",
         UNCHANGED <<approval, expired, asked, told, uses>>
  PROVE  ApprovalIInv'
<1>1. ApprovalTypeOK'
  BY DEF ApprovalIInv, ApprovalTypeOK
<1>2. EntriesAreNamed'
  BY DEF ApprovalIInv, EntriesAreNamed, EntryAt
<1>3. OpenRequestIsKept'
  BY ZenonT(30) DEF ApprovalIInv, ApprovalTypeOK, OpenRequestIsKept, EntryAt, Decided
<1>4. AskedSameId'
  BY DEF ApprovalIInv, AskedSameId
<1>5. ToldADecision'
  <2> SUFFICES ASSUME NEW r \in Requests, told[r] \notin {"nothing", "not found"}
               PROVE  \E q \in Requests :
                        ApprovalId[q] = ApprovalId[r] /\ promise'[q] # "open" /\ told[r] = promise'[q]
    BY DEF ToldADecision
  <2>1. PICK q \in Requests :
          ApprovalId[q] = ApprovalId[r] /\ promise[q] # "open" /\ told[r] = promise[q]
    BY DEF ApprovalIInv, ToldADecision
  <2>2. promise'[q] = promise[q]
    BY <2>1 DEF Decided
  <2> QED
    BY <2>1, <2>2
<1>6. UsedUp'
  BY DEF ApprovalIInv, UsedUp, Decided
<1> QED
  BY <1>1, <1>2, <1>3, <1>4, <1>5, <1>6 DEF ApprovalIInv

\* Expiry by an id decides on the request whose entry is there, if there is one.
LEMMA ExpireFacts ==
  ASSUME ApprovalIInv, NEW id \in Ids, NEW how \in {"timed out", "no approver"},
         ExpireById(id, how)
  PROVE  /\ record' \in [Requests -> Decisions \cup {"open", "timed out", "no approver", "used"}]
         /\ promise' \in [Requests -> Values]
         /\ \A r \in Requests : record'[r] = "open" <=> promise'[r] = "open"
         /\ Decided
<1>1. CASE approval[id] # NoRequest
  <2>1. approval[id] \in Requests
    BY <1>1, ZenonT(30) DEF ApprovalIInv, ApprovalTypeOK
  <2> QED
    BY <1>1, <2>1, DecideFacts DEF ExpireById, ApprovalIInv
<1>2. CASE approval[id] = NoRequest
  BY <1>2 DEF ExpireById, ApprovalIInv, ApprovalTypeOK, Decided
<1> QED
  BY <1>1, <1>2

-----------------------------------------------------------------------------
(* Approvals: the invariant is inductive, and no step undoes a decision *)

LEMMA ApprovalNextInv == ApprovalIInv /\ [ApprovalNext]_approvalVars => ApprovalIInv' /\ Decided
<1> SUFFICES ASSUME ApprovalIInv, [ApprovalNext]_approvalVars PROVE ApprovalIInv' /\ Decided
  OBVIOUS
<1>0. NoRequest \notin Requests
  BY ApprovalAssumption DEF NoRequest
<1>1. ASSUME NEW r \in Requests, Request(r)
      PROVE  ApprovalIInv' /\ Decided
  <2>1. /\ handler[r] = "new"
        /\ UNCHANGED <<record, promise, expired, client, asked, told, uses>>
    BY <1>1 DEF Request
  <2>2. Decided
    BY <2>1 DEF Decided
  <2>3. CASE EntryAt(r) # NoRequest
    <3>1. handler' = [handler EXCEPT ![r] = "refused"] /\ UNCHANGED approval
      BY <1>1, <2>3 DEF Request
    <3> QED
      BY <2>1, <2>2, <3>1, DecidingStep DEF ApprovalIInv, ApprovalTypeOK
  <2>4. CASE EntryAt(r) = NoRequest
    <3>1. /\ approval' = [approval EXCEPT ![ApprovalId[r]] = r]
          /\ handler' = [handler EXCEPT ![r] = "forwarding"]
      BY <1>1, <2>4 DEF Request
    <3>2. /\ ApprovalId[r] \in Ids
          /\ \A q \in Requests : ApprovalId[q] \in Ids
      BY DEF Ids
    <3>3. ApprovalTypeOK'
      BY <2>1, <3>1, <3>2 DEF ApprovalIInv, ApprovalTypeOK
    <3>4. \A q \in Requests :
            /\ ApprovalId[q] = ApprovalId[r] => EntryAt(q) = NoRequest /\ EntryAt(q)' = r
            /\ ApprovalId[q] # ApprovalId[r] => EntryAt(q)' = EntryAt(q)
      BY <2>4, <3>1, <3>2 DEF ApprovalIInv, ApprovalTypeOK, EntryAt
    <3>5. EntriesAreNamed'
      BY <3>4 DEF ApprovalIInv, EntriesAreNamed
    <3>6. OpenRequestIsKept'
      <4> SUFFICES ASSUME NEW q \in Requests, handler'[q] \in {"forwarding", "waiting"},
                          promise[q] = "open"
                   PROVE  EntryAt(q)' = q
        BY <2>1 DEF OpenRequestIsKept
      <4>1. CASE q = r
        BY <3>4, <4>1
      <4>2. CASE q # r
        <5>1. handler'[q] = handler[q]
          BY <3>1, <4>2 DEF ApprovalIInv, ApprovalTypeOK
        <5>2. EntryAt(q) = q
          BY <5>1 DEF ApprovalIInv, OpenRequestIsKept
        <5> QED
          BY <1>0, <3>4, <5>2
      <4> QED
        BY <4>1, <4>2
    <3>7. (AskedSameId /\ ToldADecision /\ UsedUp)'
      BY <2>1 DEF ApprovalIInv, AskedSameId, ToldADecision, UsedUp
    <3> QED
      BY <2>2, <3>3, <3>5, <3>6, <3>7 DEF ApprovalIInv
  <2> QED
    BY <2>3, <2>4
<1>2. ASSUME NEW r \in Requests, Forwarded(r)
      PROVE  ApprovalIInv' /\ Decided
  <2>1. /\ handler[r] = "forwarding"
        /\ handler' = [handler EXCEPT ![r] = "waiting"]
        /\ client' = [client EXCEPT ![r] = "accepted"]
        /\ UNCHANGED <<approval, expired, asked, told, uses>>
    BY <1>2 DEF Forwarded
  <2>2. /\ record' \in [Requests -> Decisions \cup {"open", "timed out", "no approver", "used"}]
        /\ promise' \in [Requests -> Values]
        /\ \A q \in Requests : record'[q] = "open" <=> promise'[q] = "open"
        /\ Decided
    <3>1. CASE UNCHANGED <<record, promise>>
      BY <3>1 DEF ApprovalIInv, ApprovalTypeOK, Decided
    <3>2. CASE ExpireById(ApprovalId[r], "no approver")
      <4>1. ApprovalId[r] \in Ids
        BY DEF Ids
      <4> QED
        BY <3>2, <4>1, ExpireFacts
    <3> QED
      BY <1>2, <3>1, <3>2 DEF Forwarded
  <2> QED
    BY <2>1, <2>2, DecidingStep DEF ApprovalIInv, ApprovalTypeOK
<1>3. ASSUME NEW r \in Requests, Responds(r)
      PROVE  ApprovalIInv' /\ Decided
  <2>1. /\ handler' = [handler EXCEPT ![r] = "responded"]
        /\ UNCHANGED <<approval, record, promise, expired, client, asked, told, uses>>
    BY <1>3 DEF Responds
  <2>2. Decided
    BY <2>1 DEF Decided
  <2> QED
    BY <2>1, <2>2, DecidingStep DEF ApprovalIInv, ApprovalTypeOK
<1>4. ASSUME NEW r \in Requests, WaitDecision(r)
      PROVE  ApprovalIInv' /\ Decided
  <2>1. /\ client[r] = "accepted"
        /\ UNCHANGED <<approval, record, promise, expired, handler, uses>>
    BY <1>4 DEF WaitDecision
  <2>2. Decided
    BY <2>1 DEF Decided
  <2>3. (EntriesAreNamed /\ OpenRequestIsKept /\ UsedUp)'
    BY <2>1 DEF ApprovalIInv, EntriesAreNamed, OpenRequestIsKept, UsedUp, EntryAt
  <2>4. CASE EntryAt(r) # NoRequest
    <3>1. /\ asked' = [asked EXCEPT ![r] = EntryAt(r)]
          /\ client' = [client EXCEPT ![r] = "waiting"]
          /\ UNCHANGED told
      BY <1>4, <2>4 DEF WaitDecision
    <3>2. EntryAt(r) \in Requests
      <4>1. ApprovalId[r] \in Ids
        BY DEF Ids
      <4>2. approval \in [Ids -> Requests \cup {NoRequest}]
        BY DEF ApprovalIInv, ApprovalTypeOK
      <4> QED
        BY <2>4, <4>1, <4>2 DEF EntryAt
    <3>3. ApprovalTypeOK'
      BY <2>1, <3>1, <3>2 DEF ApprovalIInv, ApprovalTypeOK
    <3>4. AskedSameId'
      BY <2>4, <3>1, <3>2, ZenonT(30) DEF ApprovalIInv, ApprovalTypeOK, AskedSameId, EntriesAreNamed
    <3>5. ToldADecision'
      BY <2>1, <3>1 DEF ApprovalIInv, ToldADecision
    <3> QED
      BY <2>2, <2>3, <3>3, <3>4, <3>5 DEF ApprovalIInv
  <2>5. CASE EntryAt(r) = NoRequest
    <3>1. /\ told' = [told EXCEPT ![r] = "not found"]
          /\ client' = [client EXCEPT ![r] = "told"]
          /\ UNCHANGED asked
      BY <1>4, <2>5 DEF WaitDecision
    <3>2. ApprovalTypeOK'
      BY <2>1, <3>1 DEF ApprovalIInv, ApprovalTypeOK
    <3>3. AskedSameId'
      BY <3>1 DEF ApprovalIInv, ApprovalTypeOK, AskedSameId
    <3>4. ToldADecision'
      BY <2>1, <3>1 DEF ApprovalIInv, ApprovalTypeOK, ToldADecision
    <3> QED
      BY <2>2, <2>3, <3>2, <3>3, <3>4 DEF ApprovalIInv
  <2> QED
    BY <2>4, <2>5
<1>5. ASSUME NEW r \in Requests, WaitEnds(r)
      PROVE  ApprovalIInv' /\ Decided
  <2>1. /\ client[r] = "waiting" /\ promise[asked[r]] # "open"
        /\ told' = [told EXCEPT ![r] = promise[asked[r]]]
        /\ client' = [client EXCEPT ![r] = "told"]
        /\ UNCHANGED <<approval, record, promise, expired, handler, asked, uses>>
    BY <1>5 DEF WaitEnds
  <2>2. asked[r] \in Requests /\ ApprovalId[asked[r]] = ApprovalId[r]
    BY <2>1 DEF ApprovalIInv, AskedSameId
  <2>3. Decided
    BY <2>1 DEF Decided
  <2>4. (EntriesAreNamed /\ OpenRequestIsKept /\ UsedUp)'
    BY <2>1 DEF ApprovalIInv, EntriesAreNamed, OpenRequestIsKept, UsedUp, EntryAt
  <2>5. ApprovalTypeOK'
    BY <2>1, <2>2 DEF ApprovalIInv, ApprovalTypeOK
  <2>6. AskedSameId'
    BY <2>1 DEF ApprovalIInv, ApprovalTypeOK, AskedSameId
  <2>7. ToldADecision'
    BY <2>1, <2>2, ZenonT(30) DEF ApprovalIInv, ApprovalTypeOK, ToldADecision
  <2> QED
    BY <2>3, <2>4, <2>5, <2>6, <2>7 DEF ApprovalIInv
<1>6. ASSUME NEW r \in Requests, RunCommand(r)
      PROVE  ApprovalIInv' /\ Decided
  <2> DEFINE e == EntryAt(r)
  <2>1. /\ e # NoRequest /\ record[e] = "allow-once"
        /\ uses' = [uses EXCEPT ![e] = @ + 1]
        /\ record' = [record EXCEPT ![e] = "used"]
        /\ UNCHANGED <<approval, promise, expired, handler, client, asked, told>>
    BY <1>6 DEF RunCommand
  <2>2. e \in Requests
    <3>1. ApprovalId[r] \in Ids
      BY DEF Ids
    <3>2. approval \in [Ids -> Requests \cup {NoRequest}]
      BY DEF ApprovalIInv, ApprovalTypeOK
    <3> QED
      BY <2>1, <3>1, <3>2 DEF EntryAt
  <2> HIDE DEF e
  <2>3. uses[e] = 0
    BY <2>1, <2>2 DEF ApprovalIInv, UsedUp
  <2>a. uses \in [Requests -> 0..2] /\ uses' = [uses EXCEPT ![e] = 1]
    <3>1. uses \in [Requests -> 0..2]
      BY DEF ApprovalIInv, ApprovalTypeOK
    <3>2. uses' = [uses EXCEPT ![e] = uses[e] + 1] /\ uses[e] + 1 = 1
      BY <2>1, <2>3
    <3> QED
      BY <3>1, <3>2
  <2>4. ApprovalTypeOK'
    <3>1. uses' \in [Requests -> 0..2]
      BY <2>2, <2>a
    <3>2. record' \in [Requests -> Decisions \cup {"open", "timed out", "no approver", "used"}]
      BY <2>1, <2>2 DEF ApprovalIInv, ApprovalTypeOK
    <3>3. \A q \in Requests : record'[q] = "open" <=> promise'[q] = "open"
      BY <2>1, <2>2 DEF ApprovalIInv, ApprovalTypeOK
    <3> QED
      BY <2>1, <3>1, <3>2, <3>3 DEF ApprovalIInv, ApprovalTypeOK
  <2>5. Decided
    BY <2>1, <2>2 DEF Decided, ApprovalIInv, ApprovalTypeOK
  <2>6. (EntriesAreNamed /\ OpenRequestIsKept /\ AskedSameId /\ ToldADecision)'
    BY <2>1 DEF ApprovalIInv, EntriesAreNamed, OpenRequestIsKept, AskedSameId, ToldADecision, EntryAt
  <2>7. UsedUp'
    <3>1. /\ uses'[e] = 1 /\ record'[e] = "used"
          /\ \A q \in Requests : q # e => uses'[q] = uses[q] /\ record'[q] = record[q]
      BY <2>1, <2>2, <2>a, ZenonT(30) DEF ApprovalIInv, ApprovalTypeOK
    <3> QED
      BY <3>1 DEF ApprovalIInv, UsedUp
  <2> QED
    BY <2>4, <2>5, <2>6, <2>7 DEF ApprovalIInv
<1>7. ASSUME NEW r \in Requests, TimeIsOver(r)
      PROVE  ApprovalIInv' /\ Decided
  BY <1>7, ZenonT(60) DEF TimeIsOver, ApprovalIInv, ApprovalTypeOK, EntriesAreNamed, OpenRequestIsKept,
     AskedSameId, ToldADecision, UsedUp, EntryAt, Decided
<1>8. ASSUME NEW r \in Requests, TimerExpires(r)
      PROVE  ApprovalIInv' /\ Decided
  <2>1. /\ ExpireById(ApprovalId[r], "timed out")
        /\ UNCHANGED <<approval, expired, handler, client, asked, told, uses>>
    BY <1>8 DEF TimerExpires
  <2>2. ApprovalId[r] \in Ids
    BY DEF Ids
  <2> QED
    BY <2>1, <2>2, ExpireFacts, DecidingStep DEF ApprovalIInv, ApprovalTypeOK
<1>9. ASSUME NEW r \in Requests, GraceEnds(r)
      PROVE  ApprovalIInv' /\ Decided
  <2>1. /\ EntryAt(r) = r /\ promise[r] # "open"
        /\ approval' = [approval EXCEPT ![ApprovalId[r]] = NoRequest]
        /\ UNCHANGED <<record, promise, expired, handler, client, asked, told, uses>>
    BY <1>9 DEF GraceEnds
  <2>2. \A q \in Requests :
          /\ ApprovalId[q] = ApprovalId[r] => EntryAt(q) = r /\ EntryAt(q)' = NoRequest
          /\ ApprovalId[q] # ApprovalId[r] => EntryAt(q)' = EntryAt(q)
    BY <2>1 DEF ApprovalIInv, ApprovalTypeOK, EntryAt, Ids
  <2>3. ApprovalTypeOK'
    BY <2>1 DEF ApprovalIInv, ApprovalTypeOK, Ids
  <2>4. EntriesAreNamed'
    BY <2>2 DEF ApprovalIInv, EntriesAreNamed
  <2>5. OpenRequestIsKept'
    BY <2>1, <2>2 DEF ApprovalIInv, OpenRequestIsKept
  <2>6. (AskedSameId /\ ToldADecision /\ UsedUp)' /\ Decided
    BY <2>1 DEF ApprovalIInv, AskedSameId, ToldADecision, UsedUp, Decided
  <2> QED
    BY <2>3, <2>4, <2>5, <2>6 DEF ApprovalIInv
<1>10. ASSUME NEW id \in Ids, NEW d \in Decisions, Resolve(id, d)
       PROVE  ApprovalIInv' /\ Decided
  <2>1. /\ approval[id] # NoRequest /\ Decide(approval[id], d, d)
        /\ UNCHANGED <<approval, expired, handler, client, asked, told, uses>>
    BY <1>10 DEF Resolve
  <2>2. approval[id] \in Requests
    BY <2>1, ZenonT(30) DEF ApprovalIInv, ApprovalTypeOK
  <2>3. /\ record' \in [Requests -> Decisions \cup {"open", "timed out", "no approver", "used"}]
        /\ promise' \in [Requests -> Values]
        /\ \A q \in Requests : record'[q] = "open" <=> promise'[q] = "open"
        /\ Decided
    BY <2>1, <2>2, DecideFacts DEF ApprovalIInv
  <2> QED
    BY <2>1, <2>3, DecidingStep DEF ApprovalIInv, ApprovalTypeOK
<1>11. CASE UNCHANGED approvalVars
  BY <1>11, ZenonT(30) DEF approvalVars, ApprovalIInv, ApprovalTypeOK, EntriesAreNamed, OpenRequestIsKept,
     AskedSameId, ToldADecision, UsedUp, EntryAt, Decided
<1> QED
  BY <1>1, <1>2, <1>3, <1>4, <1>5, <1>6, <1>7, <1>8, <1>9, <1>10, <1>11 DEF ApprovalNext

LEMMA ApprovalInvariance == ApprovalSpec => []ApprovalIInv
BY ApprovalInitInv, ApprovalNextInv, PTL DEF ApprovalSpec

-----------------------------------------------------------------------------
(* Approvals: the properties *)

\* A request stays known until it is decided, clients are told what was decided on a
\* request with their id, and an approval for one run allows one run.
THEOREM ApprovalsAreSound == ApprovalSpec => []ApprovalInv
<1>1. ApprovalIInv => ApprovalInv
  <2> SUFFICES ASSUME ApprovalIInv PROVE ToldWhatWasDecided /\ AllowedOnce
    BY DEF ApprovalIInv, ApprovalInv
  <2>1. ToldWhatWasDecided
    BY DEF ApprovalIInv, ToldADecision, ToldWhatWasDecided
  <2>2. AllowedOnce
    <3> SUFFICES ASSUME NEW r \in Requests PROVE uses[r] <= 1
      BY DEF AllowedOnce
    <3>1. uses[r] = 0 \/ uses[r] = 1
      BY DEF ApprovalIInv, UsedUp
    <3> QED
      BY <3>1
  <2> QED
    BY <2>1, <2>2
<1> QED
  BY <1>1, ApprovalInvariance, PTL

\* The first decision on a request counts: no operator, timer or expiry changes it.
THEOREM FirstDecisionStands == ApprovalSpec => FirstDecisionCounts
<1>1. ApprovalIInv /\ [ApprovalNext]_approvalVars =>
        [\A r \in Requests : promise[r] # "open" => promise'[r] = promise[r]]_approvalVars
  BY ApprovalNextInv DEF Decided
<1> QED
  BY <1>1, ApprovalInvariance, PTL DEF ApprovalSpec, FirstDecisionCounts

-----------------------------------------------------------------------------
(* Configuration: the inductive invariant *)

ReloadTypes ==
  /\ conf \in Config \cup Unreadable /\ snapshot \in Config \cup Unreadable
  /\ currentConf \in Config /\ live \in Config
  /\ edits \in 0..MaxEdits /\ missingTries \in 0..MissingRetries
  /\ watcher \in {"starting", "on", "failed", "stopped"}
  /\ reloading \in {"no", "reading", "read", "applying"}
  /\ restart \in {"no", "checking", "asked", "skipped"} /\ (restart # "no" <=> restartQueued)
  /\ reloadPending => reloading # "no"
  /\ watcher = "stopped" => ~changed /\ ~debounce
  /\ changed \in BOOLEAN /\ debounce \in BOOLEAN /\ reloadPending \in BOOLEAN
  /\ restartQueued \in BOOLEAN /\ unseen \in BOOLEAN /\ passedOver \in BOOLEAN

\* Nothing is on its way before the watcher is up, and nothing has changed unseen.
BeforeWatch ==
  watcher = "starting" =>
    /\ ~changed /\ ~debounce /\ reloading = "no"
    /\ ~unseen => conf = currentConf

\* Somebody will read the file again.
Coming == changed \/ debounce \/ reloadPending \/ reloading = "reading"

\* A usable content that is not recorded has been read, or will be; and it will be when
\* something else was read.
Usable == watcher = "on" /\ ~unseen /\ conf \in Config
UnrecordedIsComing ==
  Usable /\ conf # currentConf => Coming \/ (reloading = "read" /\ snapshot = conf)
OutdatedIsComing == Usable /\ reloading = "read" /\ snapshot # conf => Coming

\* What is applied in place is recorded, and it differs from what is in effect in nothing
\* that needs a restart, unless one is under way.
AppliesRecorded == reloading = "applying" => snapshot = currentConf
InEffect ==
  ~passedOver =>
    \/ restart \in {"checking", "asked"}
    \/ live.cold = currentConf.cold /\ (reloading = "applying" \/ live = currentConf)
SkippedIsPassedOver == restart = "skipped" => passedOver

ReloadIInv ==
  /\ ReloadTypes /\ BeforeWatch /\ UnrecordedIsComing /\ OutdatedIsComing
  /\ AppliesRecorded /\ InEffect /\ SkippedIsPassedOver

\* No mode that can be chosen is the mark of an unreadable file.
LEMMA UsableIsReadable ==
  /\ Missing \notin Config /\ Invalid \notin Config
  /\ \A c \in Config : c.cold \in 0..MaxEdits /\ c.hot \in 0..MaxEdits /\ c.mode \in ReloadModes
  /\ \A c, d \in Config : c.cold = d.cold /\ c.hot = d.hot /\ c.mode = d.mode => c = d
<1>1. "missing" \notin ReloadModes /\ "invalid" \notin ReloadModes
  BY ReloadAssumption
<1> QED
  BY <1>1 DEF Config, Missing, Invalid

LEMMA ReloadInitInv == ReloadInit => ReloadIInv
<1> SUFFICES ASSUME ReloadInit PROVE ReloadIInv
  OBVIOUS
<1>1. conf \in Config /\ currentConf = conf /\ live = conf /\ snapshot = conf
  BY ReloadAssumption DEF ReloadInit, Config
<1>2. 0 \in 0..MaxEdits /\ 0 \in 0..MissingRetries
  BY ReloadAssumption
<1>3. ReloadTypes
  BY <1>1, <1>2, Zenon DEF ReloadInit, ReloadTypes
<1> QED
  BY <1>1, <1>3 DEF ReloadInit, ReloadIInv, BeforeWatch, UnrecordedIsComing, OutdatedIsComing,
     Usable, Coming, AppliesRecorded, InEffect, SkippedIsPassedOver

-----------------------------------------------------------------------------
(* Configuration: the steps *)

USE DEF watched, applied

LEMMA EditStep == ReloadIInv /\ Edit => ReloadIInv'
<1> SUFFICES ASSUME ReloadIInv, Edit PROVE ReloadIInv'
  OBVIOUS
<1>1. edits + 1 \in 0..MaxEdits
  BY ReloadAssumption DEF Edit, ReloadIInv, ReloadTypes
<1>2. conf' \in Config \cup Unreadable
  <2>1. CASE conf' \in Unreadable
    BY <2>1
  <2>2. CASE conf \in Config /\ conf' \notin Unreadable
    BY <1>1, <2>2 DEF Edit, Edited, Config
  <2>3. CASE conf \notin Config /\ conf' \notin Unreadable
    <3>1. conf' \in {[currentConf EXCEPT !.hot = edits + 1], currentConf}
      BY <2>3 DEF Edit, Edited
    <3> QED
      BY <1>1, <3>1 DEF ReloadIInv, ReloadTypes, Config
  <2> QED
    BY <2>1, <2>2, <2>3
<1>3. ReloadTypes'
  BY <1>1, <1>2 DEF Edit, ReloadIInv, ReloadTypes
<1> QED
  BY <1>3 DEF Edit, ReloadIInv, ReloadTypes, BeforeWatch, UnrecordedIsComing, OutdatedIsComing, Usable,
     Coming, AppliesRecorded, InEffect, SkippedIsPassedOver

\* The watcher comes up, reports, fails or is closed.
LEMMA WatcherSteps ==
  ReloadIInv /\ (Watch \/ WatcherReports \/ WatcherFails \/ StopReloader) => ReloadIInv'
<1> SUFFICES ASSUME ReloadIInv, Watch \/ WatcherReports \/ WatcherFails \/ StopReloader
             PROVE  ReloadIInv'
  OBVIOUS
<1>1. CASE Watch
  BY <1>1 DEF Watch, ReloadIInv, ReloadTypes, BeforeWatch, UnrecordedIsComing, OutdatedIsComing,
     Usable, Coming, AppliesRecorded, InEffect, SkippedIsPassedOver
<1>2. CASE WatcherReports
  BY <1>2, ZenonT(30) DEF WatcherReports, ReloadIInv, ReloadTypes, BeforeWatch, UnrecordedIsComing,
     OutdatedIsComing, Usable, Coming, AppliesRecorded, InEffect, SkippedIsPassedOver
<1>3. CASE WatcherFails
  BY <1>3, ZenonT(30) DEF WatcherFails, ReloadIInv, ReloadTypes, BeforeWatch, UnrecordedIsComing,
     OutdatedIsComing, Usable, Coming, AppliesRecorded, InEffect, SkippedIsPassedOver
<1>4. CASE StopReloader
  BY <1>4, ZenonT(30) DEF StopReloader, ReloadIInv, ReloadTypes, BeforeWatch, UnrecordedIsComing,
     OutdatedIsComing, Usable, Coming, AppliesRecorded, InEffect, SkippedIsPassedOver
<1> QED
  BY <1>1, <1>2, <1>3, <1>4

LEMMA RunReloadStep == ReloadIInv /\ (RunReload \/ ReadSnapshot) => ReloadIInv'
<1> SUFFICES ASSUME ReloadIInv, RunReload \/ ReadSnapshot PROVE ReloadIInv'
  OBVIOUS
<1>1. CASE RunReload
  BY <1>1, ZenonT(30) DEF RunReload, ReloadIInv, ReloadTypes, BeforeWatch, UnrecordedIsComing, OutdatedIsComing,
     Usable, Coming, AppliesRecorded, InEffect, SkippedIsPassedOver
<1>2. CASE ReadSnapshot
  BY <1>2 DEF ReadSnapshot, ReloadIInv, ReloadTypes, BeforeWatch, UnrecordedIsComing,
     OutdatedIsComing, Usable, Coming, AppliesRecorded, InEffect, SkippedIsPassedOver
<1> QED
  BY <1>1, <1>2

\* What was asked for during a reload that ends has set the timer.
LEMMA EndReloadKeeps ==
  ASSUME ReloadIInv, NEW again \in BOOLEAN, EndReload(again), UNCHANGED watched
  PROVE  /\ reloading' = "no" /\ reloadPending' \in BOOLEAN /\ debounce' \in BOOLEAN /\ ~reloadPending'
         /\ watcher = "stopped" => ~debounce'
         /\ reloading # "no" => (BeforeWatch' /\ (Coming /\ watcher = "on" /\ reloading # "reading" => Coming'))
BY DEF EndReload, ReloadIInv, ReloadTypes, BeforeWatch, Coming

LEMMA SkipStep == ReloadIInv /\ Skip => ReloadIInv'
<1> SUFFICES ASSUME ReloadIInv, Skip PROVE ReloadIInv'
  OBVIOUS
<1> DEFINE retry == snapshot = Missing /\ missingTries < MissingRetries
<1>1. /\ reloading = "read" /\ snapshot \in Unreadable /\ snapshot \notin Config
      /\ EndReload(retry) /\ retry \in BOOLEAN
      /\ UNCHANGED watched /\ UNCHANGED applied /\ UNCHANGED snapshot
  BY UsableIsReadable DEF Skip, Unreadable
<1>2. /\ reloading' = "no" /\ reloadPending' \in BOOLEAN /\ debounce' \in BOOLEAN /\ ~reloadPending'
      /\ watcher = "stopped" => ~debounce'
      /\ BeforeWatch' /\ (Coming /\ watcher = "on" => Coming')
  BY <1>1, EndReloadKeeps
<1>3. missingTries' \in 0..MissingRetries
  BY ReloadAssumption DEF Skip, ReloadIInv, ReloadTypes
<1>4. ReloadTypes'
  BY <1>1, <1>2, <1>3 DEF ReloadIInv, ReloadTypes
<1>5. (UnrecordedIsComing /\ OutdatedIsComing)'
  <2>1. Usable => Coming
    BY <1>1 DEF ReloadIInv, OutdatedIsComing, Usable
  <2> QED
    BY <1>1, <1>2, <2>1 DEF UnrecordedIsComing, OutdatedIsComing, Usable
<1>6. (AppliesRecorded /\ InEffect /\ SkippedIsPassedOver)'
  BY <1>1, <1>2 DEF ReloadIInv, AppliesRecorded, InEffect, SkippedIsPassedOver
<1> QED
  BY <1>2, <1>4, <1>5, <1>6 DEF ReloadIInv

LEMMA ApplyStep == ReloadIInv /\ Apply => ReloadIInv'
<1> SUFFICES ASSUME ReloadIInv, Apply PROVE ReloadIInv'
  OBVIOUS
<1>1. /\ reloading = "read" /\ snapshot \in Config /\ missingTries' = 0 /\ currentConf' = snapshot
      /\ UNCHANGED watched /\ UNCHANGED snapshot /\ UNCHANGED live
  BY DEF Apply
<1>2. Usable /\ conf # currentConf' => Coming
  BY <1>1 DEF ReloadIInv, OutdatedIsComing
<1>3. CASE EndReload(FALSE)
  <2>1. /\ reloading' = "no" /\ reloadPending' \in BOOLEAN /\ debounce' \in BOOLEAN /\ ~reloadPending'
        /\ watcher = "stopped" => ~debounce'
        /\ BeforeWatch' /\ (Coming /\ watcher = "on" => Coming')
    BY <1>1, <1>3, EndReloadKeeps
  <2>2. \/ /\ snapshot = currentConf \/ passedOver'
           /\ (passedOver => passedOver') /\ passedOver' \in BOOLEAN
           /\ UNCHANGED <<restartQueued, restart>>
        \/ QueueRestart /\ UNCHANGED passedOver
    BY <1>1, <2>1 DEF Apply, ReloadIInv, ReloadTypes
  <2>3. /\ restart' \in {"no", "checking", "asked", "skipped"} /\ (restart' # "no" <=> restartQueued')
        /\ restartQueued' \in BOOLEAN /\ passedOver' \in BOOLEAN
    <3>1. CASE QueueRestart /\ UNCHANGED passedOver
      <4>1. restartQueued' = TRUE /\ restart' = IF restartQueued THEN restart ELSE "checking"
        BY <3>1 DEF QueueRestart
      <4>2. CASE restartQueued
        BY <3>1, <4>1, <4>2, Zenon DEF ReloadIInv, ReloadTypes
      <4>3. CASE ~restartQueued
        BY <3>1, <4>1, <4>3 DEF ReloadIInv, ReloadTypes
      <4> QED
        BY <4>2, <4>3
    <3>2. CASE UNCHANGED <<restartQueued, restart>> /\ passedOver' \in BOOLEAN
      BY <3>2 DEF ReloadIInv, ReloadTypes
    <3> QED
      BY <2>2, <3>1, <3>2
  <2>4. ReloadTypes'
    BY <1>1, <2>1, <2>3, ReloadAssumption DEF ReloadIInv, ReloadTypes
  <2>5. (UnrecordedIsComing /\ OutdatedIsComing /\ AppliesRecorded)'
    BY <1>1, <1>2, <2>1 DEF UnrecordedIsComing, OutdatedIsComing, Usable, AppliesRecorded
  <2>6. (InEffect /\ SkippedIsPassedOver)'
    BY <1>1, <2>2 DEF QueueRestart, ReloadIInv, ReloadTypes, InEffect, SkippedIsPassedOver
  <2> QED
    BY <2>1, <2>4, <2>5, <2>6 DEF ReloadIInv
<1>4. CASE /\ snapshot.cold = currentConf.cold /\ reloading' = "applying"
           /\ UNCHANGED <<restartQueued, restart, debounce, reloadPending, passedOver>>
  <2>1. ReloadTypes'
    BY <1>1, <1>4, ReloadAssumption DEF ReloadIInv, ReloadTypes
  <2>2. (BeforeWatch /\ UnrecordedIsComing /\ OutdatedIsComing /\ AppliesRecorded)'
    BY <1>1, <1>2, <1>4 DEF ReloadIInv, BeforeWatch, UnrecordedIsComing, OutdatedIsComing, Usable,
       Coming, AppliesRecorded
  <2>3. (InEffect /\ SkippedIsPassedOver)'
    BY <1>1, <1>4 DEF ReloadIInv, InEffect, SkippedIsPassedOver
  <2> QED
    BY <2>1, <2>2, <2>3 DEF ReloadIInv
<1> QED
  BY <1>3, <1>4 DEF Apply

LEMMA AppliedStep == ReloadIInv /\ Applied => ReloadIInv'
<1> SUFFICES ASSUME ReloadIInv, Applied PROVE ReloadIInv'
  OBVIOUS
<1>1. /\ reloading = "applying" /\ snapshot = currentConf /\ EndReload(FALSE)
      /\ UNCHANGED watched
      /\ UNCHANGED <<snapshot, missingTries, currentConf, restartQueued, restart>>
  BY DEF Applied, ReloadIInv, AppliesRecorded
<1>2. /\ reloading' = "no" /\ reloadPending' \in BOOLEAN /\ debounce' \in BOOLEAN /\ ~reloadPending'
      /\ watcher = "stopped" => ~debounce'
      /\ BeforeWatch' /\ (Coming /\ watcher = "on" => Coming')
  BY <1>1, EndReloadKeeps
<1>3. \/ /\ live' \in Config /\ UNCHANGED passedOver
         /\ live.cold = currentConf.cold => live' = currentConf
      \/ passedOver' = TRUE /\ UNCHANGED live
  <2>1. live \in Config /\ snapshot \in Config
    BY <1>1 DEF ReloadIInv, ReloadTypes
  <2>2. CASE live' = [live EXCEPT !.hot = snapshot.hot, !.mode = snapshot.mode] /\ UNCHANGED passedOver
    <3>1. /\ live' \in Config /\ live'.cold = live.cold
          /\ live'.hot = snapshot.hot /\ live'.mode = snapshot.mode
      BY <2>1, <2>2 DEF Config
    <3> QED
      BY <1>1, <2>1, <2>2, <3>1, UsableIsReadable
  <2> QED
    BY <2>2 DEF Applied
<1>4. ReloadTypes'
  BY <1>1, <1>2, <1>3 DEF ReloadIInv, ReloadTypes
<1>5. (UnrecordedIsComing /\ OutdatedIsComing /\ AppliesRecorded)'
  BY <1>1, <1>2 DEF ReloadIInv, UnrecordedIsComing, OutdatedIsComing, Usable, AppliesRecorded
<1>6. (InEffect /\ SkippedIsPassedOver)'
  BY <1>1, <1>3 DEF ReloadIInv, ReloadTypes, InEffect, SkippedIsPassedOver
<1> QED
  BY <1>2, <1>4, <1>5, <1>6 DEF ReloadIInv

LEMMA RestartCheckedStep == ReloadIInv /\ RestartChecked => ReloadIInv'
<1> SUFFICES ASSUME ReloadIInv, RestartChecked PROVE ReloadIInv'
  OBVIOUS
<1>1. /\ restart = "checking" /\ restartQueued
      /\ UNCHANGED <<watched, debounce, reloading, snapshot, reloadPending, missingTries,
                     currentConf, live>>
  BY DEF RestartChecked, ReloadIInv, ReloadTypes
<1>2. \/ restart' = "asked" /\ UNCHANGED <<restartQueued, passedOver>>
      \/ restart' = "skipped" /\ passedOver' = TRUE /\ UNCHANGED restartQueued
      \/ restart' = "no" /\ restartQueued' = FALSE /\ passedOver' = TRUE
  BY DEF RestartChecked
<1>3. ReloadTypes'
  <2>1. /\ restart' \in {"no", "checking", "asked", "skipped"}
        /\ (restart' # "no" <=> restartQueued')
        /\ restartQueued' \in BOOLEAN /\ passedOver' \in BOOLEAN
    <3>1. passedOver \in BOOLEAN /\ restartQueued \in BOOLEAN
      BY DEF ReloadIInv, ReloadTypes
    <3>2. CASE restart' = "asked" /\ UNCHANGED <<restartQueued, passedOver>>
      BY <1>1, <3>1, <3>2
    <3>3. CASE restart' = "skipped" /\ passedOver' = TRUE /\ UNCHANGED restartQueued
      BY <1>1, <3>1, <3>3
    <3>4. CASE restart' = "no" /\ restartQueued' = FALSE /\ passedOver' = TRUE
      BY <3>4
    <3> QED
      BY <1>2, <3>2, <3>3, <3>4
  <2> QED
    BY <1>1, <2>1 DEF ReloadIInv, ReloadTypes
<1>4. (BeforeWatch /\ UnrecordedIsComing /\ OutdatedIsComing /\ AppliesRecorded)'
  BY <1>1 DEF ReloadIInv, BeforeWatch, UnrecordedIsComing, OutdatedIsComing, Usable, Coming,
     AppliesRecorded
<1>5. (InEffect /\ SkippedIsPassedOver)'
  BY <1>1, <1>2 DEF ReloadIInv, InEffect, SkippedIsPassedOver
<1> QED
  BY <1>3, <1>4, <1>5 DEF ReloadIInv

LEMMA ReloadNextInv == ReloadIInv /\ [ReloadNext]_reloadVars => ReloadIInv'
<1>1. ReloadIInv /\ UNCHANGED reloadVars => ReloadIInv'
  BY DEF reloadVars, ReloadIInv, ReloadTypes, BeforeWatch, UnrecordedIsComing, OutdatedIsComing,
     Usable, Coming, AppliesRecorded, InEffect, SkippedIsPassedOver
<1> QED
  BY <1>1, EditStep, WatcherSteps, RunReloadStep, SkipStep, ApplyStep, AppliedStep,
     RestartCheckedStep DEF ReloadNext

-----------------------------------------------------------------------------
(* Configuration: the properties *)

LEMMA ReloadIInvImplies == ReloadIInv => ReloadInv
<1> SUFFICES ASSUME ReloadIInv PROVE ReloadInv
  OBVIOUS
<1>1. ReloadTypeOK
  BY DEF ReloadIInv, ReloadTypes, ReloadTypeOK
<1>2. ChangesAreNoticed
  BY DEF ReloadIInv, ReloadTypes, UnrecordedIsComing, Usable, Coming, ChangesAreNoticed, Quiet
<1>3. RecordedIsApplied
  BY DEF ReloadIInv, ReloadTypes, InEffect, RecordedIsApplied, Quiet
<1> QED
  BY <1>1, <1>2, <1>3 DEF ReloadInv

\* However edits, reports of the watcher, timers, reloads and restarts overlap: what the
\* file says is recorded or will be read, and what was recorded is in effect or a restart
\* was asked for, with the exceptions the properties name (config-reload.ts).
THEOREM ChangesTakeEffect == ReloadSpec => []ReloadInv
<1>1. ReloadSpec => []ReloadIInv
  BY ReloadInitInv, ReloadNextInv, PTL DEF ReloadSpec
<1> QED
  BY <1>1, ReloadIInvImplies, PTL

-----------------------------------------------------------------------------
(* Channels: the inductive invariant *)

AliveTasks == {k \in TaskSlots : task[k] # "free"}
AllFree == \A k \in TaskSlots : task[k] = "free"

\* A failure beyond the last attempt ends its task, and no task comes to be without
\* the attempts being forgotten: there is at most one such failure for each slot.
FailuresEndTasks ==
  attempts > MaxAttempts =>
    attempts + Cardinality(AliveTasks) <= MaxAttempts + Cardinality(TaskSlots)

ChannelShape ==
  /\ task \in [TaskSlots -> {"free", "running", "backoff", "restarting"}]
  /\ aborted \subseteq TaskSlots
  /\ taskOf \in TaskSlots \cup {0} /\ abortOf \in TaskSlots \cup {0}
  /\ configured \in BOOLEAN /\ running \in BOOLEAN /\ manual \in BOOLEAN
  /\ raced \in BOOLEAN /\ hookThrew \in BOOLEAN
  /\ attempts \in Nat /\ restarts \in Nat
  /\ starting \in [AllCallers -> BOOLEAN]
  /\ stopping \in [AllCallers -> [at : {"no", "hook", "task"}, task : TaskSlots \cup {0}]]

\* The two tables name one task, which is alive.
TablesAgree ==
  /\ taskOf = abortOf
  /\ taskOf # 0 => task[taskOf] \in {"running", "backoff"}
  /\ \A k \in TaskSlots : task[k] \in {"running", "backoff"} => taskOf = k

\* Who checks the configuration, to start the account, is alone with it.
StartsAlone ==
  \A c \in AllCallers : starting[c] =>
    /\ AllFree /\ ~BeingStopped
    /\ \A d \in AllCallers : starting[d] => d = c

\* So is a task that restarts it, which has left the tables.
RestartsAlone ==
  \A k \in TaskSlots : task[k] = "restarting" =>
    /\ taskOf = 0 /\ ~manual /\ ~BeingStopped
    /\ \A c \in AllCallers : ~starting[c]
    /\ \A j \in TaskSlots : task[j] # "free" => j = k

\* Whoever stops the account awaits the task it is known by, if there still is one.
StopsTheTask ==
  \A c \in AllCallers : stopping[c].at # "no" => manual /\ stopping[c].task = taskOf

\* The account is marked as stopped, and not all is over, only during a stop or when the
\* hook of one has thrown; its task is told either way.
MarkedIsBeingStopped == manual => AllFree \/ BeingStopped \/ hookThrew
MarkedIsTold == manual => \A k \in TaskSlots : task[k] = "free" \/ k \in aborted

\* Each restart but one has a failure behind it: the health monitor may forget the
\* failures while a restart is under way.
RestartsAreCounted ==
  /\ restarts <= MaxAttempts + 1
  /\ \A k \in TaskSlots :
       /\ task[k] # "free" => attempts <= MaxAttempts
       /\ task[k] = "running" => restarts <= attempts + 1
       /\ task[k] \in {"backoff", "restarting"} => restarts <= attempts

Status == running <=> \E k \in TaskSlots : task[k] = "running"

\* All of these as long as no start has overlapped with another start or with a stop.
CalmInv ==
  /\ TablesAgree /\ StartsAlone /\ RestartsAlone /\ StopsTheTask
  /\ MarkedIsBeingStopped /\ MarkedIsTold /\ RestartsAreCounted /\ Status

ChannelIInv == ChannelShape /\ FailuresEndTasks /\ (~raced => CalmInv)

LEMMA ChannelInitInv == ChannelInit => ChannelIInv
<1> SUFFICES ASSUME ChannelInit PROVE ChannelIInv
  OBVIOUS
<1>1. /\ task = [k \in TaskSlots |-> "free"]
      /\ aborted = {} /\ taskOf = 0 /\ abortOf = 0
      /\ configured \in BOOLEAN /\ running = FALSE
      /\ manual = FALSE /\ attempts = 0 /\ restarts = 0 /\ raced = FALSE /\ hookThrew = FALSE
      /\ starting = [c \in AllCallers |-> FALSE]
      /\ stopping = [c \in AllCallers |-> [at |-> "no", task |-> 0]]
  BY DEF ChannelInit, NotStopping
<1>2. ChannelShape
  BY <1>1 DEF ChannelShape
<1>3. FailuresEndTasks
  BY <1>1, ChannelAssumption DEF FailuresEndTasks
<1>4. TablesAgree /\ StartsAlone /\ RestartsAlone /\ StopsTheTask
  BY <1>1 DEF TablesAgree, StartsAlone, RestartsAlone, StopsTheTask
<1>5. MarkedIsBeingStopped /\ MarkedIsTold /\ RestartsAreCounted /\ Status
  BY <1>1, ChannelAssumption DEF MarkedIsBeingStopped, MarkedIsTold, RestartsAreCounted, Status
<1> QED
  BY <1>2, <1>3, <1>4, <1>5 DEF ChannelIInv, CalmInv

-----------------------------------------------------------------------------
(* Channels: the tasks *)

\* Tasks that are alive are counted by slots, and one that ends is one less.
LEMMA AliveCounts ==
  ASSUME ChannelShape
  PROVE  /\ IsFiniteSet(AliveTasks)
         /\ Cardinality(AliveTasks) \in Nat /\ Cardinality(TaskSlots) \in Nat
         /\ Cardinality(AliveTasks) <= Cardinality(TaskSlots)
         /\ \A k \in AliveTasks : Cardinality(AliveTasks \ {k}) = Cardinality(AliveTasks) - 1
<1>1. IsFiniteSet(TaskSlots) /\ AliveTasks \subseteq TaskSlots
  BY ChannelAssumption DEF AliveTasks
<1>2. IsFiniteSet(AliveTasks) /\ Cardinality(AliveTasks) <= Cardinality(TaskSlots)
  BY <1>1, FS_Subset
<1>3. Cardinality(AliveTasks) \in Nat /\ Cardinality(TaskSlots) \in Nat
  BY <1>1, <1>2, FS_CardinalityType
<1> QED
  BY <1>2, <1>3, FS_RemoveElement

\* A task that runs, or waits to be restarted, is the account's only one.
LEMMA OnlyTask ==
  ASSUME ChannelShape, CalmInv, NEW k \in TaskSlots, task[k] \in {"running", "backoff"}
  PROVE  /\ taskOf = k /\ abortOf = k
         /\ \A j \in TaskSlots : j # k => task[j] = "free"
         /\ \A c \in AllCallers : ~starting[c]
         /\ \A c \in AllCallers : stopping[c].at # "no" => stopping[c].task = k
<1>1. taskOf = k /\ abortOf = k /\ k # 0
  BY ChannelAssumption DEF CalmInv, TablesAgree
<1>2. \A j \in TaskSlots : j # k => task[j] = "free"
  BY <1>1 DEF CalmInv, TablesAgree, RestartsAlone, ChannelShape
<1>3. \A c \in AllCallers : ~starting[c]
  BY DEF CalmInv, StartsAlone, AllFree
<1> QED
  BY <1>1, <1>2, <1>3 DEF CalmInv, StopsTheTask

\* What the last finally block leaves.
LEMMA TaskOverFacts ==
  ASSUME ChannelShape, NEW k \in TaskSlots, task[k] # "free", TaskOver(k)
  PROVE  /\ task' \in [TaskSlots -> {"free", "running", "backoff", "restarting"}]
         /\ \A j \in TaskSlots : task'[j] = IF j = k THEN "free" ELSE task[j]
         /\ aborted' \subseteq TaskSlots
         /\ taskOf' = IF taskOf = k THEN 0 ELSE taskOf
         /\ abortOf' = IF abortOf = k THEN 0 ELSE abortOf
         /\ stopping' \in [AllCallers -> [at : {"no", "hook", "task"}, task : TaskSlots \cup {0}]]
         /\ \A c \in AllCallers :
              /\ stopping'[c].at = stopping[c].at
              /\ stopping'[c].task = IF stopping[c].task = k THEN 0 ELSE stopping[c].task
         /\ Cardinality(AliveTasks') = Cardinality(AliveTasks) - 1
<1>1. /\ task' = [task EXCEPT ![k] = "free"]
      /\ aborted' = aborted \ {k}
      /\ taskOf' = IF taskOf = k THEN 0 ELSE taskOf
      /\ abortOf' = IF abortOf = k THEN 0 ELSE abortOf
  BY DEF TaskOver
<1>2. stopping' = [c \in AllCallers |->
        IF stopping[c].task = k THEN [stopping[c] EXCEPT !.task = 0] ELSE stopping[c]]
  BY DEF TaskOver, WaitersReleased
<1>3. \A c \in AllCallers :
        /\ stopping'[c] \in [at : {"no", "hook", "task"}, task : TaskSlots \cup {0}]
        /\ stopping'[c].at = stopping[c].at
        /\ stopping'[c].task = IF stopping[c].task = k THEN 0 ELSE stopping[c].task
  <2> TAKE c \in AllCallers
  <2>1. stopping[c] \in [at : {"no", "hook", "task"}, task : TaskSlots \cup {0}]
    BY DEF ChannelShape
  <2> QED
    BY <1>2, <2>1
<1>4. \A j \in TaskSlots : task'[j] = IF j = k THEN "free" ELSE task[j]
  BY <1>1 DEF ChannelShape
<1>5. AliveTasks' = AliveTasks \ {k} /\ k \in AliveTasks
  BY <1>4 DEF AliveTasks
<1>6. Cardinality(AliveTasks') = Cardinality(AliveTasks) - 1
  BY <1>5, AliveCounts
<1> QED
  BY <1>1, <1>2, <1>3, <1>4, <1>6 DEF ChannelShape

LEMMA FailuresKept ==
  ASSUME ChannelIInv, attempts' = 0 \/ (attempts' = attempts /\ task' = task)
  PROVE  FailuresEndTasks'
BY ChannelAssumption DEF ChannelIInv, FailuresEndTasks, AliveTasks

\* Without a check under way nobody starts and no task restarts.
LEMMA NotChecking ==
  ASSUME ChannelShape, ~Checking
  PROVE  /\ \A c \in AllCallers : starting[c] = FALSE
         /\ \A k \in TaskSlots : task[k] # "restarting"
BY DEF Checking, ChannelShape

-----------------------------------------------------------------------------
(* Channels: starts and stops *)

LEMMA StartChannelStep ==
  ASSUME ChannelIInv, NEW c \in AllCallers, StartChannel(c)
  PROVE  ChannelIInv'
<1>0. ChannelShape /\ FailuresEndTasks
  BY DEF ChannelIInv
<1>1. /\ taskOf = 0
      /\ starting' = [starting EXCEPT ![c] = TRUE]
      /\ raced' = (raced \/ Checking \/ BeingStopped)
      /\ UNCHANGED <<task, aborted, taskOf, abortOf, configured, running, manual, attempts,
                     stopping, restarts, hookThrew>>
  BY DEF StartChannel, storeVars
<1>2. ChannelShape'
  <2>1. raced' \in BOOLEAN
    BY <1>1
  <2>2. starting' \in [AllCallers -> BOOLEAN]
    BY <1>0, <1>1 DEF ChannelShape
  <2> QED
    BY <1>0, <1>1, <2>1, <2>2 DEF ChannelShape
<1>3. FailuresEndTasks'
  BY <1>1, FailuresKept
<1>4. ASSUME ~raced'
      PROVE  CalmInv'
  <2>1. ~raced /\ ~Checking /\ ~BeingStopped /\ CalmInv
    BY <1>1, <1>4 DEF ChannelIInv
  <2>2. /\ \A d \in AllCallers : starting[d] = FALSE
        /\ \A k \in TaskSlots : task[k] # "restarting"
    BY <1>0, <2>1, NotChecking
  <2>3. AllFree
    BY <1>0, <1>1, <2>1, <2>2, ChannelAssumption DEF AllFree, CalmInv, TablesAgree, ChannelShape
  <2>4. \A d \in AllCallers : starting'[d] => d = c
    BY <1>0, <1>1, <2>2 DEF ChannelShape
  <2>5. AllFree' /\ ~BeingStopped'
    BY <1>1, <2>1, <2>3 DEF AllFree, BeingStopped
  <2>6. StartsAlone'
    BY <2>4, <2>5 DEF StartsAlone
  <2>7. TablesAgree' /\ RestartsAlone' /\ StopsTheTask'
    BY <1>1, <2>1, <2>2 DEF CalmInv, TablesAgree, RestartsAlone, StopsTheTask
  <2>8. MarkedIsBeingStopped' /\ MarkedIsTold' /\ RestartsAreCounted' /\ Status'
    BY <1>1, <2>1, <2>5 DEF CalmInv, MarkedIsBeingStopped, MarkedIsTold, RestartsAreCounted, Status
  <2> QED
    BY <2>6, <2>7, <2>8 DEF CalmInv
<1> QED
  BY <1>2, <1>3, <1>4 DEF ChannelIInv

LEMMA StopChannelStep ==
  ASSUME ChannelIInv, NEW c \in AllCallers, StopChannel(c)
  PROVE  ChannelIInv'
<1>0. ChannelShape /\ FailuresEndTasks
  BY DEF ChannelIInv
<1> DEFINE place == IF StopHook THEN "hook" ELSE "task"
<1>1. /\ manual' = TRUE
      /\ aborted' = aborted \cup ({abortOf} \ {0})
      /\ stopping' = [stopping EXCEPT ![c] = [at |-> place, task |-> taskOf]]
      /\ raced' = (raced \/ Checking)
      /\ UNCHANGED <<task, taskOf, abortOf, configured, running, attempts, starting, restarts,
                     hookThrew>>
  BY DEF StopChannel
<1>2. /\ place \in {"hook", "task"}
      /\ \A d \in AllCallers :
           stopping'[d] = IF d = c THEN [at |-> place, task |-> taskOf] ELSE stopping[d]
  BY <1>0, <1>1 DEF ChannelShape
<1> HIDE DEF place
<1>3. ChannelShape'
  <2>1. raced' \in BOOLEAN
    BY <1>1
  <2>2. aborted' \subseteq TaskSlots
    BY <1>0, <1>1 DEF ChannelShape
  <2>3. stopping' \in [AllCallers -> [at : {"no", "hook", "task"}, task : TaskSlots \cup {0}]]
    BY <1>0, <1>1, <1>2 DEF ChannelShape
  <2> QED
    BY <1>0, <1>1, <2>1, <2>2, <2>3 DEF ChannelShape
<1>4. FailuresEndTasks'
  BY <1>1, FailuresKept
<1>5. ASSUME ~raced'
      PROVE  CalmInv'
  <2>1. ~raced /\ ~Checking /\ CalmInv
    BY <1>1, <1>5 DEF ChannelIInv
  <2>2. /\ \A d \in AllCallers : starting[d] = FALSE
        /\ \A k \in TaskSlots : task[k] # "restarting"
    BY <1>0, <2>1, NotChecking
  <2>3. BeingStopped'
    BY <1>2 DEF BeingStopped
  <2>4. TablesAgree' /\ StartsAlone' /\ RestartsAlone'
    BY <1>1, <2>1, <2>2 DEF CalmInv, TablesAgree, StartsAlone, RestartsAlone
  <2>5. StopsTheTask'
    BY <1>1, <1>2, <2>1 DEF CalmInv, StopsTheTask
  <2>6. MarkedIsBeingStopped' /\ RestartsAreCounted' /\ Status'
    BY <1>1, <2>1, <2>3 DEF CalmInv, MarkedIsBeingStopped, RestartsAreCounted, Status
  <2>7. MarkedIsTold'
    <3>1. SUFFICES ASSUME NEW k \in TaskSlots, task[k] # "free"
                   PROVE  k \in aborted'
      BY <1>1 DEF MarkedIsTold
    <3>2. task[k] \in {"running", "backoff"}
      BY <1>0, <2>2, <3>1 DEF ChannelShape
    <3>3. abortOf = k /\ k # 0
      BY <2>1, <3>2, ChannelAssumption DEF CalmInv, TablesAgree
    <3> QED
      BY <1>1, <3>3
  <2> QED
    BY <2>4, <2>5, <2>6, <2>7 DEF CalmInv
<1> QED
  BY <1>3, <1>4, <1>5 DEF ChannelIInv

LEMMA ConfiguredStep ==
  ASSUME ChannelIInv, NEW c \in AllCallers, Configured(c)
  PROVE  ChannelIInv'
<1>0. ChannelShape /\ FailuresEndTasks
  BY DEF ChannelIInv
<1>1. /\ starting[c]
      /\ starting' = [starting EXCEPT ![c] = FALSE]
      /\ UNCHANGED <<configured, stopping, raced>>
  BY DEF Configured
<1>2. starting' \in [AllCallers -> BOOLEAN] /\ starting'[c] = FALSE
  BY <1>0, <1>1 DEF ChannelShape
<1>3. ASSUME ~raced
      PROVE  /\ CalmInv /\ AllFree /\ ~BeingStopped
             /\ \A d \in AllCallers : starting'[d] = FALSE
  <2>1. CalmInv /\ AllFree /\ ~BeingStopped /\ \A d \in AllCallers : starting[d] => d = c
    BY <1>1, <1>3 DEF ChannelIInv, CalmInv, StartsAlone
  <2> QED
    BY <1>0, <1>1, <2>1 DEF ChannelShape
<1>4. CASE /\ running' = FALSE
           /\ UNCHANGED <<task, aborted, taskOf, abortOf, manual, attempts, restarts, hookThrew>>
  <2>1. ChannelShape' /\ FailuresEndTasks'
    BY <1>0, <1>1, <1>2, <1>4, FailuresKept DEF ChannelShape
  <2>2. ASSUME ~raced'
        PROVE  CalmInv'
    <3>1. CalmInv /\ AllFree /\ ~BeingStopped /\ \A d \in AllCallers : starting'[d] = FALSE
      BY <1>1, <1>3, <2>2
    <3>2. TablesAgree' /\ StartsAlone' /\ RestartsAlone' /\ StopsTheTask'
      BY <1>1, <1>4, <3>1 DEF CalmInv, TablesAgree, StartsAlone, RestartsAlone, StopsTheTask, AllFree
    <3>3. MarkedIsBeingStopped' /\ MarkedIsTold' /\ RestartsAreCounted' /\ Status'
      BY <1>4, <3>1 DEF CalmInv, MarkedIsBeingStopped, MarkedIsTold, RestartsAreCounted, Status, AllFree
    <3> QED
      BY <3>2, <3>3 DEF CalmInv
  <2> QED
    BY <2>1, <2>2 DEF ChannelIInv
<1>5. ASSUME NEW k \in TaskSlots, task[k] = "free", Launch(k),
             task' = [task EXCEPT ![k] = "running"],
             manual' = FALSE, attempts' = 0, restarts' = 0, hookThrew' = FALSE
      PROVE  ChannelIInv'
  <2>1. /\ aborted' = aborted \ {k} /\ taskOf' = k /\ abortOf' = k /\ running' = TRUE
    BY <1>5 DEF Launch
  <2>2. /\ task' \in [TaskSlots -> {"free", "running", "backoff", "restarting"}]
        /\ \A j \in TaskSlots : task'[j] = IF j = k THEN "running" ELSE task[j]
    BY <1>0, <1>5 DEF ChannelShape
  <2>3. ChannelShape' /\ FailuresEndTasks'
    BY <1>0, <1>1, <1>2, <1>5, <2>1, <2>2, FailuresKept DEF ChannelShape
  <2>4. ASSUME ~raced'
        PROVE  CalmInv'
    <3>1. CalmInv /\ AllFree /\ ~BeingStopped /\ \A d \in AllCallers : starting'[d] = FALSE
      BY <1>1, <1>3, <2>4
    <3>2. \A j \in TaskSlots : task'[j] = IF j = k THEN "running" ELSE "free"
      BY <2>2, <3>1 DEF AllFree
    <3>3. TablesAgree' /\ StartsAlone' /\ RestartsAlone' /\ StopsTheTask'
      BY <1>1, <2>1, <3>1, <3>2 DEF TablesAgree, StartsAlone, RestartsAlone, StopsTheTask,
         BeingStopped
    <3>4. MarkedIsBeingStopped' /\ MarkedIsTold' /\ RestartsAreCounted' /\ Status'
      BY <1>5, <2>1, <3>2, ChannelAssumption DEF MarkedIsBeingStopped, MarkedIsTold, RestartsAreCounted, Status
    <3> QED
      BY <3>3, <3>4 DEF CalmInv
  <2> QED
    BY <2>3, <2>4 DEF ChannelIInv
<1> QED
  BY <1>4, <1>5 DEF Configured, storeVars

LEMMA HookEndsStep ==
  ASSUME ChannelIInv, NEW c \in AllCallers, HookEnds(c)
  PROVE  ChannelIInv'
<1>0. ChannelShape /\ FailuresEndTasks
  BY DEF ChannelIInv
<1>1. /\ stopping[c].at = "hook"
      /\ stopping' = [stopping EXCEPT ![c].at = "task"]
      /\ UNCHANGED <<task, aborted, taskOf, abortOf, configured, running, manual, attempts,
                     starting, restarts, raced, hookThrew>>
  BY DEF HookEnds, storeVars
<1>2. /\ stopping' \in [AllCallers -> [at : {"no", "hook", "task"}, task : TaskSlots \cup {0}]]
      /\ \A d \in AllCallers :
           /\ stopping'[d].at = "no" <=> stopping[d].at = "no"
           /\ stopping'[d].task = stopping[d].task
  <2>1. \A d \in AllCallers :
          stopping[d] \in [at : {"no", "hook", "task"}, task : TaskSlots \cup {0}]
    BY <1>0 DEF ChannelShape
  <2>2. \A d \in AllCallers :
          stopping'[d] = IF d = c THEN [stopping[d] EXCEPT !.at = "task"] ELSE stopping[d]
    BY <1>0, <1>1 DEF ChannelShape
  <2>3. \A d \in AllCallers :
          /\ stopping'[d] \in [at : {"no", "hook", "task"}, task : TaskSlots \cup {0}]
          /\ stopping'[d].at = "no" <=> stopping[d].at = "no"
          /\ stopping'[d].task = stopping[d].task
    BY <1>1, <2>1, <2>2
  <2> QED
    BY <1>0, <1>1, <2>3 DEF ChannelShape
<1>3. ChannelShape' /\ FailuresEndTasks'
  BY <1>0, <1>1, <1>2, FailuresKept DEF ChannelShape
<1>4. ASSUME ~raced'
      PROVE  CalmInv'
  <2>1. CalmInv
    BY <1>1, <1>4 DEF ChannelIInv
  <2>2. BeingStopped' <=> BeingStopped
    BY <1>2 DEF BeingStopped
  <2>3. TablesAgree' /\ StartsAlone' /\ RestartsAlone' /\ StopsTheTask'
    BY <1>1, <1>2, <2>1, <2>2 DEF CalmInv, TablesAgree, StartsAlone, RestartsAlone, StopsTheTask,
       AllFree
  <2>4. MarkedIsBeingStopped' /\ MarkedIsTold' /\ RestartsAreCounted' /\ Status'
    BY <1>1, <2>1, <2>2 DEF CalmInv, MarkedIsBeingStopped, MarkedIsTold, RestartsAreCounted, Status, AllFree
  <2> QED
    BY <2>3, <2>4 DEF CalmInv
<1> QED
  BY <1>3, <1>4 DEF ChannelIInv

LEMMA HookFailsStep ==
  ASSUME ChannelIInv, NEW c \in AllCallers, HookFails(c)
  PROVE  ChannelIInv'
<1>0. ChannelShape /\ FailuresEndTasks
  BY DEF ChannelIInv
<1>1. /\ stopping' = [stopping EXCEPT ![c] = [at |-> "no", task |-> 0]]
      /\ hookThrew' = TRUE
      /\ UNCHANGED <<task, aborted, taskOf, abortOf, configured, running, manual, attempts,
                     starting, restarts, raced>>
  BY DEF HookFails, NotStopping, storeVars
<1>2. /\ stopping' \in [AllCallers -> [at : {"no", "hook", "task"}, task : TaskSlots \cup {0}]]
      /\ \A d \in AllCallers :
           stopping'[d] = IF d = c THEN [at |-> "no", task |-> 0] ELSE stopping[d]
  BY <1>0, <1>1 DEF ChannelShape
<1>3. ChannelShape' /\ FailuresEndTasks'
  <2>1. hookThrew' \in BOOLEAN
    BY <1>1, Zenon
  <2> QED
    BY <1>0, <1>1, <1>2, <2>1, FailuresKept DEF ChannelShape
<1>4. ASSUME ~raced'
      PROVE  CalmInv'
  <2>1. CalmInv
    BY <1>1, <1>4 DEF ChannelIInv
  <2>2. BeingStopped' => BeingStopped
    BY <1>2 DEF BeingStopped
  <2>3. TablesAgree' /\ StartsAlone' /\ RestartsAlone'
    BY <1>1, <2>1, <2>2 DEF CalmInv, TablesAgree, StartsAlone, RestartsAlone, AllFree
  <2>4. StopsTheTask'
    BY <1>1, <1>2, <2>1 DEF CalmInv, StopsTheTask
  <2>5. MarkedIsBeingStopped' /\ MarkedIsTold' /\ RestartsAreCounted' /\ Status'
    BY <1>1, <2>1 DEF CalmInv, MarkedIsBeingStopped, MarkedIsTold, RestartsAreCounted, Status
  <2> QED
    BY <2>3, <2>4, <2>5 DEF CalmInv
<1> QED
  BY <1>3, <1>4 DEF ChannelIInv

LEMMA StopEndsStep ==
  ASSUME ChannelIInv, NEW c \in AllCallers, StopEnds(c)
  PROVE  ChannelIInv'
<1>0. ChannelShape /\ FailuresEndTasks
  BY DEF ChannelIInv
<1>1. /\ stopping[c].at = "task" /\ stopping[c].task = 0
      /\ stopping' = [stopping EXCEPT ![c] = [at |-> "no", task |-> 0]]
      /\ taskOf' = 0 /\ abortOf' = 0 /\ running' = FALSE /\ hookThrew' = FALSE
      /\ UNCHANGED <<task, aborted, configured, manual>>
  BY DEF StopEnds, NotStopping
<1>2. \/ /\ attempts' = 0 /\ restarts' = 0
         /\ starting' = [starting EXCEPT ![c] = TRUE]
         /\ raced' = (raced \/ Checking \/ \E d \in AllCallers \ {c} : stopping[d].at # "no")
      \/ /\ attempts' = attempts /\ restarts' = restarts
         /\ starting' = starting /\ raced' = raced
  BY DEF StopEnds
<1> DEFINE other == \E d \in AllCallers \ {c} : stopping[d].at # "no"
<1>b. \/ raced' = (raced \/ Checking \/ other)
      \/ raced' = raced
  BY <1>2
<1> HIDE DEF other
<1>3. /\ stopping' \in [AllCallers -> [at : {"no", "hook", "task"}, task : TaskSlots \cup {0}]]
      /\ \A d \in AllCallers :
           stopping'[d] = IF d = c THEN [at |-> "no", task |-> 0] ELSE stopping[d]
  BY <1>0, <1>1 DEF ChannelShape
<1>4. ChannelShape'
  <2>1. raced' \in BOOLEAN
    BY <1>0, <1>b DEF ChannelShape
  <2>2. attempts' \in Nat /\ restarts' \in Nat
    BY <1>0, <1>2 DEF ChannelShape
  <2>3. starting' \in [AllCallers -> BOOLEAN]
    <3>1. \/ starting' = [starting EXCEPT ![c] = TRUE]
          \/ starting' = starting
      BY <1>2
    <3> QED
      BY <1>0, <3>1 DEF ChannelShape
  <2> QED
    BY <1>0, <1>1, <1>3, <2>1, <2>2, <2>3 DEF ChannelShape
<1>5. FailuresEndTasks'
  BY <1>1, <1>2, FailuresKept
<1>6. ASSUME ~raced'
      PROVE  CalmInv'
  <2>0. ~raced
    <3>2. raced' = (raced \/ Checking \/ other) => ~raced
      BY <1>6
    <3>3. raced' = raced => ~raced
      BY <1>6
    <3> QED
      BY <1>b, <3>2, <3>3
  <2>1. ~raced /\ CalmInv
    BY <2>0 DEF ChannelIInv
  <2>2. taskOf = 0 /\ abortOf = 0 /\ manual /\ BeingStopped
    BY <1>1, <2>1 DEF CalmInv, StopsTheTask, TablesAgree, BeingStopped
  <2>3. AllFree
    BY <1>0, <2>1, <2>2, ChannelAssumption DEF AllFree, CalmInv, TablesAgree, RestartsAlone,
       ChannelShape
  <2>4. \A d \in AllCallers : ~starting[d]
    BY <2>1, <2>2 DEF CalmInv, StartsAlone
  <2>5. AllFree' /\ TablesAgree' /\ RestartsAlone'
    BY <1>1, <2>3 DEF AllFree, TablesAgree, RestartsAlone
  <2>6. StopsTheTask'
    BY <1>1, <1>3, <2>1, <2>2 DEF CalmInv, StopsTheTask
  <2>7. StartsAlone'
    <3>1. CASE /\ starting' = [starting EXCEPT ![c] = TRUE]
               /\ \A d \in AllCallers \ {c} : stopping[d].at = "no"
      <4>1. \A d \in AllCallers : starting'[d] => d = c
        BY <1>0, <2>4, <3>1 DEF ChannelShape
      <4>2. \A d \in AllCallers : stopping'[d].at = "no"
        BY <1>3, <3>1
      <4> QED
        BY <2>5, <4>1, <4>2 DEF StartsAlone, BeingStopped
    <3>2. CASE UNCHANGED starting
      BY <2>4, <3>2 DEF StartsAlone
    <3> QED
      BY <1>2, <1>6, <3>1, <3>2
  <2>8. MarkedIsBeingStopped' /\ MarkedIsTold' /\ Status'
    BY <1>1, <2>5 DEF MarkedIsBeingStopped, MarkedIsTold, Status, AllFree
  <2>9. RestartsAreCounted'
    BY <1>1, <1>2, <2>1, <2>5, ChannelAssumption DEF CalmInv, RestartsAreCounted, AllFree
  <2> QED
    BY <2>5, <2>6, <2>7, <2>8, <2>9 DEF CalmInv
<1> QED
  BY <1>4, <1>5, <1>6 DEF ChannelIInv

LEMMA MonitorActsStep ==
  ASSUME ChannelIInv, MonitorActs
  PROVE  ChannelIInv'
<1>0. ChannelShape /\ FailuresEndTasks
  BY DEF ChannelIInv
<1> DEFINE mon == "monitor"
<1>1. mon \in AllCallers
  BY DEF AllCallers
<1>2. CASE StopChannel("monitor")
  BY <1>1, <1>2, StopChannelStep
<1>3. CASE /\ ~manual /\ ~starting["monitor"]
           /\ attempts' = 0 /\ restarts' = 0
           /\ starting' = [starting EXCEPT !["monitor"] = taskOf = 0]
           /\ raced' = (raced \/ (taskOf = 0 /\ (Checking \/ BeingStopped)))
           /\ UNCHANGED <<storeVars, configured, running, manual, stopping, hookThrew>>
  <2>0. /\ starting' \in [AllCallers -> BOOLEAN]
        /\ \A d \in AllCallers : starting'[d] = IF d = mon THEN taskOf = 0 ELSE starting[d]
    BY <1>0, <1>1, <1>3 DEF ChannelShape
  <2>1. /\ attempts' = 0 /\ restarts' = 0
        /\ UNCHANGED <<task, aborted, taskOf, abortOf, configured, running, manual, stopping,
                        hookThrew>>
        /\ raced' \in BOOLEAN
    BY <1>0, <1>3 DEF storeVars, ChannelShape
  <2>2. ChannelShape' /\ FailuresEndTasks'
    BY <1>0, <2>0, <2>1, FailuresKept DEF ChannelShape
  <2>3. ASSUME ~raced'
        PROVE  CalmInv'
    <3>1. ~raced /\ CalmInv /\ (taskOf = 0 => ~Checking /\ ~BeingStopped)
      BY <1>3, <2>3 DEF ChannelIInv
    <3>2. TablesAgree' /\ StopsTheTask'
      BY <2>1, <3>1 DEF CalmInv, TablesAgree, StopsTheTask
    <3>3. MarkedIsBeingStopped' /\ MarkedIsTold' /\ RestartsAreCounted' /\ Status'
      BY <2>1, <3>1, ChannelAssumption DEF CalmInv, MarkedIsBeingStopped, MarkedIsTold, RestartsAreCounted, Status,
         AllFree, BeingStopped
    <3>4. CASE taskOf # 0
      <4>1. taskOf \in TaskSlots /\ task[taskOf] \in {"running", "backoff"}
        BY <1>0, <3>1, <3>4 DEF CalmInv, TablesAgree, ChannelShape
      <4>2. \A d \in AllCallers : starting[d] = FALSE
        BY <1>0, <3>1, <4>1, OnlyTask DEF ChannelShape
      <4>3. \A d \in AllCallers : starting'[d] = FALSE
        BY <2>0, <3>4, <4>2
      <4>4. StartsAlone' /\ RestartsAlone'
        BY <2>1, <3>1, <3>4, <4>3 DEF StartsAlone, CalmInv, RestartsAlone
      <4> QED
        BY <3>2, <3>3, <4>4 DEF CalmInv
    <3>5. CASE taskOf = 0
      <4>1. /\ \A d \in AllCallers : starting[d] = FALSE
            /\ \A k \in TaskSlots : task[k] # "restarting"
        BY <1>0, <3>1, <3>5, NotChecking
      <4>2. AllFree
        BY <1>0, <3>1, <3>5, <4>1, ChannelAssumption DEF AllFree, CalmInv, TablesAgree, ChannelShape
      <4>3. \A d \in AllCallers : starting'[d] => d = mon
        BY <2>0, <4>1
      <4>4. StartsAlone' /\ RestartsAlone'
        BY <2>1, <3>1, <3>5, <4>1, <4>2, <4>3 DEF StartsAlone, RestartsAlone, AllFree, BeingStopped
      <4> QED
        BY <3>2, <3>3, <4>4 DEF CalmInv
    <3> QED
      BY <3>4, <3>5
  <2> QED
    BY <2>2, <2>3 DEF ChannelIInv
<1> QED
  BY <1>2, <1>3 DEF MonitorActs

LEMMA ConfigChangesStep ==
  ASSUME ChannelIInv, ConfigChanges \/ UNCHANGED channelVars
  PROVE  ChannelIInv'
<1>1. /\ UNCHANGED <<task, aborted, taskOf, abortOf, running, manual, attempts, starting, stopping,
                     restarts, raced, hookThrew>>
      /\ configured' \in BOOLEAN
  BY DEF ConfigChanges, channelVars, storeVars, ChannelIInv, ChannelShape
<1>2. ChannelShape' /\ FailuresEndTasks'
  BY <1>1, FailuresKept DEF ChannelIInv, ChannelShape
<1>3. CalmInv => CalmInv'
  BY <1>1 DEF CalmInv, TablesAgree, StartsAlone, RestartsAlone, StopsTheTask, MarkedIsBeingStopped, MarkedIsTold,
     RestartsAreCounted, Status, AllFree, BeingStopped
<1> QED
  BY <1>1, <1>2, <1>3 DEF ChannelIInv

-----------------------------------------------------------------------------
(* Channels: the steps of a task *)

\* A task ends: the account has none, as far as nothing has overlapped.
LEMMA TaskOverKeepsCalm ==
  ASSUME ChannelShape, ChannelShape', CalmInv,
         NEW k \in TaskSlots, task[k] \in {"running", "backoff"}, TaskOver(k),
         running' = FALSE \/ (task[k] = "backoff" /\ running' = running),
         UNCHANGED <<configured, manual, starting, restarts, raced, hookThrew>>
  PROVE  CalmInv'
<1>1. /\ taskOf = k /\ abortOf = k
      /\ \A j \in TaskSlots : j # k => task[j] = "free"
      /\ \A c \in AllCallers : ~starting[c]
      /\ \A c \in AllCallers : stopping[c].at # "no" => stopping[c].task = k
  BY OnlyTask
<1>2. /\ \A j \in TaskSlots : task'[j] = IF j = k THEN "free" ELSE task[j]
      /\ taskOf' = IF taskOf = k THEN 0 ELSE taskOf
      /\ abortOf' = IF abortOf = k THEN 0 ELSE abortOf
      /\ \A c \in AllCallers :
           /\ stopping'[c].at = stopping[c].at
           /\ stopping'[c].task = IF stopping[c].task = k THEN 0 ELSE stopping[c].task
  BY TaskOverFacts
<1>3. taskOf' = 0 /\ abortOf' = 0 /\ \A j \in TaskSlots : task'[j] = "free"
  BY <1>1, <1>2
<1>4. TablesAgree' /\ StartsAlone' /\ RestartsAlone'
  BY <1>1, <1>3 DEF TablesAgree, StartsAlone, RestartsAlone
<1>5. StopsTheTask'
  BY <1>1, <1>2, <1>3 DEF CalmInv, StopsTheTask
<1>6. MarkedIsBeingStopped' /\ MarkedIsTold' /\ RestartsAreCounted'
  BY <1>3 DEF CalmInv, MarkedIsBeingStopped, MarkedIsTold, RestartsAreCounted, AllFree
<1>7. running' = FALSE
  <2>1. CASE running' = FALSE
    BY <2>1
  <2>2. CASE task[k] = "backoff" /\ running' = running
    <3>1. \A j \in TaskSlots : task[j] # "running"
      BY <1>1, <2>2
    <3>2. running = FALSE
      BY <3>1 DEF CalmInv, Status, ChannelShape
    <3> QED
      BY <2>2, <3>2
  <2> QED
    BY <2>1, <2>2
<1>8. Status'
  BY <1>3, <1>7 DEF Status
<1> QED
  BY <1>4, <1>5, <1>6, <1>8 DEF CalmInv

LEMMA ExitsStep ==
  ASSUME ChannelIInv, NEW k \in TaskSlots, Exits(k)
  PROVE  ChannelIInv'
<1>0. ChannelShape /\ FailuresEndTasks
  BY DEF ChannelIInv
<1>1. /\ task[k] = "running" /\ running' = FALSE
      /\ attempts' = IF manual THEN attempts ELSE attempts + 1
      /\ UNCHANGED <<configured, manual, starting, restarts, raced, hookThrew>>
  BY DEF Exits
<1>2. attempts \in Nat /\ attempts' \in Nat /\ MaxAttempts \in Nat
  BY <1>0, <1>1, ChannelAssumption DEF ChannelShape
<1>3. CASE (manual \/ attempts >= MaxAttempts) /\ TaskOver(k)
  <2>1. /\ task' \in [TaskSlots -> {"free", "running", "backoff", "restarting"}]
        /\ aborted' \subseteq TaskSlots
        /\ taskOf' = IF taskOf = k THEN 0 ELSE taskOf
        /\ abortOf' = IF abortOf = k THEN 0 ELSE abortOf
        /\ stopping' \in [AllCallers -> [at : {"no", "hook", "task"}, task : TaskSlots \cup {0}]]
        /\ Cardinality(AliveTasks') = Cardinality(AliveTasks) - 1
    BY <1>0, <1>1, <1>3, TaskOverFacts
  <2>2. ChannelShape'
    BY <1>0, <1>1, <1>2, <2>1 DEF ChannelShape
  <2>3. /\ Cardinality(AliveTasks) \in Nat /\ Cardinality(TaskSlots) \in Nat
        /\ Cardinality(AliveTasks) <= Cardinality(TaskSlots)
    BY <1>0, AliveCounts
  <2>4. FailuresEndTasks'
    BY <1>0, <1>1, <1>2, <1>3, <2>1, <2>3 DEF FailuresEndTasks
  <2>5. ASSUME ~raced'
        PROVE  CalmInv'
    <3>1. CalmInv
      BY <1>1, <2>5 DEF ChannelIInv
    <3> QED
      BY <1>0, <1>1, <1>3, <2>2, <3>1, TaskOverKeepsCalm
  <2> QED
    BY <2>2, <2>4, <2>5 DEF ChannelIInv
<1>4. CASE /\ ~manual /\ attempts < MaxAttempts
           /\ task' = [task EXCEPT ![k] = "backoff"]
           /\ UNCHANGED <<aborted, taskOf, abortOf, stopping>>
  <2>1. /\ task' \in [TaskSlots -> {"free", "running", "backoff", "restarting"}]
        /\ \A j \in TaskSlots : task'[j] = IF j = k THEN "backoff" ELSE task[j]
        /\ attempts' = attempts + 1
    BY <1>0, <1>1, <1>4 DEF ChannelShape
  <2>2. ChannelShape'
    BY <1>0, <1>1, <1>2, <1>4, <2>1 DEF ChannelShape
  <2>3. FailuresEndTasks'
    BY <1>2, <1>4, <2>1 DEF FailuresEndTasks
  <2>4. ASSUME ~raced'
        PROVE  CalmInv'
    <3>1. CalmInv /\ restarts \in Nat
      BY <1>0, <1>1, <2>4 DEF ChannelIInv, ChannelShape
    <3>2. /\ taskOf = k /\ abortOf = k
          /\ \A j \in TaskSlots : j # k => task[j] = "free"
          /\ \A c \in AllCallers : ~starting[c]
      BY <1>0, <1>1, <3>1, OnlyTask
    <3>3. \A j \in TaskSlots : task'[j] = IF j = k THEN "backoff" ELSE "free"
      BY <2>1, <3>2
    <3>4. TablesAgree' /\ StartsAlone' /\ RestartsAlone' /\ StopsTheTask'
      BY <1>1, <1>4, <3>1, <3>2, <3>3 DEF TablesAgree, StartsAlone, RestartsAlone, CalmInv,
         StopsTheTask
    <3>5. MarkedIsBeingStopped' /\ MarkedIsTold' /\ Status'
      BY <1>1, <1>4, <3>3 DEF MarkedIsBeingStopped, MarkedIsTold, Status
    <3>6. restarts <= attempts + 1 /\ restarts <= MaxAttempts + 1
      BY <1>1, <3>1 DEF CalmInv, RestartsAreCounted
    <3>7. RestartsAreCounted'
      BY <1>1, <1>2, <1>4, <2>1, <3>1, <3>3, <3>6 DEF RestartsAreCounted
    <3> QED
      BY <3>4, <3>5, <3>7 DEF CalmInv
  <2> QED
    BY <2>2, <2>3, <2>4 DEF ChannelIInv
<1>5. manual \/ attempts >= MaxAttempts \/ (~manual /\ attempts < MaxAttempts)
  BY <1>2
<1> QED
  BY <1>2, <1>3, <1>4, <1>5 DEF Exits

LEMMA BackoffEndsStep ==
  ASSUME ChannelIInv, NEW k \in TaskSlots, BackoffEnds(k)
  PROVE  ChannelIInv'
<1>0. ChannelShape /\ FailuresEndTasks
  BY DEF ChannelIInv
<1>1. /\ task[k] = "backoff"
      /\ UNCHANGED <<configured, running, manual, attempts, starting, restarts, hookThrew>>
  BY DEF BackoffEnds
<1>2. attempts \in Nat /\ MaxAttempts \in Nat
  BY <1>0, ChannelAssumption DEF ChannelShape
<1>3. CASE TaskOver(k) /\ UNCHANGED raced
  <2>1. /\ task' \in [TaskSlots -> {"free", "running", "backoff", "restarting"}]
        /\ aborted' \subseteq TaskSlots
        /\ taskOf' = IF taskOf = k THEN 0 ELSE taskOf
        /\ abortOf' = IF abortOf = k THEN 0 ELSE abortOf
        /\ stopping' \in [AllCallers -> [at : {"no", "hook", "task"}, task : TaskSlots \cup {0}]]
        /\ Cardinality(AliveTasks') = Cardinality(AliveTasks) - 1
    BY <1>0, <1>1, <1>3, TaskOverFacts
  <2>2. ChannelShape'
    BY <1>0, <1>1, <1>3, <2>1 DEF ChannelShape
  <2>3. /\ Cardinality(AliveTasks) \in Nat /\ Cardinality(TaskSlots) \in Nat
    BY <1>0, AliveCounts
  <2>4. FailuresEndTasks'
    BY <1>0, <1>1, <1>2, <2>1, <2>3 DEF FailuresEndTasks
  <2>5. ASSUME ~raced'
        PROVE  CalmInv'
    <3>1. CalmInv
      BY <1>3, <2>5 DEF ChannelIInv
    <3> QED
      BY <1>0, <1>1, <1>3, <2>2, <3>1, TaskOverKeepsCalm
  <2> QED
    BY <2>2, <2>4, <2>5 DEF ChannelIInv
<1>4. CASE ~manual /\ Yields(k)
  <2>1. /\ task' = [task EXCEPT ![k] = "restarting"]
        /\ taskOf' = 0
        /\ abortOf' = IF abortOf = k THEN 0 ELSE abortOf
        /\ raced' = (raced \/ Checking)
        /\ UNCHANGED <<aborted, stopping>>
    BY <1>4 DEF Yields
  <2>2. /\ task' \in [TaskSlots -> {"free", "running", "backoff", "restarting"}]
        /\ \A j \in TaskSlots : task'[j] = IF j = k THEN "restarting" ELSE task[j]
        /\ raced' \in BOOLEAN
    BY <1>0, <2>1 DEF ChannelShape
  <2>3. ChannelShape'
    BY <1>0, <1>1, <2>1, <2>2 DEF ChannelShape
  <2>4. AliveTasks' = AliveTasks
    BY <1>1, <2>2 DEF AliveTasks
  <2>5. FailuresEndTasks'
    BY <1>0, <1>1, <2>4 DEF FailuresEndTasks
  <2>6. ASSUME ~raced'
        PROVE  CalmInv'
    <3>1. CalmInv
      BY <2>1, <2>6 DEF ChannelIInv
    <3>2. /\ taskOf = k /\ abortOf = k
          /\ \A j \in TaskSlots : j # k => task[j] = "free"
          /\ \A c \in AllCallers : ~starting[c]
      BY <1>0, <1>1, <3>1, OnlyTask
    <3>3. \A j \in TaskSlots : task'[j] = IF j = k THEN "restarting" ELSE "free"
      BY <2>2, <3>2
    <3>4. \A c \in AllCallers : stopping[c].at = "no"
      BY <1>4, <3>1 DEF CalmInv, StopsTheTask
    <3>5. ~BeingStopped'
      BY <2>1, <3>4 DEF BeingStopped
    <3>6. TablesAgree' /\ StartsAlone' /\ RestartsAlone' /\ StopsTheTask'
      BY <1>1, <1>4, <2>1, <3>2, <3>3, <3>4, <3>5 DEF TablesAgree, StartsAlone, RestartsAlone,
         StopsTheTask
    <3>7. MarkedIsBeingStopped' /\ MarkedIsTold' /\ RestartsAreCounted'
      BY <1>1, <1>4, <3>1, <3>3 DEF CalmInv, MarkedIsBeingStopped, MarkedIsTold, RestartsAreCounted
    <3>8. Status'
      BY <1>1, <3>1, <3>2, <3>3 DEF CalmInv, Status
    <3> QED
      BY <3>6, <3>7, <3>8 DEF CalmInv
  <2> QED
    BY <2>3, <2>5, <2>6 DEF ChannelIInv
<1> QED
  BY <1>3, <1>4 DEF BackoffEnds

LEMMA RestartsStep ==
  ASSUME ChannelIInv, NEW k \in TaskSlots, Restarts(k)
  PROVE  ChannelIInv'
<1>0. ChannelShape /\ FailuresEndTasks
  BY DEF ChannelIInv
<1>1. /\ task[k] = "restarting"
      /\ WaitersReleased(k)
      /\ UNCHANGED <<configured, manual, attempts, starting, raced, hookThrew>>
  BY DEF Restarts
<1>2. /\ stopping' \in [AllCallers -> [at : {"no", "hook", "task"}, task : TaskSlots \cup {0}]]
      /\ \A c \in AllCallers : stopping'[c].at = stopping[c].at
  <2>1. \A c \in AllCallers :
          stopping[c] \in [at : {"no", "hook", "task"}, task : TaskSlots \cup {0}]
    BY <1>0 DEF ChannelShape
  <2>2. stopping' = [c \in AllCallers |->
          IF stopping[c].task = k THEN [stopping[c] EXCEPT !.task = 0] ELSE stopping[c]]
    BY <1>1 DEF WaitersReleased
  <2>3. \A c \in AllCallers :
          /\ stopping'[c] \in [at : {"no", "hook", "task"}, task : TaskSlots \cup {0}]
          /\ stopping'[c].at = stopping[c].at
    BY <2>1, <2>2
  <2> QED
    BY <2>2, <2>3
<1>3. /\ attempts \in Nat /\ restarts \in Nat /\ MaxAttempts \in Nat
      /\ Cardinality(AliveTasks) \in Nat /\ Cardinality(TaskSlots) \in Nat
      /\ IsFiniteSet(AliveTasks) /\ k \in AliveTasks
      /\ Cardinality(AliveTasks \ {k}) = Cardinality(AliveTasks) - 1
  BY <1>0, <1>1, AliveCounts, ChannelAssumption DEF ChannelShape, AliveTasks
<1>4. ASSUME ~raced
      PROVE  /\ CalmInv /\ taskOf = 0 /\ abortOf = 0 /\ ~manual
             /\ \A c \in AllCallers : ~starting[c]
             /\ \A j \in TaskSlots : j # k => task[j] = "free"
             /\ \A c \in AllCallers : stopping'[c].at = "no"
             /\ restarts <= attempts /\ attempts <= MaxAttempts
  <2>1. CalmInv
    BY <1>4 DEF ChannelIInv
  <2>2. ~BeingStopped
    BY <1>1, <2>1 DEF CalmInv, RestartsAlone
  <2>3. \A c \in AllCallers : stopping'[c].at = "no"
    BY <1>2, <2>2 DEF BeingStopped
  <2>4. restarts <= attempts /\ attempts <= MaxAttempts
    BY <1>1, <2>1 DEF CalmInv, RestartsAreCounted
  <2> QED
    BY <1>1, <2>1, <2>3, <2>4 DEF CalmInv, RestartsAlone, TablesAgree
<1>5. CASE /\ task' = [task EXCEPT ![k] = "free"] /\ running' = FALSE
           /\ UNCHANGED <<aborted, taskOf, abortOf, restarts>>
  <2>1. /\ task' \in [TaskSlots -> {"free", "running", "backoff", "restarting"}]
        /\ \A j \in TaskSlots : task'[j] = IF j = k THEN "free" ELSE task[j]
    BY <1>0, <1>5 DEF ChannelShape
  <2>2. ChannelShape'
    BY <1>0, <1>1, <1>2, <1>5, <2>1 DEF ChannelShape
  <2>3. AliveTasks' = AliveTasks \ {k}
    BY <2>1 DEF AliveTasks
  <2>4. FailuresEndTasks'
    BY <1>0, <1>1, <1>3, <2>3 DEF FailuresEndTasks
  <2>5. ASSUME ~raced'
        PROVE  CalmInv'
    <3>1. /\ CalmInv /\ taskOf = 0 /\ abortOf = 0 /\ ~manual
          /\ \A c \in AllCallers : ~starting[c]
          /\ \A j \in TaskSlots : task'[j] = "free"
          /\ \A c \in AllCallers : stopping'[c].at = "no"
      BY <1>1, <1>4, <2>1, <2>5
    <3>2. TablesAgree' /\ StartsAlone' /\ RestartsAlone' /\ StopsTheTask'
      BY <1>1, <1>5, <3>1 DEF TablesAgree, StartsAlone, RestartsAlone, StopsTheTask
    <3>3. MarkedIsBeingStopped' /\ MarkedIsTold' /\ RestartsAreCounted' /\ Status'
      BY <1>1, <1>5, <3>1 DEF CalmInv, MarkedIsBeingStopped, MarkedIsTold, RestartsAreCounted, Status
    <3> QED
      BY <3>2, <3>3 DEF CalmInv
  <2> QED
    BY <2>2, <2>4, <2>5 DEF ChannelIInv
<1>6. ASSUME NEW j \in TaskSlots, task[j] = "free" \/ j = k, Launch(j),
             task' = [task EXCEPT ![k] = "free", ![j] = "running"],
             restarts' = restarts + 1
      PROVE  ChannelIInv'
  <2>1. /\ task' \in [TaskSlots -> {"free", "running", "backoff", "restarting"}]
        /\ \A i \in TaskSlots :
             task'[i] = IF i = j THEN "running" ELSE IF i = k THEN "free" ELSE task[i]
    BY <1>0, <1>6 DEF ChannelShape
  <2>2. aborted' = aborted \ {j} /\ taskOf' = j /\ abortOf' = j /\ running' = TRUE
    BY <1>6 DEF Launch
  <2>3. ChannelShape'
    BY <1>0, <1>1, <1>2, <1>3, <1>6, <2>1, <2>2 DEF ChannelShape
  <2>4. Cardinality(AliveTasks') = Cardinality(AliveTasks)
    <3>1. AliveTasks' = (AliveTasks \ {k}) \cup {j}
      BY <2>1 DEF AliveTasks
    <3>2. j \notin AliveTasks \ {k}
      BY <1>6 DEF AliveTasks
    <3>3. IsFiniteSet(AliveTasks \ {k})
      BY <1>3, FS_RemoveElement
    <3>4. Cardinality((AliveTasks \ {k}) \cup {j}) = Cardinality(AliveTasks \ {k}) + 1
      BY <3>2, <3>3, FS_AddElement
    <3> QED
      BY <1>3, <3>1, <3>4
  <2>5. FailuresEndTasks'
    BY <1>0, <1>1, <2>4 DEF FailuresEndTasks
  <2>6. ASSUME ~raced'
        PROVE  CalmInv'
    <3>1. /\ CalmInv /\ ~manual
          /\ \A c \in AllCallers : ~starting[c]
          /\ \A i \in TaskSlots : task'[i] = IF i = j THEN "running" ELSE "free"
          /\ \A c \in AllCallers : stopping'[c].at = "no"
          /\ restarts <= attempts /\ attempts <= MaxAttempts
      BY <1>1, <1>4, <2>1, <2>6
    <3>2. TablesAgree' /\ StartsAlone' /\ RestartsAlone' /\ StopsTheTask'
      BY <1>1, <2>2, <3>1 DEF TablesAgree, StartsAlone, RestartsAlone, StopsTheTask
    <3>3. MarkedIsBeingStopped' /\ MarkedIsTold' /\ Status'
      BY <1>1, <2>2, <3>1 DEF MarkedIsBeingStopped, MarkedIsTold, Status
    <3>4. /\ restarts' <= attempts' + 1 /\ restarts' <= MaxAttempts + 1
          /\ attempts' <= MaxAttempts
      BY <1>1, <1>3, <1>6, <3>1
    <3>5. \A i \in TaskSlots : task'[i] \in {"running", "free"}
      BY <3>1
    <3>6. RestartsAreCounted'
      BY <3>4, <3>5 DEF RestartsAreCounted
    <3> QED
      BY <3>2, <3>3, <3>6 DEF CalmInv
  <2> QED
    BY <2>3, <2>5, <2>6 DEF ChannelIInv
<1> QED
  BY <1>5, <1>6 DEF Restarts

LEMMA ChannelNextInv == ChannelIInv /\ [ChannelNext]_channelVars => ChannelIInv'
<1> SUFFICES ASSUME ChannelIInv, [ChannelNext]_channelVars PROVE ChannelIInv'
  OBVIOUS
<1>1. ASSUME NEW c \in Callers, StartChannel(c) \/ StopChannel(c)
      PROVE  ChannelIInv'
  BY <1>1, StartChannelStep, StopChannelStep DEF AllCallers
<1>2. ASSUME NEW c \in AllCallers, CallStep(c)
      PROVE  ChannelIInv'
  BY <1>2, ConfiguredStep, HookEndsStep, HookFailsStep, StopEndsStep DEF CallStep
<1>3. ASSUME NEW k \in TaskSlots, TaskStep(k) \/ Exits(k)
      PROVE  ChannelIInv'
  BY <1>3, ExitsStep, BackoffEndsStep, RestartsStep DEF TaskStep
<1>4. CASE MonitorActs
  BY <1>4, MonitorActsStep
<1>5. CASE ConfigChanges \/ UNCHANGED channelVars
  BY <1>5, ConfigChangesStep
<1> QED
  BY <1>1, <1>2, <1>3, <1>4, <1>5 DEF ChannelNext

LEMMA ChannelIInvGives == ChannelIInv => ChannelInv
<1> SUFFICES ASSUME ChannelIInv PROVE ChannelInv
  OBVIOUS
<1>0. ChannelShape /\ FailuresEndTasks
  BY DEF ChannelIInv
<1>1. attempts \in 0..MaxAttempts + Cardinality(TaskSlots)
  <2>1. /\ attempts \in Nat /\ MaxAttempts \in Nat
        /\ Cardinality(AliveTasks) \in Nat /\ Cardinality(TaskSlots) \in Nat
    BY <1>0, AliveCounts, ChannelAssumption DEF ChannelShape
  <2> QED
    BY <1>0, <2>1 DEF FailuresEndTasks
<1>2. ChannelTypeOK
  BY <1>0, <1>1 DEF ChannelShape, ChannelTypeOK
<1>3. ASSUME ~raced
      PROVE  /\ \A k \in TaskSlots : task[k] \in {"running", "backoff"} => taskOf = k /\ abortOf = k
             /\ manual /\ ~BeingStopped =>
                  \A k \in TaskSlots : task[k] = "free" \/ (hookThrew /\ k \in aborted)
             /\ running <=> \E k \in TaskSlots : task[k] = "running"
             /\ restarts <= MaxAttempts + 1
  BY <1>3 DEF ChannelIInv, CalmInv, TablesAgree, MarkedIsBeingStopped, MarkedIsTold, AllFree, Status,
     RestartsAreCounted
<1>4. AliveTaskIsKnown /\ StoppedStaysDown
  BY <1>3 DEF AliveTaskIsKnown, StoppedStaysDown
<1>5. StatusIsTrue /\ RestartsAreBounded
  BY <1>3 DEF StatusIsTrue, RestartsAreBounded
<1> QED
  BY <1>2, <1>4, <1>5 DEF ChannelInv

\* A task of a channel account is known to those who would stop it, what is stopped
\* stays down, the status shown is so and the automatic restarts are bounded, for any
\* callers, slots and attempts, as long as no start has overlapped with another start or
\* a stop; a stop whose hook has thrown may leave a task that was told to end
\* (server-channels.ts: startChannelInternal, stopChannel, runCheck of the monitor).
THEOREM AccountsAreKnown == ChannelSpec => []ChannelInv
BY ChannelInitInv, ChannelNextInv, ChannelIInvGives, PTL DEF ChannelSpec

-----------------------------------------------------------------------------
(* Subagents: the parts of the invariant for one record *)

Flows == {"no", "checks", "reads", "delivers", "announced", "givenUp"}
Entries ==
  [st : {"new", "listed", "gone"}, outcome : {"none", "complete", "other"},
   handled : BOOLEAN, done : BOOLEAN, suppress : {"no", "steer", "killed"},
   retries : 0..MaxRetries, tried : {"no", "lately", "waited"}, old : BOOLEAN, hooked : BOOLEAN,
   resumed : BOOLEAN, errorTimer : BOOLEAN, waits : BOOLEAN, retryTimers : Nat,
   backoffTimers : Nat, hook : BOOLEAN, thenFlow : BOOLEAN, flow : Flows]
Works == {"new", "queued", "runs", "failing", "again", "over"}

Going(e) == e.flow \in {"checks", "reads", "delivers"}

\* An entry by itself: a clean-up that is under way has marked it, has an attempt left and
\* is not that of a run that is stopped, and only runs that expect a message have timers.
WellFormed(r, e) ==
  /\ Listed(e) /\ e.flow # "no" => e.handled /\ HasEnded(e)
  /\ Listed(e) /\ Going(e) => ~e.done
  /\ Listed(e) /\ ~e.done /\ e.retries = MaxRetries =>
       e.flow = "givenUp" \/ (e.flow = "no" /\ e.handled)
  /\ r \notin Expecting => e.retryTimers = 0 /\ e.backoffTimers = 0
  /\ e.thenFlow => HasEnded(e) /\ e.suppress # "steer"
  /\ e.suppress = "killed" => e.done /\ e.flow = "no"
  /\ e.suppress = "steer" => e.flow = "no"
  /\ ~Listed(e) => e.suppress = "no" /\ ~e.done
  /\ e.st = "new" => e.flow = "no"

\* The entry of a run that was announced n times.
AnnouncedOK(e, n) ==
  n > 0 =>
    /\ n = 1 /\ ~Going(e) /\ e.st # "new" /\ e.suppress # "killed"
    /\ Listed(e) => e.handled /\ HasEnded(e)

\* The mark of a clean-up is not left behind.
MarkOK(e) == Listed(e) /\ e.handled /\ ~e.done => e.flow # "no"
InHand(e) == e.flow # "no" \/ e.backoffTimers > 0 \/ (e.retryTimers > 0 /\ ~e.resumed)
HandOK(r, e) ==
  r \in Expecting /\ Listed(e) /\ HasEnded(e) /\ ~e.done /\ e.suppress # "steer" => InHand(e)

\* The entry of run r, announced n times and stranded by a crash if s.
HalfOK(r, e, n, s) ==
  e \in Entries /\ WellFormed(r, e) /\ AnnouncedOK(e, n) /\ (~s => MarkOK(e))
EntryOK(r, e, n, s) == HalfOK(r, e, n, s) /\ (~s => HandOK(r, e))

\* What was settled stays so, and nothing is put in the registry.
Keeps(e, f) ==
  /\ Listed(f) => Listed(e) /\ (Settled(e) => Settled(f))
  /\ f.flow = "delivers" => e.flow = "delivers"
Moves(r, e, f, n, s) == EntryOK(r, f, n, s) /\ Keeps(e, f)

-----------------------------------------------------------------------------
(* Subagents: what one call does to a record *)

LEMMA NoEntryIsOne == NoEntry \in Entries
<1>1. 0 \in 0..MaxRetries
  BY SubagentAssumption
<1> QED
  BY <1>1 DEF NoEntry, Entries, Flows

LEMMA StartFlowFacts ==
  ASSUME NEW r, NEW e, NEW n, NEW s, HalfOK(r, e, n, s), HasEnded(e), e.suppress # "steer"
  PROVE  Moves(r, e, StartFlow(e), n, s)
<1>1. CASE ~Listed(e) \/ e.done \/ e.handled
  BY <1>1 DEF StartFlow, HalfOK, EntryOK, HandOK, Moves, Keeps, MarkOK, InHand, WellFormed
<1>2. CASE Listed(e) /\ ~e.done /\ ~e.handled
  <2> DEFINE f == [e EXCEPT !.handled = TRUE, !.flow = "checks"]
  <2>1. StartFlow(e) = f
    BY <1>2 DEF StartFlow
  <2>2. f \in Entries
    BY DEF HalfOK, Entries, Flows
  <2>3. WellFormed(r, f) /\ AnnouncedOK(f, n)
    BY <1>2 DEF HalfOK, WellFormed, AnnouncedOK, Entries, Going, Listed, HasEnded
  <2>4. MarkOK(f) /\ HandOK(r, f) /\ Keeps(e, f)
    BY <1>2 DEF HalfOK, MarkOK, HandOK, InHand, Keeps, Entries, Settled, Listed, HasEnded
  <2> QED
    BY <2>1, <2>2, <2>3, <2>4 DEF Moves, EntryOK, HalfOK
<1> QED
  BY <1>1, <1>2 DEF HalfOK, Entries

LEMMA DroppedFacts ==
  ASSUME NEW r, NEW e \in Entries, NEW n, NEW s, WellFormed(r, e), AnnouncedOK(e, n), e.st # "new"
  PROVE  Moves(r, e, Dropped(e), n, s)
<1>1. Dropped(e) \in Entries
  BY NoEntryIsOne DEF Dropped, Entries
<1>2. WellFormed(r, Dropped(e)) /\ AnnouncedOK(Dropped(e), n)
  BY SubagentAssumption DEF Dropped, NoEntry, WellFormed, AnnouncedOK, Entries, Going, Listed, HasEnded
<1>3. MarkOK(Dropped(e)) /\ HandOK(r, Dropped(e)) /\ Keeps(e, Dropped(e))
  BY DEF Dropped, NoEntry, MarkOK, HandOK, Keeps, Listed
<1> QED
  BY <1>1, <1>2, <1>3 DEF Moves, EntryOK, HalfOK

LEMMA TidiedFacts ==
  ASSUME NEW r, NEW e, NEW n, NEW s, EntryOK(r, e, n, s)
  PROVE  Moves(r, e, Tidied(e), n, s)
<1>1. CASE ~e.done
  BY <1>1 DEF Tidied, Moves, Keeps
<1>2. CASE e.done
  <2> DEFINE f == Tidied(e)
  <2>1. f \in Entries
    <3>1. PICK u \in {"no", "steer", "killed"}, w \in Flows : u = e.suppress /\ w = e.flow
      BY DEF EntryOK, HalfOK, Entries
    <3>2. f = [NoEntry EXCEPT !.st = "listed", !.outcome = "complete", !.handled = TRUE,
                              !.done = TRUE, !.suppress = u, !.flow = w,
                              !.hook = e.hook /\ w # "no"]
      BY <1>2, <3>1 DEF Tidied
    <3>3. [NoEntry EXCEPT !.st = "listed", !.outcome = "complete", !.handled = TRUE,
                          !.done = TRUE, !.suppress = u, !.flow = w, !.hook = e.hook /\ w # "no"]
            \in Entries
      BY NoEntryIsOne DEF Entries
    <3> QED
      BY <3>2, <3>3
  <2>2. WellFormed(r, f) /\ AnnouncedOK(f, n)
    BY <1>2, SubagentAssumption DEF Tidied, NoEntry, EntryOK, HalfOK, WellFormed, AnnouncedOK, Entries, Going, Listed, HasEnded
  <2>3. MarkOK(f) /\ HandOK(r, f) /\ Keeps(e, f)
    BY <1>2 DEF Tidied, NoEntry, EntryOK, HalfOK, WellFormed, MarkOK, HandOK, Keeps, Listed, Settled, HasEnded
  <2> QED
    BY <2>1, <2>2, <2>3 DEF Moves, EntryOK, HalfOK
<1> QED
  BY <1>1, <1>2 DEF EntryOK, HalfOK, Entries

LEMMA ResumedFacts ==
  ASSUME NEW r \in Subagents, NEW e, NEW n, NEW s, NEW early, HalfOK(r, e, n, s),
         ~s /\ e.resumed => HandOK(r, e), r \notin Expecting => ~Going(e)
  PROVE  Moves(r, e, Resumed(r, e, early), n, s)
<1> DEFINE f == Resumed(r, e, early)
<1>0. e \in Entries
  BY DEF HalfOK
<1>1. CASE e.resumed \/ ~Listed(e)
  <2>1. f = e
    BY <1>1 DEF Resumed
  <2>2. ~s => HandOK(r, e)
    BY <1>1 DEF HandOK
  <2> QED
    BY <2>1, <2>2 DEF Moves, EntryOK, Keeps
<1>2. CASE ~e.resumed /\ Listed(e) /\ ~session[r]
  BY <1>0, <1>2, DroppedFacts DEF Resumed, Listed, HalfOK
<1> DEFINE Here == ~e.resumed /\ Listed(e) /\ session[r]
<1>3. CASE Here /\ e.done
  <2>1. f = e
    BY <1>3 DEF Resumed
  <2>2. HandOK(r, e)
    BY <1>3 DEF HandOK
  <2> QED
    BY <2>1, <2>2 DEF Moves, EntryOK, Keeps
<1> DEFINE Over == e.retries >= MaxRetries \/ (r \notin Expecting /\ HasEnded(e) /\ e.old)
<1>4. CASE Here /\ ~e.done /\ Over
  <2> DEFINE g == [e EXCEPT !.done = TRUE]
  <2>1. f = g
    BY <1>4 DEF Resumed
  <2>2. ~Going(e)
    BY <1>0, <1>4, SubagentAssumption DEF HalfOK, WellFormed, Going, Entries
  <2>3. g \in Entries
    BY <1>0 DEF Entries
  <2>4. WellFormed(r, g) /\ AnnouncedOK(g, n)
    BY <1>0, <1>4, <2>2 DEF HalfOK, WellFormed, AnnouncedOK, Entries, Going, Listed, HasEnded
  <2>5. MarkOK(g) /\ HandOK(r, g) /\ Keeps(e, g)
    BY <1>0, <1>4 DEF MarkOK, HandOK, Keeps, Entries, Settled, Listed, HasEnded
  <2> QED
    BY <2>1, <2>3, <2>4, <2>5 DEF Moves, EntryOK, HalfOK
<1>5. CASE Here /\ ~e.done /\ ~Over /\ r \in Expecting /\ early
  <2> DEFINE g == [e EXCEPT !.backoffTimers = @ + 1, !.tried = "waited", !.resumed = TRUE]
  <2>1. f = g
    BY <1>5 DEF Resumed
  <2>2. g \in Entries
    <3>1. PICK k \in Nat : k = e.backoffTimers + 1
      BY <1>0 DEF Entries
    <3>2. [e EXCEPT !.backoffTimers = k, !.tried = "waited", !.resumed = TRUE] \in Entries
      BY <1>0 DEF Entries
    <3> QED
      BY <3>1, <3>2
  <2>3. WellFormed(r, g) /\ AnnouncedOK(g, n)
    BY <1>0, <1>5 DEF HalfOK, WellFormed, AnnouncedOK, Entries, Going, Listed, HasEnded
  <2>4. (~s => MarkOK(g)) /\ HandOK(r, g) /\ Keeps(e, g)
    BY <1>0, <1>5 DEF HalfOK, MarkOK, HandOK, InHand, Keeps, Entries, Settled, Listed, HasEnded
  <2> QED
    BY <2>1, <2>2, <2>3, <2>4 DEF Moves, EntryOK, HalfOK
<1> DEFINE Now == Here /\ ~e.done /\ ~Over /\ ~(r \in Expecting /\ early)
<1>6. CASE Now /\ ~HasEnded(e)
  <2> DEFINE g == [e EXCEPT !.waits = TRUE, !.resumed = TRUE]
  <2>1. f = g
    BY <1>6 DEF Resumed
  <2>2. g \in Entries
    BY <1>0 DEF Entries
  <2>3. WellFormed(r, g) /\ AnnouncedOK(g, n)
    BY <1>0, <1>6 DEF HalfOK, WellFormed, AnnouncedOK, Entries, Going, Listed, HasEnded
  <2>4. (~s => MarkOK(g)) /\ HandOK(r, g) /\ Keeps(e, g)
    BY <1>0, <1>6 DEF HalfOK, MarkOK, HandOK, InHand, Keeps, Entries, Settled, Listed, HasEnded
  <2> QED
    BY <2>1, <2>2, <2>3, <2>4 DEF Moves, EntryOK, HalfOK
<1>7. CASE Now /\ HasEnded(e) /\ e.suppress = "steer"
  <2> DEFINE g == [e EXCEPT !.resumed = TRUE]
  <2>1. f = g
    BY <1>7 DEF Resumed
  <2>2. g \in Entries
    BY <1>0 DEF Entries
  <2>3. WellFormed(r, g) /\ AnnouncedOK(g, n)
    BY <1>0, <1>7 DEF HalfOK, WellFormed, AnnouncedOK, Entries, Going, Listed, HasEnded
  <2>4. (~s => MarkOK(g)) /\ HandOK(r, g) /\ Keeps(e, g)
    BY <1>0, <1>7 DEF HalfOK, MarkOK, HandOK, InHand, Keeps, Entries, Settled, Listed, HasEnded
  <2> QED
    BY <2>1, <2>2, <2>3, <2>4 DEF Moves, EntryOK, HalfOK
<1>8. CASE Now /\ HasEnded(e) /\ e.suppress # "steer" /\ e.handled
  <2>1. f = e
    BY <1>8 DEF Resumed
  <2>2. ~s => HandOK(r, e)
    BY <1>8 DEF HalfOK, MarkOK, HandOK, InHand
  <2> QED
    BY <2>1, <2>2 DEF Moves, EntryOK, Keeps
<1>9. CASE Now /\ HasEnded(e) /\ e.suppress # "steer" /\ ~e.handled
  <2> DEFINE g == StartFlow(e)
             h == [e EXCEPT !.handled = TRUE, !.flow = "checks", !.resumed = TRUE]
  <2>1. f = [g EXCEPT !.resumed = TRUE]
    BY <1>9 DEF Resumed
  <2>2. g = [e EXCEPT !.handled = TRUE, !.flow = "checks"]
    BY <1>9 DEF StartFlow
  <2>3. f = h
    BY <1>0, <2>1, <2>2 DEF Entries
  <2>4. h \in Entries
    BY <1>0 DEF Entries, Flows
  <2>5. WellFormed(r, h) /\ AnnouncedOK(h, n)
    BY <1>0, <1>9 DEF HalfOK, WellFormed, AnnouncedOK, Entries, Going, Listed, HasEnded
  <2>6. MarkOK(h) /\ HandOK(r, h) /\ Keeps(e, h)
    BY <1>0, <1>9 DEF MarkOK, HandOK, InHand, Keeps, Entries, Settled, Listed, HasEnded
  <2> QED
    BY <2>3, <2>4, <2>5, <2>6 DEF Moves, EntryOK, HalfOK
<1> QED
  BY <1>1, <1>2, <1>3, <1>4, <1>5, <1>6, <1>7, <1>8, <1>9

LEMMA CompletedFacts ==
  ASSUME NEW r, NEW e, NEW n, NEW s, EntryOK(r, e, n, s), NEW how \in {"complete", "other"}
  PROVE  Moves(r, e, Completed(r, e, how), n, s)
<1> DEFINE c == [e EXCEPT !.errorTimer = FALSE, !.outcome = how]
           f == Completed(r, e, how)
<1>0. e \in Entries
  BY DEF EntryOK, HalfOK
<1>1. CASE ~Listed(e)
  BY <1>1 DEF Completed, Moves, Keeps
<1>2. c \in Entries /\ HasEnded(c)
  BY <1>0 DEF Entries, HasEnded
<1>3. WellFormed(r, c) /\ AnnouncedOK(c, n)
  BY <1>0 DEF EntryOK, HalfOK, WellFormed, AnnouncedOK, Entries, Going, Listed, HasEnded
<1>4. (~s => MarkOK(c)) /\ Keeps(e, c)
  BY <1>0 DEF EntryOK, HalfOK, MarkOK, Keeps, Entries, Settled, Listed, HasEnded
<1>5. c.suppress = e.suppress
  BY <1>0 DEF Entries
<1>6. HalfOK(r, c, n, s)
  BY <1>2, <1>3, <1>4 DEF HalfOK
<1>7. CASE Listed(e) /\ e.suppress = "steer"
  <2>1. f = c
    BY <1>7 DEF Completed
  <2>2. HandOK(r, c)
    BY <1>5, <1>7 DEF HandOK
  <2> QED
    BY <1>4, <1>6, <2>1, <2>2 DEF Moves, EntryOK
<1>8. CASE Listed(e) /\ e.suppress # "steer" /\ (r \in Expecting \/ e.hooked \/ e.hook)
  <2>1. f = StartFlow(c)
    BY <1>8 DEF Completed
  <2>2. Moves(r, c, f, n, s)
    BY <1>2, <1>5, <1>6, <1>8, <2>1, StartFlowFacts
  <2> QED
    BY <1>4, <2>2 DEF Moves, Keeps
<1>9. CASE Listed(e) /\ e.suppress # "steer" /\ ~(r \in Expecting \/ e.hooked \/ e.hook)
  <2> DEFINE g == [c EXCEPT !.hook = TRUE, !.thenFlow = TRUE]
  <2>1. f = g
    BY <1>9 DEF Completed
  <2> HIDE DEF c
  <2>2. g \in Entries
    BY <1>2 DEF Entries
  <2>3. WellFormed(r, g) /\ AnnouncedOK(g, n)
    BY <1>2, <1>3, <1>5, <1>9 DEF WellFormed, AnnouncedOK, Entries, Going, Listed, HasEnded
  <2>4. (~s => MarkOK(g)) /\ HandOK(r, g) /\ Keeps(c, g)
    BY <1>2, <1>4, <1>9 DEF MarkOK, HandOK, InHand, Keeps, Entries, Settled, Listed, HasEnded
  <2> QED
    BY <1>4, <2>1, <2>2, <2>3, <2>4 DEF Moves, EntryOK, HalfOK, Keeps
<1> QED
  BY <1>1, <1>7, <1>8, <1>9

LEMMA RetriedFacts ==
  ASSUME NEW r \in Subagents, NEW e, NEW n, NEW s, NEW early, EntryOK(r, e, n, s)
  PROVE  Moves(r, e, Retried(r, e, early), n, s)
<1> DEFINE f == Retried(r, e, early)
           Left == ~Listed(e) \/ ~HasEnded(e) \/ e.done \/ e.handled \/ e.suppress = "steer"
<1>0. e \in Entries
  BY DEF EntryOK, HalfOK
<1>1. CASE Left
  BY <1>1 DEF Retried, Moves, Keeps
<1>2. CASE ~Left /\ r \notin Expecting /\ e.old
  <2> DEFINE g == [e EXCEPT !.done = TRUE]
  <2>1. f = g
    BY <1>2 DEF Retried
  <2>2. g \in Entries
    BY <1>0 DEF Entries
  <2>3. WellFormed(r, g) /\ AnnouncedOK(g, n)
    BY <1>0, <1>2 DEF EntryOK, HalfOK, WellFormed, AnnouncedOK, Entries, Going, Listed, HasEnded
  <2>4. MarkOK(g) /\ HandOK(r, g) /\ Keeps(e, g)
    BY <1>0, <1>2 DEF MarkOK, HandOK, Keeps, Entries, Settled, Listed, HasEnded
  <2> QED
    BY <2>1, <2>2, <2>3, <2>4 DEF Moves, EntryOK, HalfOK
<1>3. CASE ~Left /\ ~(r \notin Expecting /\ e.old)
  <2> DEFINE g == [e EXCEPT !.resumed = FALSE]
  <2>1. f = Resumed(r, g, early)
    BY <1>3 DEF Retried
  <2>2. g \in Entries /\ ~g.resumed
    BY <1>0 DEF Entries
  <2>3. WellFormed(r, g) /\ AnnouncedOK(g, n)
    BY <1>0 DEF EntryOK, HalfOK, WellFormed, AnnouncedOK, Entries, Going, Listed, HasEnded
  <2>4. ~Going(g) /\ (~s => MarkOK(g)) /\ Keeps(e, g)
    BY <1>0, <1>3 DEF EntryOK, HalfOK, WellFormed, MarkOK, Keeps, Entries, Settled, Listed, HasEnded, Going
  <2>5. Moves(r, g, Resumed(r, g, early), n, s)
    BY <2>2, <2>3, <2>4, ResumedFacts DEF HalfOK
  <2> QED
    BY <2>1, <2>4, <2>5 DEF Moves, Keeps
<1> QED
  BY <1>1, <1>2, <1>3

\* A flow that announces or gives up.
Settles(e, how, b, k) == [e EXCEPT !.flow = how, !.hook = b, !.retries = k]

LEMMA SettlingFacts ==
  ASSUME NEW r, NEW e, NEW n \in Nat, NEW s, EntryOK(r, e, n, s), Listed(e), Going(e),
         NEW how \in {"announced", "givenUp"}, NEW b \in BOOLEAN, NEW k \in 0..MaxRetries,
         k = MaxRetries => how = "givenUp", NEW m \in {0, 1}
  PROVE  Moves(r, e, Settles(e, how, b, k), m, s)
<1> DEFINE g == [e EXCEPT !.flow = how, !.hook = b, !.retries = k]
<1>0. e \in Entries
  BY DEF EntryOK, HalfOK
<1>1. g \in Entries
  BY <1>0 DEF Entries, Flows
<1>2. WellFormed(r, g) /\ AnnouncedOK(g, m)
  BY <1>0 DEF EntryOK, HalfOK, WellFormed, AnnouncedOK, Entries, Going, Listed, HasEnded
<1>3. MarkOK(g) /\ HandOK(r, g) /\ Keeps(e, g)
  BY <1>0 DEF MarkOK, HandOK, InHand, Keeps, Entries, Settled, Listed, HasEnded
<1> QED
  BY <1>1, <1>2, <1>3 DEF Moves, EntryOK, HalfOK, Settles

\* A flow that will be tried again.
LEMMA DeferredFacts ==
  ASSUME NEW r, NEW e, NEW n \in Nat, NEW s, EntryOK(r, e, n, s), Listed(e), Going(e),
         NEW k \in 0..MaxRetries, k # MaxRetries
  PROVE  Moves(r, e, [Deferred(r, e) EXCEPT !.retries = k], 0, s)
<1>0. e \in Entries
  BY DEF EntryOK, HalfOK
<1>1. CASE r \in Expecting
  <2>1. PICK t \in Nat : t = e.retryTimers + 1
    BY <1>0 DEF Entries
  <2> DEFINE g == [e EXCEPT !.flow = "no", !.handled = FALSE, !.resumed = FALSE,
                            !.tried = "lately", !.retryTimers = t, !.retries = k]
  <2>2. Deferred(r, e) = [e EXCEPT !.flow = "no", !.handled = FALSE, !.resumed = FALSE,
                                   !.tried = "lately", !.retryTimers = t]
    BY <1>1, <2>1 DEF Deferred
  <2>3. [Deferred(r, e) EXCEPT !.retries = k] = g
    BY <1>0, <2>2 DEF Entries
  <2>4. g \in Entries
    BY <1>0 DEF Entries, Flows
  <2>5. WellFormed(r, g) /\ AnnouncedOK(g, 0)
    BY <1>0, <1>1 DEF EntryOK, HalfOK, WellFormed, AnnouncedOK, Entries, Going, Listed, HasEnded
  <2>6. MarkOK(g) /\ HandOK(r, g) /\ Keeps(e, g)
    BY <1>0, <2>1 DEF MarkOK, HandOK, InHand, Keeps, Entries, Settled, Listed, HasEnded
  <2> QED
    BY <2>3, <2>4, <2>5, <2>6 DEF Moves, EntryOK, HalfOK
<1>2. CASE r \notin Expecting
  <2> DEFINE g == [e EXCEPT !.flow = "no", !.handled = FALSE, !.resumed = FALSE, !.retries = k]
  <2>2. Deferred(r, e) = [e EXCEPT !.flow = "no", !.handled = FALSE, !.resumed = FALSE]
    BY <1>2 DEF Deferred
  <2>3. [Deferred(r, e) EXCEPT !.retries = k] = g
    BY <1>0, <2>2 DEF Entries
  <2>4. g \in Entries
    BY <1>0 DEF Entries, Flows
  <2>5. WellFormed(r, g) /\ AnnouncedOK(g, 0)
    BY <1>0, <1>2 DEF EntryOK, HalfOK, WellFormed, AnnouncedOK, Entries, Going, Listed, HasEnded
  <2>6. MarkOK(g) /\ HandOK(r, g) /\ Keeps(e, g)
    BY <1>0, <1>2 DEF MarkOK, HandOK, InHand, Keeps, Entries, Settled, Listed, HasEnded
  <2> QED
    BY <2>3, <2>4, <2>5, <2>6 DEF Moves, EntryOK, HalfOK
<1> QED
  BY <1>1, <1>2

LEMMA FinalizedFacts ==
  ASSUME NEW r, NEW e, NEW n \in Nat, NEW s, EntryOK(r, e, n, s), Going(e),
         NEW did \in BOOLEAN, NEW pending \in BOOLEAN, NEW m, m = 0 \/ (did /\ m = 1)
  PROVE  Moves(r, e, Finalized(r, e, did, pending), m, s)
<1> DEFINE f == Finalized(r, e, did, pending)
<1>0. e \in Entries
  BY DEF EntryOK, HalfOK
<1>1. CASE ~Listed(e)
  <2> DEFINE g == [e EXCEPT !.flow = "no"]
  <2>1. f = g
    BY <1>1 DEF Finalized
  <2>2. g \in Entries
    BY <1>0 DEF Entries, Flows
  <2>3. WellFormed(r, g) /\ AnnouncedOK(g, m)
    BY <1>0, <1>1 DEF EntryOK, HalfOK, WellFormed, AnnouncedOK, Entries, Going, Listed, HasEnded
  <2>4. MarkOK(g) /\ HandOK(r, g) /\ Keeps(e, g)
    BY <1>0, <1>1 DEF MarkOK, HandOK, Keeps, Entries, Settled, Listed, HasEnded
  <2> QED
    BY <2>1, <2>2, <2>3, <2>4 DEF Moves, EntryOK, HalfOK
<1>2. CASE Listed(e)
  <2>a. e.retries \in 0..MaxRetries /\ e.retries # MaxRetries /\ MaxRetries \in Nat \ {0}
    BY <1>0, <1>2, SubagentAssumption DEF EntryOK, HalfOK, WellFormed, Going, Entries
  <2>0. PICK j \in 0..MaxRetries : j = e.retries /\ j # MaxRetries
    BY <2>a
  <2>1. PICK b \in BOOLEAN : b = (e.hook \/ (r \in Expecting /\ ~e.hooked))
    <3>1. (e.hook \/ (r \in Expecting /\ ~e.hooked)) \in BOOLEAN
      OBVIOUS
    <3> QED
      BY <3>1
  <2>2. ASSUME NEW how PROVE Settling(r, e, how) = [e EXCEPT !.flow = how, !.hook = b]
    BY <2>1 DEF Settling
  <2>3. ASSUME NEW how, NEW k
        PROVE  /\ [Settling(r, e, how) EXCEPT !.retries = k]
                    = Settles(e, how, b, k)
               /\ Settling(r, e, how) = Settles(e, how, b, j)
    <3>1. [e EXCEPT !.flow = how, !.hook = b] = [e EXCEPT !.flow = how, !.hook = b, !.retries = j]
      BY <1>0, <2>0 DEF Entries
    <3>2. [[e EXCEPT !.flow = how, !.hook = b] EXCEPT !.retries = k]
            = [e EXCEPT !.flow = how, !.hook = b, !.retries = k]
      BY <1>0 DEF Entries
    <3> QED
      BY <2>2, <3>1, <3>2 DEF Settles
  <2>4. Deferred(r, e) = [Deferred(r, e) EXCEPT !.retries = j]
    BY <1>0, <2>0 DEF Deferred, Entries
  <2>5. CASE did
    <3>1. f = Settling(r, e, "announced")
      BY <1>2, <2>5 DEF Finalized
    <3>2. m \in {0, 1}
      OBVIOUS
    <3>3. Moves(r, e, Settles(e, "announced", b, j), m, s)
      BY <1>2, <2>0, <3>2, SettlingFacts
    <3> QED
      BY <2>3, <3>1, <3>3
  <2>6. CASE ~did
    <3>0. m = 0
      BY <2>6
    <3>1. PICK k \in 0..MaxRetries : k = e.retries + 1
      BY <2>a
    <3>2. CASE r \in Expecting /\ pending
      <4>1. CASE e.old
        <5>1. f = Settling(r, e, "givenUp")
          BY <1>2, <2>6, <3>2, <4>1 DEF Finalized
        <5>2. Moves(r, e, Settles(e, "givenUp", b, j), m, s)
          BY <1>2, <2>0, <3>0, SettlingFacts
        <5> QED
          BY <2>3, <5>1, <5>2
      <4>2. CASE ~e.old
        <5>1. f = Deferred(r, e)
          BY <1>2, <2>6, <3>2, <4>2 DEF Finalized
        <5>2. Moves(r, e, [Deferred(r, e) EXCEPT !.retries = j], 0, s)
          BY <1>2, <2>0, DeferredFacts
        <5> QED
          BY <2>4, <3>0, <5>1, <5>2
      <4> QED
        BY <4>1, <4>2
    <3>3. CASE ~(r \in Expecting /\ pending)
      <4>1. CASE k >= MaxRetries \/ e.old
        <5>1. f = [Settling(r, e, "givenUp") EXCEPT !.retries = k]
          BY <1>2, <2>6, <3>1, <3>3, <4>1 DEF Finalized
        <5>2. Moves(r, e, Settles(e, "givenUp", b, k), m, s)
          BY <1>2, <2>0, <3>0, SettlingFacts
        <5> QED
          BY <2>3, <5>1, <5>2
      <4>2. CASE ~(k >= MaxRetries \/ e.old)
        <5>1. f = [Deferred(r, e) EXCEPT !.retries = k]
          BY <1>2, <2>6, <3>1, <3>3, <4>2 DEF Finalized
        <5>2. Moves(r, e, [Deferred(r, e) EXCEPT !.retries = k], 0, s)
          BY <1>2, <2>0, <4>2, DeferredFacts
        <5> QED
          BY <3>0, <5>1, <5>2
      <4> QED
        BY <4>1, <4>2
    <3> QED
      BY <3>2, <3>3
  <2> QED
    BY <2>5, <2>6
<1> QED
  BY <1>1, <1>2

LEMMA BookkeptFacts ==
  ASSUME NEW r, NEW e, NEW n, NEW s, EntryOK(r, e, n, s), e.flow \in {"announced", "givenUp"},
         NEW g, g = [e EXCEPT !.flow = "no"]
  PROVE  /\ ~Listed(g) => Moves(r, e, g, n, s)
         /\ Listed(g) => Moves(r, e, Dropped(g), n, s) /\ Moves(r, e, [g EXCEPT !.done = TRUE], n, s)
<1>0. e \in Entries
  BY DEF EntryOK, HalfOK
<1>1. g \in Entries
  BY <1>0 DEF Entries, Flows
<1>2. WellFormed(r, g) /\ AnnouncedOK(g, n)
  BY <1>0 DEF EntryOK, HalfOK, WellFormed, AnnouncedOK, Entries, Going, Listed, HasEnded
<1>3. Keeps(e, g)
  BY <1>0 DEF Keeps, Entries, Settled, Listed, HasEnded
<1>4. CASE ~Listed(g)
  BY <1>1, <1>2, <1>3, <1>4 DEF Moves, EntryOK, HalfOK, MarkOK, HandOK
<1>5. CASE Listed(g)
  <2> DEFINE f == [g EXCEPT !.done = TRUE]
  <2>1. f \in Entries
    BY <1>1 DEF Entries
  <2>2. HasEnded(g) /\ g.handled /\ g.flow = "no" /\ g.suppress # "steer" /\ e.flow # "no" /\ Listed(e)
    BY <1>0, <1>5 DEF EntryOK, HalfOK, WellFormed, Entries, Listed, HasEnded
  <2>3. WellFormed(r, f) /\ AnnouncedOK(f, n)
    BY <1>1, <1>2, <1>5, <2>2 DEF WellFormed, AnnouncedOK, Entries, Going, Listed, HasEnded
  <2>4. MarkOK(f) /\ HandOK(r, f) /\ Keeps(g, f)
    BY <1>1, <2>2 DEF MarkOK, HandOK, Keeps, Entries, Settled, Listed, HasEnded
  <2>5. Moves(r, e, f, n, s)
    BY <1>3, <2>1, <2>3, <2>4 DEF Moves, EntryOK, HalfOK, Keeps
  <2>6. Moves(r, g, Dropped(g), n, s)
    BY <1>1, <1>2, <1>5, DroppedFacts DEF Listed
  <2> QED
    BY <1>3, <1>5, <2>5, <2>6 DEF Moves, Keeps
<1> QED
  BY <1>4, <1>5

\* What is left of an entry by a crash that strands the run if its clean-up was under way.
LEMMA PersistedFacts ==
  ASSUME NEW r, NEW e, NEW n, NEW s, EntryOK(r, e, n, s)
  PROVE  LET f == Persisted(e)
             z == s \/ (e.handled /\ ~e.done) \/ e.suppress = "steer"
         IN  /\ HalfOK(r, f, n, z) /\ Keeps(e, f) /\ ~Going(f)
             /\ f.resumed => HandOK(r, f)
<1> DEFINE f == Persisted(e)
           z == s \/ (e.handled /\ ~e.done) \/ e.suppress = "steer"
<1>0. e \in Entries
  BY DEF EntryOK, HalfOK
<1>1. CASE ~Listed(e)
  <2> DEFINE g == [e EXCEPT !.flow = "no", !.hook = FALSE]
  <2>1. f = g
    BY <1>1 DEF Persisted
  <2>2. g \in Entries
    BY <1>0 DEF Entries, Flows
  <2>3. WellFormed(r, g) /\ AnnouncedOK(g, n) /\ ~Going(g)
    BY <1>0, <1>1 DEF EntryOK, HalfOK, WellFormed, AnnouncedOK, Entries, Going, Listed, HasEnded
  <2>4. MarkOK(g) /\ HandOK(r, g) /\ Keeps(e, g)
    BY <1>0, <1>1 DEF MarkOK, HandOK, Keeps, Entries, Settled, Listed, HasEnded
  <2> QED
    BY <2>1, <2>2, <2>3, <2>4 DEF HalfOK
<1>2. CASE Listed(e)
  <2> DEFINE g == [e EXCEPT !.resumed = FALSE, !.errorTimer = FALSE, !.waits = FALSE,
                            !.retryTimers = 0, !.backoffTimers = 0, !.hook = FALSE,
                            !.thenFlow = FALSE, !.flow = "no"]
  <2>1. f = g
    BY <1>2 DEF Persisted
  <2>2. g \in Entries /\ ~g.resumed
    BY <1>0 DEF Entries, Flows
  <2>3. WellFormed(r, g) /\ AnnouncedOK(g, n) /\ ~Going(g)
    BY <1>0, <1>2 DEF EntryOK, HalfOK, WellFormed, AnnouncedOK, Entries, Going, Listed, HasEnded
  <2>4. (~z => MarkOK(g)) /\ Keeps(e, g)
    BY <1>0, <1>2 DEF MarkOK, Keeps, Entries, Settled, Listed, HasEnded
  <2> QED
    BY <2>1, <2>2, <2>3, <2>4 DEF HalfOK
<1> QED
  BY <1>1, <1>2

-----------------------------------------------------------------------------
(* Subagents: the inductive invariant *)

ToldOrTelling(r) == announced[r] > 0 \/ entry[r].flow = "delivers"

\* Who has been announced, or is being, has no descendants pending.
SubagentIInv ==
  /\ announced \in [Subagents -> Nat] /\ work \in [Subagents -> Works]
  /\ session \in [Subagents -> BOOLEAN] /\ steering \in [Subagents -> BOOLEAN]
  /\ stranded \in [Subagents -> BOOLEAN]
  /\ revived \in BOOLEAN /\ DOMAIN entry = Subagents
  /\ \A r \in Subagents : EntryOK(r, entry[r], announced[r], stranded[r])
  /\ ~revived => \A r \in Subagents : ToldOrTelling(r) => ~PendingDescendants(r)

LEMMA DescendantsAreClosed ==
  ASSUME NEW r
  PROVE  /\ Descendants(r) \subseteq Subagents
         /\ \A d \in Descendants(r) : Listed(entry[d])
         /\ \A q \in Descendants(r) \cup {r} : ChildrenOf(q) \subseteq Descendants(r)
<1>1. Descendants(r) \subseteq Subagents
  BY DEF Descendants
<1>2. ASSUME NEW d \in Descendants(r) PROVE Listed(entry[d])
  <2> DEFINE S == {c \in Subagents : Listed(entry[c])}
  <2>1. S \in SUBSET Subagents /\ \A q \in S \cup {r} : ChildrenOf(q) \subseteq S
    BY DEF ChildrenOf
  <2>2. d \in S
    BY <1>2, <2>1 DEF Descendants
  <2> QED
    BY <2>2
<1>3. ASSUME NEW q \in Descendants(r) \cup {r}, NEW c \in ChildrenOf(q) PROVE c \in Descendants(r)
  <2>1. c \in Subagents
    BY DEF ChildrenOf
  <2>2. ASSUME NEW S \in SUBSET Subagents, \A p \in S \cup {r} : ChildrenOf(p) \subseteq S
        PROVE  c \in S
    <3>1. q \in S \cup {r}
      BY <2>2 DEF Descendants
    <3> QED
      BY <2>2, <3>1
  <2> QED
    BY <2>1, <2>2 DEF Descendants
<1> QED
  BY <1>1, <1>2, <1>3

\* A run has no descendants pending as long as its descendants stay settled and no other
\* run becomes a child of one of them, or of the run.
LEMMA StaysQuiet ==
  ASSUME NEW r, ~PendingDescendants(r),
         \A d \in Descendants(r) : Listed(entry'[d]) => Settled(entry'[d]),
         \A q \in Descendants(r) \cup {r} :
           \A c \in Subagents : Requester[c] = q /\ Listed(entry'[c]) => Listed(entry[c])
  PROVE  ~PendingDescendants(r)'
<1> DEFINE S == {d \in Descendants(r) : Listed(entry'[d])}
<1>1. S \in SUBSET Subagents
  BY DescendantsAreClosed
<1>2. ASSUME NEW q \in S \cup {r}, NEW c \in ChildrenOf(q)' PROVE c \in S
  <2>1. c \in Subagents /\ Requester[c] = q /\ Listed(entry'[c])
    BY DEF ChildrenOf
  <2>2. c \in ChildrenOf(q)
    BY <2>1 DEF ChildrenOf
  <2> QED
    BY <2>1, <2>2, DescendantsAreClosed
<1>3. Descendants(r)' \subseteq S
  BY <1>1, <1>2 DEF Descendants
<1> QED
  BY <1>3 DEF PendingDescendants

LEMMA EntriesMove ==
  ASSUME SubagentIInv, announced' \in [Subagents -> Nat], work' \in [Subagents -> Works],
         session' \in [Subagents -> BOOLEAN] /\ steering' \in [Subagents -> BOOLEAN], stranded' \in [Subagents -> BOOLEAN],
         revived' = revived, DOMAIN entry' = Subagents,
         \A c \in Subagents : EntryOK(c, entry'[c], announced'[c], stranded'[c]),
         \A c \in Subagents :
           Listed(entry'[c]) => Listed(entry[c]) /\ (Settled(entry[c]) => Settled(entry'[c])),
         \A c \in Subagents :
           announced'[c] > 0 \/ entry'[c].flow = "delivers" =>
             announced[c] > 0 \/ entry[c].flow = "delivers" \/ ~PendingDescendants(c)
  PROVE  SubagentIInv'
<1>1. ASSUME ~revived, NEW r \in Subagents, ToldOrTelling(r)'
      PROVE  ~PendingDescendants(r)'
  <2>1. ~PendingDescendants(r)
    BY <1>1 DEF SubagentIInv, ToldOrTelling
  <2>2. \A d \in Descendants(r) : Listed(entry'[d]) => Settled(entry'[d])
    BY <2>1, DescendantsAreClosed DEF PendingDescendants
  <2> QED
    BY <2>1, <2>2, StaysQuiet
<1> QED
  BY <1>1 DEF SubagentIInv

\* The entry of one run becomes e.
LEMMA OneMoves ==
  ASSUME SubagentIInv, NEW r \in Subagents, NEW e, Becomes(r, e),
         announced' \in [Subagents -> Nat], \A c \in Subagents \ {r} : announced'[c] = announced[c],
         EntryOK(r, e, announced'[r], stranded[r]),
         Listed(e) => Listed(entry[r]) /\ (Settled(entry[r]) => Settled(e)),
         announced'[r] > 0 \/ e.flow = "delivers" =>
           announced[r] > 0 \/ entry[r].flow = "delivers" \/ ~PendingDescendants(r),
         work' \in [Subagents -> Works],
         session' \in [Subagents -> BOOLEAN] /\ steering' \in [Subagents -> BOOLEAN], stranded' = stranded, revived' = revived
  PROVE  SubagentIInv'
<1>1. Moves(r, e, Tidied(e), announced'[r], stranded[r])
  BY TidiedFacts
<1>2. entry'[r] = Tidied(e) /\ DOMAIN entry' = Subagents
  BY DEF Becomes, SubagentIInv
<1>3. \A c \in Subagents \ {r} : entry'[c] = entry[c]
  BY DEF Becomes, SubagentIInv
<1>4. ASSUME NEW c \in Subagents PROVE EntryOK(c, entry'[c], announced'[c], stranded'[c])
  <2>1. CASE c = r
    BY <1>1, <1>2, <2>1 DEF Moves
  <2>2. CASE c # r
    BY <1>3, <2>2 DEF SubagentIInv
  <2> QED
    BY <2>1, <2>2
<1>5. ASSUME NEW c \in Subagents, Listed(entry'[c])
      PROVE  Listed(entry[c]) /\ (Settled(entry[c]) => Settled(entry'[c]))
  BY <1>1, <1>2, <1>3, <1>5 DEF Moves, Keeps
<1>6. ASSUME NEW c \in Subagents, announced'[c] > 0 \/ entry'[c].flow = "delivers"
      PROVE  announced[c] > 0 \/ entry[c].flow = "delivers" \/ ~PendingDescendants(c)
  BY <1>1, <1>2, <1>3, <1>6 DEF Moves, Keeps
<1>7. stranded' \in [Subagents -> BOOLEAN]
  BY DEF SubagentIInv
<1> QED
  BY <1>2, <1>4, <1>5, <1>6, <1>7, EntriesMove

\* The same, when the run is not announced and does not begin to be.
LEMMA OneTurns ==
  ASSUME SubagentIInv, NEW r \in Subagents, NEW e, Becomes(r, e),
         Moves(r, entry[r], e, announced[r], stranded[r]),
         work' \in [Subagents -> Works],
         session' \in [Subagents -> BOOLEAN] /\ steering' \in [Subagents -> BOOLEAN],
         announced' = announced, stranded' = stranded, revived' = revived
  PROVE  SubagentIInv'
<1>1. announced' \in [Subagents -> Nat]
  BY DEF SubagentIInv
<1>2. /\ EntryOK(r, e, announced'[r], stranded[r])
      /\ Listed(e) => Listed(entry[r]) /\ (Settled(entry[r]) => Settled(e))
      /\ e.flow = "delivers" => entry[r].flow = "delivers"
  BY DEF Moves, Keeps
<1> QED
  BY <1>1, <1>2, OneMoves

LEMMA EntryHere ==
  ASSUME SubagentIInv, NEW r \in Subagents
  PROVE  /\ EntryOK(r, entry[r], announced[r], stranded[r]) /\ entry[r] \in Entries
         /\ HalfOK(r, entry[r], announced[r], stranded[r])
         /\ Moves(r, entry[r], entry[r], announced[r], stranded[r])
         /\ announced[r] \in Nat /\ session[r] \in BOOLEAN /\ stranded[r] \in BOOLEAN
BY DEF SubagentIInv, EntryOK, HalfOK, Moves, Keeps

\* The same record as far as the invariant is concerned.
Alike(e, f) ==
  /\ f \in Entries /\ f.st = e.st /\ f.outcome = e.outcome /\ f.handled = e.handled
  /\ f.done = e.done /\ f.suppress = e.suppress /\ f.retries = e.retries
  /\ f.resumed = e.resumed /\ f.retryTimers = e.retryTimers
  /\ f.backoffTimers = e.backoffTimers /\ f.thenFlow = e.thenFlow /\ f.flow = e.flow

LEMMA AlikeFacts ==
  ASSUME NEW r, NEW e, NEW n, NEW s, EntryOK(r, e, n, s), NEW f, Alike(e, f)
  PROVE  Moves(r, e, f, n, s)
BY DEF Alike, Moves, Keeps, EntryOK, HalfOK, WellFormed, AnnouncedOK, MarkOK, HandOK, InHand,
       Going, Settled, Listed, HasEnded

\* Events and time that only note something in the record.
LEMMA EventFacts ==
  ASSUME SubagentIInv, NEW r \in Subagents, NEW b \in BOOLEAN
  PROVE  /\ Moves(r, entry[r], [entry[r] EXCEPT !.errorTimer = b], announced[r], stranded[r])
         /\ Moves(r, entry[r], [entry[r] EXCEPT !.waits = b], announced[r], stranded[r])
         /\ Moves(r, entry[r], [entry[r] EXCEPT !.old = b], announced[r], stranded[r])
<1>1. PICK e \in Entries : e = entry[r] /\ EntryOK(r, e, announced[r], stranded[r])
  BY EntryHere
<1>2. Alike(e, [e EXCEPT !.errorTimer = b])
  BY DEF Alike, Entries
<1>3. Alike(e, [e EXCEPT !.waits = b])
  BY DEF Alike, Entries
<1>4. Alike(e, [e EXCEPT !.old = b])
  BY DEF Alike, Entries
<1> QED
  BY <1>1, <1>2, <1>3, <1>4, AlikeFacts

LEMMA MovesTwice ==
  ASSUME NEW r, NEW e, NEW f, NEW g, NEW n, NEW s, Keeps(e, f), Moves(r, f, g, n, s)
  PROVE  Moves(r, e, g, n, s)
BY DEF Moves, Keeps

LEMMA RegistryOnlyFacts ==
  ASSUME SubagentIInv, UNCHANGED <<work, session, steering, historyVars, steers, crashes>>
  PROVE  /\ work' \in [Subagents -> Works] /\ session' \in [Subagents -> BOOLEAN] /\ steering' \in [Subagents -> BOOLEAN]
         /\ announced' = announced /\ stranded' = stranded /\ revived' = revived
BY DEF SubagentIInv, historyVars

\* A step of one entry that leaves the rest of the state alone.
LEMMA RegistryStep ==
  ASSUME SubagentIInv, NEW r \in Subagents, NEW e, Becomes(r, e),
         Moves(r, entry[r], e, announced[r], stranded[r]),
         UNCHANGED <<work, session, steering, historyVars, steers, crashes>>
  PROVE  SubagentIInv'
BY RegistryOnlyFacts, OneTurns

LEMMA ErrorEventStep ==
  ASSUME SubagentIInv, NEW r \in Subagents, ErrorEvent(r) PROVE SubagentIInv'
<1> DEFINE e == [entry[r] EXCEPT !.errorTimer = Listed(entry[r])]
<1>1. PICK b \in BOOLEAN : b = Listed(entry[r])
  BY DEF Listed
<1>2. Becomes(r, e) /\ e = [entry[r] EXCEPT !.errorTimer = b]
  BY <1>1 DEF ErrorEvent
<1>3. Moves(r, entry[r], e, announced[r], stranded[r])
  BY <1>2, EventFacts
<1>4. /\ work' \in [Subagents -> Works] /\ session' \in [Subagents -> BOOLEAN] /\ steering' \in [Subagents -> BOOLEAN]
      /\ announced' = announced /\ stranded' = stranded /\ revived' = revived
  BY DEF ErrorEvent, SubagentIInv, historyVars, Works
<1> HIDE DEF e
<1> QED
  BY <1>2, <1>3, <1>4, OneTurns

LEMMA StartEventStep ==
  ASSUME SubagentIInv, NEW r \in Subagents, StartEvent(r) PROVE SubagentIInv'
<1> DEFINE e == [entry[r] EXCEPT !.errorTimer = FALSE]
<1>1. Becomes(r, e)
  BY DEF StartEvent
<1>2. Moves(r, entry[r], e, announced[r], stranded[r])
  BY EventFacts
<1>3. /\ work' \in [Subagents -> Works] /\ session' \in [Subagents -> BOOLEAN] /\ steering' \in [Subagents -> BOOLEAN]
      /\ announced' = announced /\ stranded' = stranded /\ revived' = revived
  BY DEF StartEvent, SubagentIInv, historyVars, Works
<1> HIDE DEF e
<1> QED
  BY <1>1, <1>2, <1>3, OneTurns

LEMMA EndEventStep ==
  ASSUME SubagentIInv, NEW r \in Subagents, EndEvent(r) PROVE SubagentIInv'
<1>1. Becomes(r, Completed(r, entry[r], "complete"))
  BY DEF EndEvent
<1>2. Moves(r, entry[r], Completed(r, entry[r], "complete"), announced[r], stranded[r])
  BY EntryHere, CompletedFacts
<1>3. /\ work' \in [Subagents -> Works] /\ session' \in [Subagents -> BOOLEAN] /\ steering' \in [Subagents -> BOOLEAN]
      /\ announced' = announced /\ stranded' = stranded /\ revived' = revived
  BY DEF EndEvent, SubagentIInv, historyVars, Works
<1> QED
  BY <1>1, <1>2, <1>3, OneTurns

\* No entry changes, and no agent run begins.
LEMMA EntriesStay ==
  ASSUME SubagentIInv, entry' = entry, announced' = announced, stranded' = stranded,
         revived' = revived, work' \in [Subagents -> Works],
         session' \in [Subagents -> BOOLEAN] /\ steering' \in [Subagents -> BOOLEAN]
  PROVE  SubagentIInv'
<1>1. /\ announced' \in [Subagents -> Nat] /\ stranded' \in [Subagents -> BOOLEAN]
      /\ DOMAIN entry' = Subagents
      /\ \A c \in Subagents : EntryOK(c, entry'[c], announced'[c], stranded'[c])
      /\ \A c \in Subagents :
           Listed(entry'[c]) => Listed(entry[c]) /\ (Settled(entry[c]) => Settled(entry'[c]))
      /\ \A c \in Subagents :
           announced'[c] > 0 \/ entry'[c].flow = "delivers" =>
             announced[c] > 0 \/ entry[c].flow = "delivers"
  BY DEF SubagentIInv
<1> QED
  BY <1>1, EntriesMove

LEMMA FailedForGoodStep ==
  ASSUME SubagentIInv, NEW r \in Subagents, FailedForGood(r) PROVE SubagentIInv'
<1>1. /\ work' \in [Subagents -> Works] /\ session' \in [Subagents -> BOOLEAN] /\ steering' \in [Subagents -> BOOLEAN]
      /\ announced' = announced /\ stranded' = stranded /\ revived' = revived /\ entry' = entry
  BY DEF FailedForGood, SubagentIInv, historyVars, Works
<1> QED
  BY <1>1, EntriesStay

LEMMA ErrorTimerFiresStep ==
  ASSUME SubagentIInv, NEW r \in Subagents, ErrorTimerFires(r) PROVE SubagentIInv'
<1> DEFINE e == [entry[r] EXCEPT !.errorTimer = FALSE]
           f == IF e.outcome = "complete" THEN e ELSE Completed(r, e, "other")
<1>1. Becomes(r, f) /\ UNCHANGED <<work, session, steering, historyVars, steers, crashes>>
  BY DEF ErrorTimerFires, RegistryOnly
<1>2. Moves(r, entry[r], e, announced[r], stranded[r])
  BY EventFacts
<1> HIDE DEF e
<1>3. Moves(r, entry[r], f, announced[r], stranded[r])
  BY <1>2, CompletedFacts, MovesTwice DEF Moves
<1> HIDE DEF f
<1> QED
  BY <1>1, <1>3, RegistryStep

LEMMA WaitReturnsStep ==
  ASSUME SubagentIInv, NEW r \in Subagents, WaitReturns(r) PROVE SubagentIInv'
<1> DEFINE e == [entry[r] EXCEPT !.waits = FALSE]
<1>1. PICK how \in {"complete", "other"} :
        Becomes(r, Completed(r, e, how)) /\ UNCHANGED <<work, session, steering, historyVars, steers, crashes>>
  BY DEF WaitReturns, RegistryOnly
<1>2. Moves(r, entry[r], e, announced[r], stranded[r])
  BY EventFacts
<1> HIDE DEF e
<1>3. Moves(r, entry[r], Completed(r, e, how), announced[r], stranded[r])
  BY <1>2, CompletedFacts, MovesTwice DEF Moves
<1> QED
  BY <1>1, <1>3, RegistryStep

LEMMA ExpiresStep ==
  ASSUME SubagentIInv, NEW r \in Subagents, Expires(r) PROVE SubagentIInv'
<1> DEFINE e == [entry[r] EXCEPT !.old = TRUE]
<1>1. Becomes(r, e) /\ UNCHANGED <<work, session, steering, historyVars, steers, crashes>>
  BY DEF Expires, RegistryOnly
<1>2. Moves(r, entry[r], e, announced[r], stranded[r])
  BY EventFacts
<1> HIDE DEF e
<1> QED
  BY <1>1, <1>2, RegistryStep

-----------------------------------------------------------------------------
(* Subagents: announcement and clean-up *)

\* The end of a flow, in which the run was announced if it says so.
LEMMA FlowReturnsStep ==
  ASSUME SubagentIInv, NEW r \in Subagents, NEW did \in BOOLEAN, NEW deletes \in BOOLEAN,
         FlowReturns(r, did, deletes), Going(entry[r]),
         \/ announced' = announced
         \/ did /\ announced' = [announced EXCEPT ![r] = @ + 1] /\ entry[r].flow = "delivers"
  PROVE  SubagentIInv'
<1> DEFINE p == PendingDescendants(r)
           f == Finalized(r, entry[r], did, p)
<1>1. Becomes(r, f) /\ p \in BOOLEAN
  BY DEF FlowReturns, PendingDescendants
<1>2. announced[r] = 0
  BY EntryHere DEF EntryOK, HalfOK, AnnouncedOK
<1>3. /\ announced' \in [Subagents -> Nat] /\ \A c \in Subagents \ {r} : announced'[c] = announced[c]
      /\ announced'[r] = 0 \/ (did /\ announced'[r] = 1 /\ entry[r].flow = "delivers")
  BY <1>2 DEF SubagentIInv
<1> HIDE DEF p
<1>4. Moves(r, entry[r], f, announced'[r], stranded[r])
  BY <1>1, <1>3, EntryHere, FinalizedFacts
<1>5. /\ work' \in [Subagents -> Works] /\ session' \in [Subagents -> BOOLEAN] /\ steering' \in [Subagents -> BOOLEAN]
      /\ stranded' = stranded /\ revived' = revived
  BY DEF FlowReturns, SubagentIInv
<1>6. announced'[r] > 0 \/ f.flow = "delivers" => entry[r].flow = "delivers"
  BY <1>3, <1>4 DEF Moves, Keeps
<1>7. /\ EntryOK(r, f, announced'[r], stranded[r])
      /\ Listed(f) => Listed(entry[r]) /\ (Settled(entry[r]) => Settled(f))
  BY <1>4 DEF Moves, Keeps
<1> HIDE DEF f
<1> QED
  BY <1>1, <1>3, <1>5, <1>6, <1>7, OneMoves

\* A flow goes on to its next part.
LEMMA FlowGoesOn ==
  ASSUME SubagentIInv, NEW r \in Subagents, Going(entry[r]),
         NEW w \in {"reads", "delivers"}, Becomes(r, [entry[r] EXCEPT !.flow = w]),
         w = "delivers" => ~PendingDescendants(r),
         UNCHANGED <<work, session, steering, historyVars, steers, crashes>>
  PROVE  SubagentIInv'
<1> DEFINE e == entry[r]
           f == [e EXCEPT !.flow = w]
<1>0. e \in Entries
  BY EntryHere
<1>1. f \in Entries
  BY <1>0 DEF Entries, Flows
<1>2. WellFormed(r, f) /\ AnnouncedOK(f, announced[r])
  BY <1>0, EntryHere
  DEF EntryOK, HalfOK, WellFormed, AnnouncedOK, Entries, Going, Listed, HasEnded
<1>3. MarkOK(f) /\ HandOK(r, f)
  BY <1>0 DEF MarkOK, HandOK, InHand, Entries
<1>4. Listed(f) => Listed(e) /\ (Settled(e) => Settled(f))
  BY <1>0 DEF Entries, Settled, Listed, HasEnded
<1>5. EntryOK(r, f, announced'[r], stranded[r]) /\ announced' = announced
  BY <1>1, <1>2, <1>3 DEF EntryOK, HalfOK, historyVars
<1>6. announced' \in [Subagents -> Nat]
  BY <1>5 DEF SubagentIInv
<1>7. f.flow = "delivers" => ~PendingDescendants(r)
  BY <1>0 DEF Entries
<1> HIDE DEF f
<1> QED
  BY <1>4, <1>5, <1>6, <1>7, RegistryOnlyFacts, OneMoves DEF f

LEMMA FlowChecksStep ==
  ASSUME SubagentIInv, NEW r \in Subagents, FlowChecks(r) PROVE SubagentIInv'
<1>1. Going(entry[r])
  BY DEF FlowChecks, Going
<1>2. CASE FlowReturns(r, FALSE, FALSE) /\ UNCHANGED announced
  BY <1>1, <1>2, FlowReturnsStep
<1>3. CASE /\ Becomes(r, [entry[r] EXCEPT !.flow = "reads"])
           /\ UNCHANGED <<work, session, steering, historyVars, steers, crashes>>
  BY <1>1, <1>3, FlowGoesOn
<1> QED
  BY <1>2, <1>3 DEF FlowChecks

LEMMA FlowReadsStep ==
  ASSUME SubagentIInv, NEW r \in Subagents, FlowReads(r) PROVE SubagentIInv'
<1>1. Going(entry[r])
  BY DEF FlowReads, Going
<1>2. CASE FlowReturns(r, FALSE, FALSE) /\ UNCHANGED announced
  BY <1>1, <1>2, FlowReturnsStep
<1>3. CASE (\E did \in BOOLEAN : FlowReturns(r, did, TRUE)) /\ UNCHANGED announced
  BY <1>1, <1>3, FlowReturnsStep
<1>4. CASE /\ ~PendingDescendants(r)
           /\ Becomes(r, [entry[r] EXCEPT !.flow = "delivers"])
           /\ UNCHANGED <<work, session, steering, historyVars, steers, crashes>>
  BY <1>1, <1>4, FlowGoesOn
<1> QED
  BY <1>2, <1>3, <1>4 DEF FlowReads

LEMMA FlowDeliversStep ==
  ASSUME SubagentIInv, NEW r \in Subagents, FlowDelivers(r) PROVE SubagentIInv'
<1>1. Going(entry[r]) /\ entry[r].flow = "delivers"
  BY DEF FlowDelivers, Going
<1>2. CASE announced' = [announced EXCEPT ![r] = @ + 1] /\ FlowReturns(r, TRUE, TRUE)
  BY <1>1, <1>2, FlowReturnsStep
<1>3. CASE FlowReturns(r, FALSE, TRUE) /\ UNCHANGED announced
  BY <1>1, <1>3, FlowReturnsStep
<1> QED
  BY <1>2, <1>3 DEF FlowDelivers

LEMMA EndedHookEndsStep ==
  ASSUME SubagentIInv, NEW r \in Subagents, EndedHookEnds(r) PROVE SubagentIInv'
<1> DEFINE e == entry[r]
           n == announced[r]
           s == stranded[r]
<1>0. e \in Entries /\ EntryOK(r, e, n, s)
  BY EntryHere
<1>1. PICK hooked : LET g == [e EXCEPT !.hook = FALSE, !.thenFlow = FALSE]
                        h == [g EXCEPT !.hooked = hooked /\ Listed(g)]
                    IN  Becomes(r, IF e.thenFlow THEN StartFlow(h) ELSE h)
  BY DEF EndedHookEnds
<1>2. PICK b \in BOOLEAN : b = (hooked /\ Listed([e EXCEPT !.hook = FALSE, !.thenFlow = FALSE]))
  <2>1. (hooked /\ Listed([e EXCEPT !.hook = FALSE, !.thenFlow = FALSE])) \in BOOLEAN
    OBVIOUS
  <2> QED
    BY <2>1
<1> DEFINE h == [e EXCEPT !.hook = FALSE, !.thenFlow = FALSE, !.hooked = b]
           f == IF e.thenFlow THEN StartFlow(h) ELSE h
<1>3. Becomes(r, f)
  BY <1>1, <1>2
<1>4. UNCHANGED <<work, session, steering, historyVars, steers, crashes>>
  BY DEF EndedHookEnds, RegistryOnly
<1>5. h \in Entries
  BY <1>0 DEF Entries
<1>6. WellFormed(r, h) /\ AnnouncedOK(h, n)
  BY <1>0 DEF EntryOK, HalfOK, WellFormed, AnnouncedOK, Entries, Going, Listed, HasEnded
<1>7. (~s => MarkOK(h) /\ HandOK(r, h)) /\ Keeps(e, h)
  BY <1>0 DEF EntryOK, HalfOK, MarkOK, HandOK, InHand, Keeps, Entries, Settled, Listed, HasEnded
<1>8. e.thenFlow => HasEnded(h) /\ h.suppress # "steer"
  BY <1>0 DEF EntryOK, HalfOK, WellFormed, Entries, HasEnded
<1> HIDE DEF h, e, n, s
<1>9. Moves(r, e, h, n, s) /\ HalfOK(r, h, n, s)
  BY <1>5, <1>6, <1>7 DEF Moves, EntryOK, HalfOK
<1>10. Moves(r, e, f, n, s)
  BY <1>7, <1>8, <1>9, StartFlowFacts, MovesTwice
<1> HIDE DEF f
<1> QED
  BY <1>3, <1>4, <1>10, RegistryStep DEF e, n, s

\* Several entries move at once.
LEMMA AllMove ==
  ASSUME SubagentIInv, NEW F, entry' = [c \in Subagents |-> Tidied(F[c])],
         stranded' \in [Subagents -> BOOLEAN],
         \A c \in Subagents : Moves(c, entry[c], F[c], announced[c], stranded'[c]),
         work' \in [Subagents -> Works],
         session' \in [Subagents -> BOOLEAN] /\ steering' \in [Subagents -> BOOLEAN], announced' = announced, revived' = revived
  PROVE  SubagentIInv'
<1>1. ASSUME NEW c \in Subagents
      PROVE  Moves(c, entry[c], entry'[c], announced[c], stranded'[c])
  <2>1. Moves(c, entry[c], F[c], announced[c], stranded'[c])
    OBVIOUS
  <2>2. Moves(c, F[c], Tidied(F[c]), announced[c], stranded'[c])
    BY <2>1, TidiedFacts DEF Moves
  <2>3. Moves(c, entry[c], Tidied(F[c]), announced[c], stranded'[c])
    BY <2>1, <2>2 DEF Moves, Keeps
  <2> QED
    BY <2>3
<1>2. DOMAIN entry' = Subagents /\ announced' \in [Subagents -> Nat]
  BY DEF SubagentIInv
<1>3. \A c \in Subagents : EntryOK(c, entry'[c], announced'[c], stranded'[c])
  BY <1>1 DEF Moves
<1>4. /\ \A c \in Subagents :
           Listed(entry'[c]) => Listed(entry[c]) /\ (Settled(entry[c]) => Settled(entry'[c]))
      /\ \A c \in Subagents :
           announced'[c] > 0 \/ entry'[c].flow = "delivers" =>
             announced[c] > 0 \/ entry[c].flow = "delivers"
  BY <1>1 DEF Moves, Keeps
<1> QED
  BY <1>2, <1>3, <1>4, EntriesMove

LEMMA BookkeepingStep ==
  ASSUME SubagentIInv, NEW r \in Subagents, Bookkeeping(r) PROVE SubagentIInv'
<1> DEFINE e == [entry[r] EXCEPT !.flow = "no"]
           after == IF ~Listed(e) THEN e
                    ELSE IF entry[r].flow = "announced" /\ r \in Deleting THEN Dropped(e)
                    ELSE [e EXCEPT !.done = TRUE]
<1>1. PICK early : entry' = [c \in Subagents |->
                               Tidied(IF c = r THEN after ELSE Retried(c, entry[c], c \in early))]
  BY DEF Bookkeeping
<1>2. Moves(r, entry[r], after, announced[r], stranded[r])
  <2>1. entry[r].flow \in {"announced", "givenUp"}
    BY DEF Bookkeeping
  <2>2. PICK g : g = e
    OBVIOUS
  <2>3. /\ ~Listed(g) => Moves(r, entry[r], g, announced[r], stranded[r])
        /\ Listed(g) => /\ Moves(r, entry[r], Dropped(g), announced[r], stranded[r])
                        /\ Moves(r, entry[r], [g EXCEPT !.done = TRUE], announced[r], stranded[r])
    BY <2>1, <2>2, EntryHere, BookkeptFacts
  <2> QED
    BY <2>2, <2>3
<1> HIDE DEF after
<1> DEFINE F == [c \in Subagents |-> IF c = r THEN after ELSE Retried(c, entry[c], c \in early)]
<1>3. entry' = [c \in Subagents |-> Tidied(F[c])]
  BY <1>1
<1>4. ASSUME NEW c \in Subagents PROVE Moves(c, entry[c], F[c], announced[c], stranded[c])
  BY <1>2, EntryHere, RetriedFacts
<1>5. UNCHANGED <<work, session, steering, historyVars, steers, crashes>>
  BY DEF Bookkeeping, RegistryOnly
<1>6. stranded' \in [Subagents -> BOOLEAN] /\ stranded' = stranded
  BY <1>5 DEF SubagentIInv, historyVars
<1> HIDE DEF F
<1>7. \A c \in Subagents : Moves(c, entry[c], F[c], announced[c], stranded'[c])
  BY <1>4, <1>6
<1> QED
  BY <1>3, <1>5, <1>6, <1>7, RegistryOnlyFacts, AllMove

LEMMA RetryTimerFiresStep ==
  ASSUME SubagentIInv, NEW r \in Subagents, RetryTimerFires(r) PROVE SubagentIInv'
<1>0. entry[r] \in Entries /\ EntryOK(r, entry[r], announced[r], stranded[r])
  BY EntryHere
<1>1. PICK k \in Nat : k = entry[r].retryTimers - 1
  BY <1>0 DEF RetryTimerFires, Entries
<1> DEFINE e == [entry[r] EXCEPT !.retryTimers = k]
<1>2. PICK early : Becomes(r, Resumed(r, e, early))
  BY <1>1 DEF RetryTimerFires
<1>3. UNCHANGED <<work, session, steering, historyVars, steers, crashes>> /\ entry[r].retryTimers > 0
  BY DEF RetryTimerFires, RegistryOnly
<1>4. e \in Entries
  BY <1>0 DEF Entries
<1>5. WellFormed(r, e) /\ AnnouncedOK(e, announced[r]) /\ r \in Expecting
  BY <1>0, <1>3 DEF EntryOK, HalfOK, WellFormed, AnnouncedOK, Entries, Going, Listed, HasEnded
<1>6. ~stranded[r] => MarkOK(e) /\ (e.resumed => HandOK(r, e))
  BY <1>0 DEF EntryOK, HalfOK, MarkOK, HandOK, InHand, Entries, Listed, HasEnded
<1>7. Keeps(entry[r], e)
  BY <1>0 DEF Keeps, Entries, Settled, Listed, HasEnded
<1> HIDE DEF e
<1>8. HalfOK(r, e, announced[r], stranded[r])
  BY <1>4, <1>5, <1>6 DEF HalfOK
<1>9. Moves(r, e, Resumed(r, e, early), announced[r], stranded[r])
  BY <1>5, <1>6, <1>8, ResumedFacts
<1> QED
  BY <1>2, <1>3, <1>7, <1>9, MovesTwice, RegistryStep

LEMMA BackoffTimerFiresStep ==
  ASSUME SubagentIInv, NEW r \in Subagents, BackoffTimerFires(r) PROVE SubagentIInv'
<1>0. entry[r] \in Entries /\ EntryOK(r, entry[r], announced[r], stranded[r])
  BY EntryHere
<1>1. PICK k \in Nat : k = entry[r].backoffTimers - 1
  BY <1>0 DEF BackoffTimerFires, Entries
<1> DEFINE e == [entry[r] EXCEPT !.backoffTimers = k, !.resumed = FALSE]
<1>2. PICK early : Becomes(r, Resumed(r, e, early))
  BY <1>1 DEF BackoffTimerFires
<1>3. UNCHANGED <<work, session, steering, historyVars, steers, crashes>> /\ entry[r].backoffTimers > 0
  BY DEF BackoffTimerFires, RegistryOnly
<1>4. e \in Entries /\ ~e.resumed
  BY <1>0 DEF Entries
<1>5. WellFormed(r, e) /\ AnnouncedOK(e, announced[r]) /\ r \in Expecting
  BY <1>0, <1>3 DEF EntryOK, HalfOK, WellFormed, AnnouncedOK, Entries, Going, Listed, HasEnded
<1>6. ~stranded[r] => MarkOK(e)
  BY <1>0 DEF EntryOK, HalfOK, MarkOK, Entries, Listed
<1>7. Keeps(entry[r], e)
  BY <1>0 DEF Keeps, Entries, Settled, Listed, HasEnded
<1> HIDE DEF e
<1>8. HalfOK(r, e, announced[r], stranded[r])
  BY <1>4, <1>5, <1>6 DEF HalfOK
<1>9. Moves(r, e, Resumed(r, e, early), announced[r], stranded[r])
  BY <1>4, <1>5, <1>6, <1>8, ResumedFacts
<1> QED
  BY <1>2, <1>3, <1>7, <1>9, MovesTwice, RegistryStep

LEMMA SweepStep ==
  ASSUME SubagentIInv, NEW r \in Subagents, Sweep(r) PROVE SubagentIInv'
<1>1. Becomes(r, Dropped(entry[r])) /\ entry[r].st # "new"
  BY DEF Sweep, Listed
<1>2. Moves(r, entry[r], Dropped(entry[r]), announced[r], stranded[r])
  BY <1>1, EntryHere, DroppedFacts DEF HalfOK
<1>3. /\ work' \in [Subagents -> Works] /\ session' \in [Subagents -> BOOLEAN] /\ steering' \in [Subagents -> BOOLEAN]
      /\ announced' = announced /\ stranded' = stranded /\ revived' = revived
  BY DEF Sweep, SubagentIInv, historyVars
<1> QED
  BY <1>1, <1>2, <1>3, OneTurns

-----------------------------------------------------------------------------
(* Subagents: kills, steers, a crash *)

LEMMA KillStep ==
  ASSUME SubagentIInv, NEW r \in Subagents, Kill(r) PROVE SubagentIInv'
<1> DEFINE e == entry[r]
           f == [e EXCEPT !.outcome = "other", !.handled = TRUE, !.done = TRUE,
                          !.suppress = "killed"]
<1>0. e \in Entries /\ EntryOK(r, e, announced[r], stranded[r]) /\ announced[r] \in Nat
  BY EntryHere
<1>1. Becomes(r, f) /\ UNCHANGED <<work, session, steering, historyVars, steers, crashes>>
  BY DEF Kill, historyVars
<1>2. Listed(e) /\ ~HasEnded(e) /\ e.flow = "no" /\ announced[r] = 0
  BY <1>0 DEF Kill, EntryOK, HalfOK, WellFormed, AnnouncedOK
<1>3. f \in Entries
  BY <1>0 DEF Entries
<1>4. WellFormed(r, f) /\ AnnouncedOK(f, announced[r])
  BY <1>0, <1>2 DEF EntryOK, HalfOK, WellFormed, AnnouncedOK, Entries, Going, Listed, HasEnded
<1>5. MarkOK(f) /\ HandOK(r, f) /\ Keeps(e, f)
  BY <1>0, <1>2 DEF MarkOK, HandOK, Keeps, Entries, Settled, Listed, HasEnded
<1> HIDE DEF f
<1>6. Moves(r, e, f, announced[r], stranded[r])
  BY <1>3, <1>4, <1>5 DEF Moves, EntryOK, HalfOK
<1> QED
  BY <1>1, <1>6, RegistryStep

LEMMA SteerBeginsStep ==
  ASSUME SubagentIInv, NEW r \in Subagents, SteerBegins(r) PROVE SubagentIInv'
<1> DEFINE e == entry[r]
           f == [e EXCEPT !.suppress = "steer"]
<1>0. e \in Entries /\ EntryOK(r, e, announced[r], stranded[r]) /\ announced[r] \in Nat
  BY EntryHere
<1>1. Becomes(r, f)
  BY DEF SteerBegins
<1>2. Listed(e) /\ ~HasEnded(e) /\ e.flow = "no" /\ announced[r] = 0 /\ ~e.thenFlow
  BY <1>0 DEF SteerBegins, EntryOK, HalfOK, WellFormed, AnnouncedOK
<1>3. f \in Entries
  BY <1>0 DEF Entries
<1>4. WellFormed(r, f) /\ AnnouncedOK(f, announced[r])
  BY <1>0, <1>2 DEF EntryOK, HalfOK, WellFormed, AnnouncedOK, Entries, Going, Listed, HasEnded
<1>5. (~stranded[r] => MarkOK(f)) /\ HandOK(r, f) /\ Keeps(e, f)
  BY <1>0, <1>2 DEF EntryOK, HalfOK, MarkOK, HandOK, Keeps, Entries, Settled, Listed, HasEnded
<1>6. /\ work' \in [Subagents -> Works] /\ session' \in [Subagents -> BOOLEAN] /\ steering' \in [Subagents -> BOOLEAN]
      /\ announced' = announced /\ stranded' = stranded /\ revived' = revived
  BY DEF SteerBegins, SubagentIInv, historyVars
<1> HIDE DEF f
<1>7. Moves(r, e, f, announced[r], stranded[r])
  BY <1>3, <1>4, <1>5 DEF Moves, EntryOK, HalfOK
<1> QED
  BY <1>1, <1>6, <1>7, OneTurns

LEMMA SteerFailsStep ==
  ASSUME SubagentIInv, NEW r \in Subagents, SteerFails(r) PROVE SubagentIInv'
<1> DEFINE e == entry[r]
           g == [e EXCEPT !.suppress = "no", !.resumed = FALSE]
<1>0. e \in Entries /\ EntryOK(r, e, announced[r], stranded[r])
  BY EntryHere
<1>1. /\ work' \in [Subagents -> Works] /\ session' \in [Subagents -> BOOLEAN] /\ steering' \in [Subagents -> BOOLEAN]
      /\ announced' = announced /\ stranded' = stranded /\ revived' = revived
  BY DEF SteerFails, SubagentIInv, historyVars
<1>2. CASE e.suppress # "steer"
  <2>1. entry' = entry
    BY <1>2 DEF SteerFails
  <2> QED
    BY <1>1, <2>1, EntriesStay
<1>3. CASE e.suppress = "steer"
  <2>1. PICK early : Becomes(r, IF HasEnded(g) /\ ~g.done THEN Resumed(r, g, early) ELSE g)
    BY <1>3 DEF SteerFails
  <2>2. g \in Entries /\ ~g.resumed
    BY <1>0 DEF Entries
  <2>3. WellFormed(r, g) /\ AnnouncedOK(g, announced[r]) /\ ~Going(g)
    BY <1>0, <1>3 DEF EntryOK, HalfOK, WellFormed, AnnouncedOK, Entries, Going, Listed, HasEnded
  <2>4. (~stranded[r] => MarkOK(g)) /\ Keeps(e, g)
    BY <1>0 DEF EntryOK, HalfOK, MarkOK, Keeps, Entries, Settled, Listed, HasEnded
  <2> HIDE DEF g, e
  <2>5. HalfOK(r, g, announced[r], stranded[r])
    BY <2>2, <2>3, <2>4 DEF HalfOK
  <2>6. Moves(r, g, Resumed(r, g, early), announced[r], stranded[r])
    BY <2>2, <2>3, <2>5, ResumedFacts
  <2>7. ~(HasEnded(g) /\ ~g.done) => Moves(r, g, g, announced[r], stranded[r])
    BY <2>5 DEF Moves, EntryOK, HandOK, Keeps
  <2> DEFINE f == IF HasEnded(g) /\ ~g.done THEN Resumed(r, g, early) ELSE g
  <2>8. Moves(r, e, f, announced[r], stranded[r])
    BY <2>4, <2>6, <2>7, MovesTwice
  <2>9. Becomes(r, f)
    BY <2>1
  <2> HIDE DEF f
  <2> QED
    BY <1>1, <2>8, <2>9, OneTurns DEF e
<1> QED
  BY <1>2, <1>3

LEMMA RegisteredFacts ==
  ASSUME NEW r
  PROVE  /\ Tidied(Registered) = Registered /\ Registered.flow = "no" /\ ~Settled(Registered)
         /\ EntryOK(r, Registered, 0, FALSE) /\ EntryOK(r, Registered, 0, TRUE)
<1>1. Registered \in Entries
  BY NoEntryIsOne DEF Registered, Entries
<1>2. /\ Registered.flow = "no" /\ Registered.outcome = "none" /\ ~Registered.done
      /\ ~Registered.handled /\ Registered.st = "listed" /\ Registered.suppress = "no"
      /\ Registered.retries = 0 /\ Registered.retryTimers = 0 /\ Registered.backoffTimers = 0
      /\ ~Registered.thenFlow
  BY DEF Registered, NoEntry
<1>3. WellFormed(r, Registered) /\ AnnouncedOK(Registered, 0)
  BY <1>2, SubagentAssumption DEF WellFormed, AnnouncedOK, Going, Listed, HasEnded
<1>4. MarkOK(Registered) /\ HandOK(r, Registered)
  BY <1>2 DEF MarkOK, HandOK, HasEnded
<1> QED
  BY <1>1, <1>2, <1>3, <1>4 DEF EntryOK, HalfOK, Tidied, Settled, HasEnded

\* An entry is put in the registry: no run that was announced gets another descendant,
\* unless a settled run has gone on.
LEMMA PutInRegistry ==
  ASSUME SubagentIInv, NEW r \in Subagents, Becomes(r, Registered),
         announced' \in [Subagents -> Nat], \A c \in Subagents \ {r} : announced'[c] = announced[c],
         announced'[r] = 0,
         work' \in [Subagents -> Works], \A c \in Subagents \ {r} : work'[c] = work[c],
         session' \in [Subagents -> BOOLEAN] /\ steering' \in [Subagents -> BOOLEAN], stranded' \in [Subagents -> BOOLEAN],
         \A c \in Subagents \ {r} : stranded'[c] = stranded[c],
         revived' \in BOOLEAN, ~revived' => ~revived,
         \A c \in Subagents \ {r} : ~revived' /\ ToldOrTelling(c) =>
           /\ r \notin Descendants(c)
           /\ Requester[r] \in Descendants(c) \cup {c} => Listed(entry[r])
  PROVE  SubagentIInv'
<1>1. entry'[r] = Registered /\ DOMAIN entry' = Subagents
  BY RegisteredFacts DEF Becomes, SubagentIInv
<1>2. \A c \in Subagents \ {r} : entry'[c] = entry[c]
  BY DEF Becomes, SubagentIInv
<1>3. ASSUME NEW c \in Subagents PROVE EntryOK(c, entry'[c], announced'[c], stranded'[c])
  <2>1. CASE c = r
    <3>1. stranded'[r] = TRUE \/ stranded'[r] = FALSE
      OBVIOUS
    <3> QED
      BY <1>1, <2>1, <3>1, RegisteredFacts
  <2>2. CASE c # r
    BY <1>2, <2>2 DEF SubagentIInv
  <2> QED
    BY <2>1, <2>2
<1>4. ASSUME ~revived', NEW c \in Subagents, ToldOrTelling(c)'
      PROVE  ~PendingDescendants(c)'
  <2>1. c # r
    <3>1. entry'[r].flow # "delivers"
      BY <1>1, RegisteredFacts
    <3>2. ~(announced'[r] > 0)
      OBVIOUS
    <3> QED
      BY <1>4, <3>1, <3>2 DEF ToldOrTelling
  <2>2. ToldOrTelling(c)
    BY <1>2, <1>4, <2>1 DEF ToldOrTelling
  <2>3. ~PendingDescendants(c)
    BY <1>4, <2>2 DEF SubagentIInv
  <2>4. /\ r \notin Descendants(c)
        /\ Requester[r] \in Descendants(c) \cup {c} => Listed(entry[r])
    BY <1>4, <2>1, <2>2
  <2>5. \A d \in Descendants(c) : Listed(entry'[d]) => Settled(entry'[d])
    BY <1>2, <2>3, <2>4, DescendantsAreClosed DEF PendingDescendants
  <2>6. ASSUME NEW q \in Descendants(c) \cup {c}, NEW d \in Subagents, Requester[d] = q,
               Listed(entry'[d])
        PROVE  Listed(entry[d])
    BY <1>2, <2>4, <2>6
  <2> QED
    BY <2>3, <2>5, <2>6, StaysQuiet
<1> QED
  BY <1>1, <1>3, <1>4 DEF SubagentIInv

LEMMA RegisterSubagentRunStep ==
  ASSUME SubagentIInv, NEW r \in Subagents, RegisterSubagentRun(r) PROVE SubagentIInv'
<1>1. Becomes(r, Registered) /\ ~Listed(entry[r]) /\ entry[r].st = "new"
  BY DEF RegisterSubagentRun, Listed
<1>2. announced[r] = 0
  BY <1>1, EntryHere DEF EntryOK, HalfOK, AnnouncedOK
<1>3. /\ announced' \in [Subagents -> Nat] /\ \A c \in Subagents \ {r} : announced'[c] = announced[c]
      /\ announced'[r] = 0
      /\ work' \in [Subagents -> Works] /\ \A c \in Subagents \ {r} : work'[c] = work[c]
      /\ session' \in [Subagents -> BOOLEAN] /\ steering' \in [Subagents -> BOOLEAN] /\ stranded' \in [Subagents -> BOOLEAN]
      /\ \A c \in Subagents \ {r} : stranded'[c] = stranded[c]
  BY <1>2 DEF RegisterSubagentRun, SubagentIInv, Works
<1>4. revived' \in BOOLEAN /\ (~revived' => ~revived)
  BY DEF RegisterSubagentRun, SubagentIInv
<1>5. ASSUME NEW c \in Subagents \ {r}, ~revived', ToldOrTelling(c)
      PROVE  /\ r \notin Descendants(c)
             /\ Requester[r] \notin Descendants(c) \cup {c}
  <2>1. ~PendingDescendants(c)
    BY <1>4, <1>5 DEF SubagentIInv
  <2>2. r \notin Descendants(c)
    BY <1>1, DescendantsAreClosed
  <2>3. ASSUME Requester[r] \in Descendants(c) \cup {c} PROVE FALSE
    <3>1. Requester[r] # "main" /\ Requester[r] \in Subagents
      BY <2>3, DescendantsAreClosed, SubagentAssumption
    <3>2. ~PastChecks(Requester[r])
      BY <1>5, <3>1 DEF RegisterSubagentRun
    <3>3. Requester[r] \in Descendants(c)
      BY <1>5, <2>3, <3>2 DEF PastChecks, ToldOrTelling
    <3> QED
      BY <2>1, <3>2, <3>3 DEF PendingDescendants, Settled, PastChecks
  <2> QED
    BY <2>2, <2>3
<1> QED
  BY <1>1, <1>3, <1>4, <1>5, PutInRegistry

LEMMA SteerReplacesStep ==
  ASSUME SubagentIInv, NEW r \in Subagents, SteerReplaces(r) PROVE SubagentIInv'
<1>1. Becomes(r, Registered)
  BY DEF SteerReplaces
<1>2. /\ announced' \in [Subagents -> Nat] /\ \A c \in Subagents \ {r} : announced'[c] = announced[c]
      /\ announced'[r] = 0
      /\ work' \in [Subagents -> Works] /\ \A c \in Subagents \ {r} : work'[c] = work[c]
      /\ session' \in [Subagents -> BOOLEAN] /\ steering' \in [Subagents -> BOOLEAN] /\ stranded' \in [Subagents -> BOOLEAN]
      /\ \A c \in Subagents \ {r} : stranded'[c] = stranded[c]
  BY DEF SteerReplaces, SubagentIInv, Works
<1>3. revived' \in BOOLEAN /\ (~revived' => ~revived /\ Listed(entry[r]) /\ ~entry[r].done)
  BY DEF SteerReplaces, SubagentIInv
<1>4. ASSUME NEW c \in Subagents \ {r}, ~revived', ToldOrTelling(c)
      PROVE  r \notin Descendants(c) /\ Listed(entry[r])
  <2>1. ~PendingDescendants(c)
    BY <1>3, <1>4 DEF SubagentIInv
  <2> QED
    BY <1>3, <1>4, <2>1 DEF PendingDescendants, Settled
<1> QED
  BY <1>1, <1>2, <1>3, <1>4, PutInRegistry

LEMMA CrashAndRestoreStep ==
  ASSUME SubagentIInv, CrashAndRestore PROVE SubagentIInv'
<1>1. PICK early :
        entry' = [c \in Subagents |-> Tidied(Resumed(c, Persisted(entry[c]), c \in early))]
  BY DEF CrashAndRestore
<1> DEFINE F == [c \in Subagents |-> Resumed(c, Persisted(entry[c]), c \in early)]
<1>2. entry' = [c \in Subagents |-> Tidied(F[c])]
  BY <1>1
<1>3. stranded' = [c \in Subagents |-> stranded[c] \/ (entry[c].handled /\ ~entry[c].done)
                                         \/ entry[c].suppress = "steer"]
  BY DEF CrashAndRestore
<1>4. stranded' \in [Subagents -> BOOLEAN]
  BY <1>3
<1>5. ASSUME NEW c \in Subagents PROVE Moves(c, entry[c], F[c], announced[c], stranded'[c])
  <2> DEFINE z == stranded[c] \/ (entry[c].handled /\ ~entry[c].done) \/ entry[c].suppress = "steer"
             p == Persisted(entry[c])
  <2>1. HalfOK(c, p, announced[c], z) /\ Keeps(entry[c], p) /\ ~Going(p) /\ (p.resumed => HandOK(c, p))
    BY EntryHere, PersistedFacts
  <2> HIDE DEF p
  <2>2. stranded'[c] = z
    BY <1>3
  <2> HIDE DEF z
  <2>3. Moves(c, p, Resumed(c, p, c \in early), announced[c], z)
    BY <2>1, ResumedFacts
  <2> QED
    BY <2>1, <2>2, <2>3, MovesTwice DEF p
<1>6. /\ work' \in [Subagents -> Works] /\ session' \in [Subagents -> BOOLEAN] /\ steering' \in [Subagents -> BOOLEAN]
      /\ announced' = announced /\ revived' = revived
  BY DEF CrashAndRestore, SubagentIInv, Works
<1> HIDE DEF F
<1> QED
  BY <1>2, <1>4, <1>5, <1>6, AllMove

-----------------------------------------------------------------------------
(* Subagents: the properties *)

LEMMA SubagentInitInv == SubagentInit => SubagentIInv
<1> SUFFICES ASSUME SubagentInit PROVE SubagentIInv
  OBVIOUS
<1>1. ASSUME NEW r \in Subagents PROVE EntryOK(r, NoEntry, 0, FALSE) /\ ~ToldOrTelling(r)
  <2>1. /\ NoEntry.flow = "no" /\ NoEntry.st = "new" /\ NoEntry.suppress = "no" /\ ~NoEntry.done
        /\ NoEntry.retryTimers = 0 /\ NoEntry.backoffTimers = 0 /\ ~NoEntry.thenFlow
    BY DEF NoEntry
  <2>2. WellFormed(r, NoEntry) /\ AnnouncedOK(NoEntry, 0) /\ MarkOK(NoEntry) /\ HandOK(r, NoEntry)
    BY <2>1 DEF WellFormed, AnnouncedOK, MarkOK, HandOK, Going, Listed
  <2>3. entry[r] = NoEntry /\ announced[r] = 0
    BY DEF SubagentInit
  <2> QED
    BY <2>1, <2>2, <2>3, NoEntryIsOne DEF EntryOK, HalfOK, ToldOrTelling
<1>2. /\ announced \in [Subagents -> Nat] /\ work \in [Subagents -> Works]
      /\ session \in [Subagents -> BOOLEAN] /\ steering \in [Subagents -> BOOLEAN]
      /\ stranded \in [Subagents -> BOOLEAN]
      /\ revived \in BOOLEAN /\ DOMAIN entry = Subagents
  BY DEF SubagentInit, Works
<1>3. \A r \in Subagents : EntryOK(r, entry[r], announced[r], stranded[r])
  BY <1>1 DEF SubagentInit
<1> QED
  BY <1>1, <1>2, <1>3 DEF SubagentIInv

LEMMA SubagentNextInv == SubagentIInv /\ [SubagentNext]_subagentVars => SubagentIInv'
<1> SUFFICES ASSUME SubagentIInv, [SubagentNext]_subagentVars PROVE SubagentIInv'
  OBVIOUS
<1>1. CASE UNCHANGED subagentVars
  <2>1. /\ entry' = entry /\ UNCHANGED <<work, session, steering, historyVars, steers, crashes>>
    BY <1>1 DEF subagentVars
  <2> QED
    BY <2>1, RegistryOnlyFacts, EntriesStay
<1>2. CASE CrashAndRestore
  BY <1>2, CrashAndRestoreStep
<1>3. ASSUME NEW r \in Subagents,
             \/ RegisterSubagentRun(r) \/ ErrorEvent(r) \/ StartEvent(r) \/ EndEvent(r)
             \/ FailedForGood(r) \/ WaitReturns(r) \/ FlowStep(r) \/ TimerStep(r) \/ Expires(r)
             \/ Sweep(r) \/ Kill(r) \/ SteerBegins(r) \/ SteerFails(r) \/ SteerReplaces(r)
      PROVE  SubagentIInv'
  BY <1>3, RegisterSubagentRunStep, ErrorEventStep, StartEventStep, EndEventStep,
     FailedForGoodStep, WaitReturnsStep, FlowChecksStep, FlowReadsStep, FlowDeliversStep,
     EndedHookEndsStep, BookkeepingStep, RetryTimerFiresStep, BackoffTimerFiresStep, ErrorTimerFiresStep,
     ExpiresStep, SweepStep, KillStep, SteerBeginsStep, SteerFailsStep, SteerReplacesStep
  DEF FlowStep, TimerStep
<1> QED
  BY <1>1, <1>2, <1>3 DEF SubagentNext

LEMMA SubagentsStayOK == SubagentSpec => []SubagentIInv
<1> QED
  BY SubagentInitInv, SubagentNextInv, PTL DEF SubagentSpec

LEMMA SubagentIInvImplies == SubagentIInv => SubagentInv
<1> SUFFICES ASSUME SubagentIInv PROVE SubagentInv
  OBVIOUS
<1>1. SubagentTypeOK
  <2>1. ASSUME NEW r \in Subagents
        PROVE  /\ entry[r].st \in {"new", "listed", "gone"}
               /\ entry[r].outcome \in {"none", "complete", "other"}
               /\ entry[r].retries \in 0..MaxRetries
               /\ entry[r].tried \in {"no", "lately", "waited"}
               /\ entry[r].flow \in {"no", "checks", "reads", "delivers", "announced", "givenUp"}
               /\ Listed(entry[r]) /\ entry[r].flow # "no" => entry[r].handled
               /\ Listed(entry[r]) /\ entry[r].flow \in {"checks", "reads", "delivers"} =>
                    ~entry[r].done
               /\ work[r] \in {"new", "queued", "runs", "failing", "again", "over"}
    <3>1. entry[r] \in Entries /\ WellFormed(r, entry[r]) /\ work[r] \in Works
      BY EntryHere DEF HalfOK, SubagentIInv
    <3> QED
      BY <3>1 DEF Entries, Flows, WellFormed, Going, Works
  <2> QED
    BY <2>1 DEF SubagentTypeOK, SubagentIInv
<1>2. AnnouncedOnce
  <2> SUFFICES ASSUME NEW r \in Subagents PROVE announced[r] <= 1
    BY DEF AnnouncedOnce
  <2> QED
    BY EntryHere DEF HalfOK, AnnouncedOK
<1>3. QuietIfStopped
  <2> SUFFICES ASSUME NEW r \in Subagents
               PROVE  /\ entry[r].suppress = "killed" => announced[r] = 0 /\ entry[r].flow = "no"
                      /\ entry[r].suppress = "steer" => entry[r].flow = "no"
    BY DEF QuietIfStopped
  <2>1. AnnouncedOK(entry[r], announced[r]) /\ WellFormed(r, entry[r]) /\ announced[r] \in Nat
    BY EntryHere DEF HalfOK
  <2> QED
    BY <2>1 DEF AnnouncedOK, WellFormed
<1>4. DescendantsFirst
  BY DEF DescendantsFirst, SubagentIInv, ToldOrTelling
<1>5. EndedIsInHand
  <2> SUFFICES ASSUME NEW r \in Expecting, Listed(entry[r]), HasEnded(entry[r]), ~entry[r].done,
                      entry[r].suppress # "steer", ~stranded[r]
               PROVE  ~Idle(entry[r])
    BY DEF EndedIsInHand
  <2>1. InHand(entry[r]) /\ entry[r] \in Entries
    BY EntryHere, SubagentAssumption DEF EntryOK, HandOK
  <2> QED
    BY <2>1 DEF InHand, Idle, Entries
<1> QED
  BY <1>1, <1>2, <1>3, <1>4, <1>5 DEF SubagentInv

\* A run is announced when its descendants are settled and at most once, not while it is
\* stopped, and until then it is in somebody's hands (agents/subagent-registry.ts).
THEOREM SubagentsAreSound == SubagentSpec => []SubagentInv
<1> QED
  BY SubagentsStayOK, SubagentIInvImplies, PTL
=============================================================================
