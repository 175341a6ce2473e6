---------------------------- MODULE NodeRegistry ----------------------------
(***************************************************************************)
(* The connections of a node to the gateway and the commands invoked over  *)
(* them (Openclaw-Docker/src/gateway/node-registry.ts, the node.invoke     *)
(* handlers and the close handler of server/ws-connection.ts).             *)
(*                                                                         *)
(* One node, whose connections are numbered as they are made.  A peer may  *)
(* be gone before the gateway handles the close of its socket, and a node  *)
(* connects again whenever it likes; what is sent to a peer that is gone   *)
(* is lost.  Waking a node and polling until it is back is one wait.       *)
(***************************************************************************)
EXTENDS Naturals

CONSTANTS
  Invokes,         \* the calls of node.invoke
  MaxConns         \* bound: connections the node makes

ASSUME NodeAssumption == MaxConns \in Nat

VARIABLES
  nodeConn,        \* connection -> what became of it
  nodeSession,     \* nodesById: the connection of the registered session, 0 if none
  invoke,          \* call -> where it is
  sentOver,        \* call -> the connection its request was sent over, 0 if none
  atNode,          \* the calls whose request the node has
  unseated         \* an earlier connection was closed since the last register (history)

nodeVars == <<nodeConn, nodeSession, invoke, sentOver, atNode, unseated>>

Connections == 1..MaxConns
CallSettled == {"new", "answered", "timed out", "disconnected", "refused"}

NodeInit ==
  /\ nodeConn = [c \in Connections |-> "new"]
  /\ nodeSession = 0
  /\ invoke = [i \in Invokes |-> "new"]
  /\ sentOver = [i \in Invokes |-> 0]
  /\ atNode = {}
  /\ unseated = FALSE

IsNext(c) == nodeConn[c] = "new" /\ \A d \in Connections : d < c => nodeConn[d] # "new"

-----------------------------------------------------------------------------
(* Connections *)

\* The calls in S are over.
SettleCalls(S, how) ==
  /\ invoke' = [i \in Invokes |-> IF i \in S THEN how ELSE invoke[i]]
  /\ sentOver' = [i \in Invokes |-> IF i \in S THEN 0 ELSE sentOver[i]]

PendingCalls == {i \in Invokes : invoke[i] = "pending"}

\* Mutant: the session that is there stays.
RegisterFirst(c) ==
  /\ IsNext(c)
  /\ nodeConn' = [nodeConn EXCEPT ![c] = "live"]
  /\ nodeSession' = IF nodeSession # 0 THEN nodeSession ELSE c
  /\ unseated' = FALSE
  /\ UNCHANGED <<invoke, sentOver, atNode>>

\* Mutant: calls sent over an earlier connection are given up.
RegisterRejecting(c) ==
  /\ IsNext(c)
  /\ nodeConn' = [nodeConn EXCEPT ![c] = "live"]
  /\ nodeSession' = c
  /\ unseated' = FALSE
  /\ SettleCalls(PendingCalls, "disconnected")
  /\ UNCHANGED atNode

RegisterNode(c) ==
  /\ IsNext(c)
  /\ nodeConn' = [nodeConn EXCEPT ![c] = "live"]
  /\ nodeSession' = c
  /\ unseated' = FALSE
  /\ UNCHANGED <<invoke, sentOver, atNode>>

\* The peer goes; it may come back with the requests it has, or without.
PeerGone(c) ==
  /\ nodeConn[c] = "live"
  /\ nodeConn' = [nodeConn EXCEPT ![c] = "gone"]
  /\ atNode' \in {atNode, {}}
  /\ UNCHANGED <<nodeSession, invoke, sentOver, unseated>>

\* Mutant: the calls of the node go on waiting.
UnregisterOnly(c) ==
  /\ nodeConn[c] \in {"live", "gone"}
  /\ nodeConn' = [nodeConn EXCEPT ![c] = "closed"]
  /\ nodeSession' = 0
  /\ unseated' = (unseated \/ c # nodeSession)
  /\ UNCHANGED <<invoke, sentOver, atNode>>

\* The close of any connection removes the session of the node and rejects its calls.
Unregister(c) ==
  /\ nodeConn[c] \in {"live", "gone"}
  /\ nodeConn' = [nodeConn EXCEPT ![c] = "closed"]
  /\ nodeSession' = 0
  /\ unseated' = (unseated \/ c # nodeSession)
  /\ SettleCalls(PendingCalls, "disconnected")
  /\ UNCHANGED atNode

-----------------------------------------------------------------------------
(* Calls *)

\* Mutant: a call without a session waits for its answer.
SendUnchecked(i) ==
  /\ invoke' = [invoke EXCEPT ![i] = "pending"]
  /\ sentOver' = [sentOver EXCEPT ![i] = nodeSession]
  /\ UNCHANGED atNode

\* The request is sent to the session that is registered now, or cannot be.
Send(i) ==
  \/ /\ nodeSession # 0
     /\ invoke' = [invoke EXCEPT ![i] = "pending"]
     /\ sentOver' = [sentOver EXCEPT ![i] = nodeSession]
     /\ atNode' = IF nodeConn[nodeSession] = "live" THEN atNode \cup {i} ELSE atNode
  \/ /\ invoke' = [invoke EXCEPT ![i] = "refused"]
     /\ UNCHANGED <<sentOver, atNode>>

Invoke(i) ==
  /\ invoke[i] = "new"
  /\ \/ nodeSession # 0 /\ Send(i)
     \/ /\ nodeSession = 0
        /\ \E where \in {"waking", "refused"} : invoke' = [invoke EXCEPT ![i] = where]
        /\ UNCHANGED <<sentOver, atNode>>
  /\ UNCHANGED <<nodeConn, nodeSession, unseated>>

\* waitForNodeReconnect has found the node, or its time is over.
WakeEnds(i) ==
  /\ invoke[i] = "waking"
  /\ Send(i)
  /\ UNCHANGED <<nodeConn, nodeSession, unseated>>

\* A result may come over another connection than the request went.
Result(i, c) ==
  /\ i \in atNode /\ nodeConn[c] = "live"
  /\ atNode' = atNode \ {i}
  /\ IF invoke[i] = "pending"
     THEN SettleCalls({i}, "answered")
     ELSE UNCHANGED <<invoke, sentOver>>
  /\ UNCHANGED <<nodeConn, nodeSession, unseated>>

\* Mutant: the timer of a call is cleared when the peer is gone.
InvokeTimeoutIfLive(i) ==
  /\ invoke[i] = "pending" /\ nodeConn[sentOver[i]] = "live"
  /\ SettleCalls({i}, "timed out")
  /\ UNCHANGED <<nodeConn, nodeSession, atNode, unseated>>

InvokeTimeout(i) ==
  /\ invoke[i] = "pending"
  /\ SettleCalls({i}, "timed out")
  /\ UNCHANGED <<nodeConn, nodeSession, atNode, unseated>>

-----------------------------------------------------------------------------
NodeNext ==
  \/ \E c \in Connections : RegisterNode(c) \/ PeerGone(c) \/ Unregister(c)
  \/ \E i \in Invokes :
       \/ Invoke(i) \/ WakeEnds(i) \/ InvokeTimeout(i)
       \/ \E c \in Connections : Result(i, c)

NodeSpec == NodeInit /\ [][NodeNext]_nodeVars

\* Timers fire and polls end.
NodeFairness == \A i \in Invokes : WF_nodeVars(WakeEnds(i) \/ InvokeTimeout(i))

-----------------------------------------------------------------------------
(* Properties *)

\* The shapes of the state.
NodeTypeOK ==
  /\ nodeConn \in [Connections -> {"new", "live", "gone", "closed"}]
  /\ nodeSession \in Connections \cup {0}
  /\ invoke \in [Invokes -> CallSettled \cup {"waking", "pending"}]
  /\ \A i \in Invokes : sentOver[i] \in Connections <=> invoke[i] = "pending"
  /\ atNode \subseteq Invokes
  /\ unseated \in BOOLEAN

Newest(c) == nodeConn[c] # "new" /\ \A d \in Connections : d > c => nodeConn[d] = "new"

\* A node whose newest connection is live is registered with it, unless an earlier one
\* was closed after that one registered (node-registry.ts:87 removes the new session).
LiveNodeIsRegistered ==
  \A c \in Connections :
    nodeConn[c] = "live" /\ Newest(c) => nodeSession = c \/ unseated

\* No call waits for an answer to a request whose connection is closed.
NoCallOutlivesConnection ==
  \A i \in PendingCalls : nodeConn[sentOver[i]] # "closed"

\* A call sent over the newest connection is told that its node has disconnected only
\* when that connection is closed, unless the close of an earlier one says so too.
RejectedWithConnection ==
  [][\A i \in PendingCalls : Newest(sentOver[i]) /\ invoke'[i] = "disconnected" =>
       nodeConn'[sentOver[i]] = "closed" \/ unseated']_nodeVars

\* Every call settles: by its result, by its timer or by the loss of the connection.
InvokesSettle == \A i \in Invokes : invoke[i] \in {"waking", "pending"} ~> invoke[i] \in CallSettled

\* The registry and the pending calls agree with the connections that are open.
NodeInv == NodeTypeOK /\ LiveNodeIsRegistered /\ NoCallOutlivesConnection

\* Every call settles, and with a disconnection only when there was one.
CallsSettle == RejectedWithConnection /\ InvokesSettle
=============================================================================
