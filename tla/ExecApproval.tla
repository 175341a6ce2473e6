---------------------------- MODULE ExecApproval ----------------------------
(***************************************************************************)
(* Approvals of commands (Openclaw-Docker/src/gateway/                     *)
(* exec-approval-manager.ts, server-methods/exec-approval.ts,              *)
(* node-invoke-system-run-approval.ts), and the client that asks in two    *)
(* phases (agents/bash-tools.exec-approval-request.ts): it waits until     *)
(* the request is registered, then asks for the decision, and shows the    *)
(* approval when it runs the command.                                      *)
(*                                                                         *)
(* A request brings its id; a request made again brings the same one.  The *)
(* entry and the promise of an approval are named after its request.  A    *)
(* command that is shown matches the one approved.                         *)
(***************************************************************************)
EXTENDS Naturals

CONSTANTS
  Requests,        \* the calls of exec.approval.request
  ApprovalId,      \* request -> the id it brings
  Decisions        \* of "allow-once", "allow-always" and "deny", those operators take

ASSUME ApprovalAssumption ==
  /\ Decisions \subseteq {"allow-once", "allow-always", "deny"}
  /\ "none" \notin Requests

VARIABLES
  approval,        \* pending: id -> the request whose entry it has, or NoRequest
  record,          \* request -> the decision in its record
  promise,         \* request -> the value of its promise
  expired,         \* requests whose time is over
  handler,         \* request -> where its handler is
  client,          \* request -> where its client is
  asked,           \* request -> the request whose promise the client awaits
  told,            \* request -> the decision the client was told
  uses             \* request -> runs allowed by its approval for one run (history)

approvalVars == <<approval, record, promise, expired, handler, client, asked, told, uses>>

NoRequest == "none"
Ids == {ApprovalId[r] : r \in Requests}
EntryAt(r) == approval[ApprovalId[r]]

ApprovalInit ==
  /\ approval = [id \in Ids |-> NoRequest]
  /\ record = [r \in Requests |-> "open"]
  /\ promise = [r \in Requests |-> "open"]
  /\ expired = {}
  /\ handler = [r \in Requests |-> "new"]
  /\ client = [r \in Requests |-> "idle"]
  /\ asked = [r \in Requests |-> NoRequest]
  /\ told = [r \in Requests |-> "nothing"]
  /\ uses = [r \in Requests |-> 0]

-----------------------------------------------------------------------------
(* The manager *)

\* Mutant: an entry that was decided is decided again.
DecideAgain(e, how, value) ==
  /\ record' = [record EXCEPT ![e] = how]
  /\ promise' = [promise EXCEPT ![e] = value]

\* Mutant: those who wait are not told.
DecideUnsettled(e, how, value) ==
  /\ record' = [record EXCEPT ![e] = how]
  /\ UNCHANGED promise

\* resolve, expire: the first of them counts.
Decide(e, how, value) ==
  IF record[e] = "open"
  THEN /\ record' = [record EXCEPT ![e] = how]
       /\ promise' = [promise EXCEPT ![e] = value]
  ELSE UNCHANGED <<record, promise>>

ExpireById(id, how) ==
  IF approval[id] # NoRequest
  THEN Decide(approval[id], how, "no decision")
  ELSE UNCHANGED <<record, promise>>

\* exec.approval.resolve
Resolve(id, d) ==
  /\ approval[id] # NoRequest
  /\ Decide(approval[id], d, d)
  /\ UNCHANGED <<approval, expired, handler, client, asked, told, uses>>

TimeIsOver(r) ==
  /\ handler[r] \notin {"new", "refused"} /\ r \notin expired
  /\ expired' = expired \cup {r}
  /\ UNCHANGED <<approval, record, promise, handler, client, asked, told, uses>>

\* The timer of r, which a decision clears, expires what is at its id.
TimerExpires(r) ==
  /\ r \in expired /\ record[r] = "open" /\ promise[r] = "open"
  /\ ExpireById(ApprovalId[r], "timed out")
  /\ UNCHANGED <<approval, expired, handler, client, asked, told, uses>>

GraceEnds(r) ==
  /\ EntryAt(r) = r /\ promise[r] # "open"
  /\ approval' = [approval EXCEPT ![ApprovalId[r]] = NoRequest]
  /\ UNCHANGED <<record, promise, expired, handler, client, asked, told, uses>>

-----------------------------------------------------------------------------
(* The handler of a request *)

\* Mutant: the entry at the id is replaced.
RequestReplacing(r) ==
  /\ handler[r] = "new"
  /\ approval' = [approval EXCEPT ![ApprovalId[r]] = r]
  /\ handler' = [handler EXCEPT ![r] = "forwarding"]
  /\ UNCHANGED <<record, promise, expired, client, asked, told, uses>>

Request(r) ==
  /\ handler[r] = "new"
  /\ \/ /\ EntryAt(r) # NoRequest
        /\ handler' = [handler EXCEPT ![r] = "refused"]
        /\ UNCHANGED approval
     \/ /\ EntryAt(r) = NoRequest
        /\ approval' = [approval EXCEPT ![ApprovalId[r]] = r]
        /\ handler' = [handler EXCEPT ![r] = "forwarding"]
  /\ UNCHANGED <<record, promise, expired, client, asked, told, uses>>

\* The request has been forwarded, or not; without anybody to decide it is expired by
\* its id.  The client hears that the request is registered.
Forwarded(r) ==
  /\ handler[r] = "forwarding"
  /\ handler' = [handler EXCEPT ![r] = "waiting"]
  /\ client' = [client EXCEPT ![r] = "accepted"]
  /\ \/ UNCHANGED <<record, promise>>
     \/ ExpireById(ApprovalId[r], "no approver")
  /\ UNCHANGED <<approval, expired, asked, told, uses>>

\* Mutant: the handler waits for an operator.
RespondsToDecision(r) ==
  /\ handler[r] = "waiting" /\ promise[r] \in Decisions
  /\ handler' = [handler EXCEPT ![r] = "responded"]
  /\ UNCHANGED <<approval, record, promise, expired, client, asked, told, uses>>

Responds(r) ==
  /\ handler[r] = "waiting" /\ promise[r] # "open"
  /\ handler' = [handler EXCEPT ![r] = "responded"]
  /\ UNCHANGED <<approval, record, promise, expired, client, asked, told, uses>>

-----------------------------------------------------------------------------
(* The client *)

\* exec.approval.waitDecision: an id that is not there any more counts as no decision.
WaitDecision(r) ==
  /\ client[r] = "accepted"
  /\ \/ /\ EntryAt(r) # NoRequest
        /\ asked' = [asked EXCEPT ![r] = EntryAt(r)]
        /\ client' = [client EXCEPT ![r] = "waiting"]
        /\ UNCHANGED told
     \/ /\ EntryAt(r) = NoRequest
        /\ told' = [told EXCEPT ![r] = "not found"]
        /\ client' = [client EXCEPT ![r] = "told"]
        /\ UNCHANGED asked
  /\ UNCHANGED <<approval, record, promise, expired, handler, uses>>

\* Mutant: the entry is looked up again after the wait.
WaitEndsLookingUp(r) ==
  /\ client[r] = "waiting" /\ promise[asked[r]] # "open"
  /\ told' = [told EXCEPT ![r] =
       IF EntryAt(r) = asked[r] THEN promise[asked[r]] ELSE "no decision"]
  /\ client' = [client EXCEPT ![r] = "told"]
  /\ UNCHANGED <<approval, record, promise, expired, handler, asked, uses>>

WaitEnds(r) ==
  /\ client[r] = "waiting" /\ promise[asked[r]] # "open"
  /\ told' = [told EXCEPT ![r] = promise[asked[r]]]
  /\ client' = [client EXCEPT ![r] = "told"]
  /\ UNCHANGED <<approval, record, promise, expired, handler, asked, uses>>

\* Mutant: an approval for one run stays in the record.
RunCommandKeepingApproval(r) ==
  LET e == EntryAt(r) IN
  /\ client[r] = "told"
  /\ e # NoRequest
  /\ e \notin expired /\ record[e] = "allow-once" /\ uses[e] < 2
  /\ uses' = [uses EXCEPT ![e] = @ + 1]
  /\ UNCHANGED <<approval, record, promise, expired, handler, client, asked, told>>

\* sanitizeSystemRunParamsForForwarding: the approval for one run is consumed.  Whatever
\* else is allowed or refused leaves no trace.
RunCommand(r) ==
  LET e == EntryAt(r) IN
  /\ client[r] = "told"
  /\ e # NoRequest
  /\ e \notin expired /\ record[e] = "allow-once"
  /\ uses' = [uses EXCEPT ![e] = @ + 1]
  /\ record' = [record EXCEPT ![e] = "used"]
  /\ UNCHANGED <<approval, promise, expired, handler, client, asked, told>>

-----------------------------------------------------------------------------
ApprovalNext ==
  \/ \E r \in Requests :
       \/ Request(r) \/ Forwarded(r) \/ Responds(r) \/ WaitDecision(r) \/ WaitEnds(r) \/ RunCommand(r)
       \/ TimeIsOver(r) \/ TimerExpires(r) \/ GraceEnds(r)
  \/ \E id \in Ids, d \in Decisions : Resolve(id, d)

ApprovalSpec == ApprovalInit /\ [][ApprovalNext]_approvalVars

\* Time passes, timers fire, promises settle and forwarding ends; operators may do nothing.
ApprovalFairness ==
  \A r \in Requests :
    WF_approvalVars(TimeIsOver(r) \/ TimerExpires(r) \/ Forwarded(r) \/ Responds(r)
                    \/ WaitDecision(r) \/ WaitEnds(r))

-----------------------------------------------------------------------------
(* Properties *)

Values == Decisions \cup {"open", "no decision"}
\* The shapes of the state.
ApprovalTypeOK ==
  /\ approval \in [Ids -> Requests \cup {NoRequest}]
  /\ record \in [Requests -> Decisions \cup {"open", "timed out", "no approver", "used"}]
  /\ promise \in [Requests -> Values]
  /\ \A r \in Requests : record[r] = "open" <=> promise[r] = "open"
  /\ expired \subseteq Requests
  /\ handler \in [Requests -> {"new", "refused", "forwarding", "waiting", "responded"}]
  /\ client \in [Requests -> {"idle", "accepted", "waiting", "told"}]
  /\ asked \in [Requests -> Requests \cup {NoRequest}]
  /\ told \in [Requests -> Values \cup {"nothing", "not found"}]
  /\ uses \in [Requests -> 0..2]

\* A decision counts once: neither the timer, a second operator nor the expiry of a
\* request nobody can decide changes it (exec-approval-manager.ts:105).
FirstDecisionCounts ==
  [][\A r \in Requests : promise[r] # "open" => promise'[r] = promise[r]]_approvalVars

\* What waits for a decision can be decided: an open request stays at its id.
OpenRequestIsKept ==
  \A r \in Requests : handler[r] \in {"forwarding", "waiting"} /\ promise[r] = "open" => EntryAt(r) = r

\* A client that asked in time is told what was decided on its request, also when the
\* entry goes while it waits; one with the same id may be told what came after it.
ToldWhatWasDecided ==
  \A r \in Requests : told[r] \notin {"nothing", "not found"} =>
    \/ told[r] = promise[r]
    \/ \E q \in Requests \ {r} : ApprovalId[q] = ApprovalId[r] /\ told[r] = promise[q]

\* An approval for one run allows one run during the time its entry is kept.
AllowedOnce == \A r \in Requests : uses[r] <= 1

\* A request that was registered is answered, and a client that asked is told.
ApprovalsSettle ==
  \A r \in Requests : handler[r] = "forwarding" ~> handler[r] = "responded" /\ client[r] = "told"

\* A request stays known until it is decided, its callers are told what was decided, and
\* an approval for one use is used once.
ApprovalInv == ApprovalTypeOK /\ OpenRequestIsKept /\ ToldWhatWasDecided /\ AllowedOnce

\* The first decision stands, and every request ends with a client that knows it.
DecisionsStand == FirstDecisionCounts /\ ApprovalsSettle
=============================================================================
