---------------------------- MODULE AcpSessions ----------------------------
(***************************************************************************)
(* The sessions of the agent client protocol: src/acp/control-plane/       *)
(* manager.core.ts, session-actor-queue.ts, runtime-cache.ts, with         *)
(* src/plugin-sdk/keyed-async-queue.ts.                                    *)
(*                                                                         *)
(* Every operation on a session runs in the session's actor, a chain of    *)
(* promises by key; the operations of different sessions interleave at     *)
(* each await.  A call first evicts the runtimes that have been idle for   *)
(* too long, each in the actor of its session, and then queues its own     *)
(* operation; a cancel that finds a turn going on aborts it from outside   *)
(* the actor.  An operation is a script of awaited steps.  The backend is  *)
(* external: its calls succeed or fail.                                    *)
(***************************************************************************)
EXTENDS Naturals, Sequences, FiniteSets

CONSTANTS
  AcpSessionKeys,  \* the sessions
  AcpCalls,        \* calls of the manager, each made once
  AcpKinds,        \* [AcpCalls -> SUBSET of the kinds of operations it may be]
  AcpTarget,       \* [AcpCalls -> AcpSessionKeys]
  Oneshot,         \* sessions whose runtime is closed after a turn
  MaxSessions      \* maxConcurrentSessions

NoCall == "none"

Kinds == {"turn", "cancel", "close", "reset", "option", "update", "status", "init", "evict"}

\* A session is initialized once: its key has a random part (acp-spawn.ts:288, and
\* commands-acp/lifecycle.ts:272).
ASSUME AcpAssumption ==
  /\ NoCall \notin AcpCalls /\ IsFiniteSet(AcpSessionKeys)
  /\ AcpKinds \in [AcpCalls -> SUBSET (Kinds \ {"evict"})]
  /\ AcpTarget \in [AcpCalls -> AcpSessionKeys] /\ Oneshot \subseteq AcpSessionKeys
  /\ \A c, d \in AcpCalls :
       "init" \in AcpKinds[c] \cap AcpKinds[d] /\ AcpTarget[c] = AcpTarget[d] => c = d
  /\ MaxSessions \in Nat \ {0}

\* What each operation awaits, in its order.
Script(kind) ==
  CASE kind = "turn"   -> <<"ensure", "controls", "mark_running", "stream", "mark_over", "finish">>
    [] kind = "cancel" -> <<"ensure", "cancel", "mark_over">>
    [] kind = "close"  -> <<"ensure", "close", "clear_meta">>
    [] kind = "reset"  -> <<"ensure", "close", "persist">>
    [] kind = "option" -> <<"ensure", "ask", "persist">>
    [] kind = "update" -> <<"persist">>
    [] kind = "status" -> <<"ensure", "ask", "finish">>
    [] kind = "init"   -> <<"create", "write_meta">>
    [] kind = "evict"  -> <<"evict">>

VARIABLES
  call,         \* calls and the operation each has in an actor
  tail,         \* the last operation in the chain of a session
  cached,       \* the runtime cache: "none", "fresh" or "idle" for longer than the limit
  open,         \* sessions whose runtime is open at the backend
  meta,         \* the persisted state of a session
  activeTurn,   \* activeTurnBySession
  aborted,      \* turns whose signal was given
  overlapped,   \* history: two runtimes were being created at the same time
  misstated     \* history: sessions left at "running" because a state could not be written

acpVars == <<call, tail, cached, open, meta, activeTurn, aborted, overlapped, misstated>>

\* todo: idle runtimes still to be evicted; stale: those of them not used since.
NewCall == [at |-> "new", kind |-> "none", todo |-> {}, stale |-> {}, op |-> "none", of |-> "none",
            on |-> "none", after |-> NoCall, step |-> 0, ok |-> TRUE]

AcpInit ==
  /\ call = [c \in AcpCalls |-> NewCall]
  /\ tail = [s \in AcpSessionKeys |-> NoCall]
  /\ cached \in [AcpSessionKeys -> {"none", "idle"}]
  /\ open = {s \in AcpSessionKeys : cached[s] # "none"} /\ Cardinality(open) <= MaxSessions
  /\ meta \in [AcpSessionKeys -> {"none", "idle"}]
  /\ \A s \in open : meta[s] = "idle"
  /\ \A c \in AcpCalls : "init" \in AcpKinds[c] => meta[AcpTarget[c]] = "none"
  /\ activeTurn = [s \in AcpSessionKeys |-> NoCall]
  /\ aborted = {} /\ misstated = {} /\ overlapped = FALSE

At(c, step) == call[c].op = "running" /\ Script(call[c].of)[call[c].step] = step

\* A runtime that is used is not idle any more: an eviction that found it so spares it.
Used(s, calls) == [c \in AcpCalls |-> [calls[c] EXCEPT !.stale = @ \ {s}]]

-----------------------------------------------------------------------------
(* The chain of a session: KeyedAsyncQueue *)

Enqueue(c, s, what) ==
  /\ call' = [call EXCEPT ![c].op = "queued", ![c].of = what, ![c].on = s, ![c].step = 1,
                          ![c].ok = TRUE, ![c].todo = @ \ {s},
                          ![c].after = IF tail[s] # NoCall /\ call[tail[s]].op # "settled"
                                       THEN tail[s] ELSE NoCall]
  /\ tail' = [tail EXCEPT ![s] = c]

\* The operation of c ends; the one behind it may begin.
OpEnds(c, calls) ==
  [d \in AcpCalls |->
     IF d = c THEN [calls[d] EXCEPT !.op = "settled", !.step = 1, !.ok = TRUE]
     ELSE [calls[d] EXCEPT !.after = IF @ = c THEN NoCall ELSE @]]

\* The next step of the script, or its end.
Onwards(c, calls) ==
  IF call[c].step = Len(Script(call[c].of)) THEN OpEnds(c, calls)
  ELSE [calls EXCEPT ![c].step = @ + 1]

\* An eviction has ended, and the call goes on to the next, or its operation has.
GoesOn(c) ==
  IF call[c].of = "evict"
  THEN [NewCall EXCEPT !.at = "evicting", !.kind = call[c].kind, !.todo = call[c].todo,
                       !.stale = call[c].stale \cap call[c].todo]
  ELSE [NewCall EXCEPT !.at = "over"]

\* Mutant: the tail of a key is removed by whichever operation has ended.
CleanTailAlways(c) ==
  /\ call[c].op = "settled"
  /\ tail' = [tail EXCEPT ![call[c].on] = NoCall]
  /\ call' = [call EXCEPT ![c] = GoesOn(c)]
  /\ UNCHANGED <<cached, open, meta, activeTurn, aborted, overlapped, misstated>>

\* The tail is removed by the operation that is still the last; its caller goes on.
CleanTail(c) ==
  /\ call[c].op = "settled"
  /\ tail' = [tail EXCEPT ![call[c].on] = IF @ = c THEN NoCall ELSE @]
  /\ call' = [call EXCEPT ![c] = GoesOn(c)]
  /\ UNCHANGED <<cached, open, meta, activeTurn, aborted, overlapped, misstated>>

-----------------------------------------------------------------------------
(* Calls *)

\* Every call of the manager begins with evictIdleRuntimeHandles.
Call(c) ==
  /\ call[c].at = "new"
  /\ \E k \in AcpKinds[c] :
       LET idle == {s \in AcpSessionKeys : cached[s] = "idle"} IN
       call' = [call EXCEPT ![c].at = "evicting", ![c].kind = k, ![c].todo = idle, ![c].stale = idle]
  /\ UNCHANGED <<tail, cached, open, meta, activeTurn, aborted, overlapped, misstated>>

\* The evictions take place one by one, and the call waits for each.
QueueEviction(c) ==
  /\ call[c].at = "evicting" /\ call[c].op = "none"
  /\ \E s \in call[c].todo : Enqueue(c, s, "evict")
  /\ UNCHANGED <<cached, open, meta, activeTurn, aborted, overlapped, misstated>>

EvictionsDone(c) == call[c].at = "evicting" /\ call[c].op = "none" /\ call[c].todo = {}
Preempts(c) == call[c].kind = "cancel" /\ activeTurn[AcpTarget[c]] # NoCall

\* A cancel that finds an active turn gives it its signal and asks the backend at once.
CancelActive(c) ==
  /\ EvictionsDone(c) /\ Preempts(c)
  /\ aborted' = aborted \cup {activeTurn[AcpTarget[c]]}
  /\ call' = [call EXCEPT ![c] = [NewCall EXCEPT !.at = "over"]]
  /\ UNCHANGED <<tail, cached, open, meta, activeTurn, overlapped, misstated>>

QueueOperation(c) ==
  /\ EvictionsDone(c) /\ ~Preempts(c)
  /\ Enqueue(c, AcpTarget[c], call[c].kind)
  /\ UNCHANGED <<cached, open, meta, activeTurn, aborted, overlapped, misstated>>

-----------------------------------------------------------------------------
(* The first stretch of an operation *)

Runs(c, step) == [call EXCEPT ![c].op = "running", ![c].step = step]
Ready(c) == call[c].op = "queued" /\ call[c].after = NoCall

\* The session is not one of the protocol, or not any more.
Refuse(c) ==
  /\ Ready(c) /\ call[c].of \notin {"evict", "init"} /\ meta[call[c].on] = "none"
  /\ call' = OpEnds(c, call)
  /\ UNCHANGED <<tail, cached, open, meta, activeTurn, aborted, overlapped, misstated>>

\* A runtime that has been used since, or is gone, is not evicted.
Evict(c) ==
  /\ Ready(c) /\ call[c].of = "evict"
  /\ LET s == call[c].on IN
       IF activeTurn[s] # NoCall \/ s \notin call[c].stale \/ cached[s] = "none"
       THEN call' = OpEnds(c, call) /\ UNCHANGED cached
       ELSE call' = Runs(c, 1) /\ cached' = [cached EXCEPT ![s] = "none"]
  /\ UNCHANGED <<tail, open, meta, activeTurn, aborted, overlapped, misstated>>

BeingCreated == {s \in AcpSessionKeys : \E d \in AcpCalls :
                   call[d].on = s /\ \E step \in {"ensure", "create", "write_meta"} : At(d, step)}

\* There are as many other runtimes as there may be.
AtLimit(s) == Cardinality({x \in AcpSessionKeys \ {s} : cached[x] # "none"}) >= MaxSessions

\* ensureRuntimeHandle takes the cached runtime; or drops it, when it is not what the session
\* asks for now, and asks for one if there may be more.
Begin(c) ==
  /\ Ready(c) /\ call[c].of # "evict"
  /\ LET s == call[c].on
         first == Script(call[c].of)[1] IN
       /\ call[c].of = "init" \/ meta[s] # "none"
       /\ \/ /\ first = "ensure" /\ cached[s] # "none"
             /\ call' = Used(s, Runs(c, 2))
             /\ cached' = [cached EXCEPT ![s] = "fresh"]
             /\ UNCHANGED overlapped
          \/ /\ first = "persist"
             /\ call' = Runs(c, 1) /\ UNCHANGED <<cached, overlapped>>
          \/ /\ first \in {"ensure", "create"}
             /\ cached' = IF first = "ensure" THEN [cached EXCEPT ![s] = "none"] ELSE cached
             /\ IF AtLimit(s)
                THEN call' = OpEnds(c, call) /\ UNCHANGED overlapped
                ELSE call' = Runs(c, 1) /\ overlapped' = (overlapped \/ BeingCreated # {})
  /\ UNCHANGED <<tail, open, meta, activeTurn, aborted, misstated>>

-----------------------------------------------------------------------------
(* What is awaited returns *)

\* The backend has a session, or has not and the operation fails; a close goes on without
\* it when it was told to (allowBackendUnavailable).
EnsureReturns(c) ==
  /\ At(c, "ensure")
  /\ LET s == call[c].on IN
       \/ /\ call' = Used(s, Onwards(c, call))
          /\ open' = open \cup {s} /\ cached' = [cached EXCEPT ![s] = "fresh"]
       \/ call' = OpEnds(c, call) /\ UNCHANGED <<open, cached>>
       \/ /\ call[c].of = "close" /\ call' = [call EXCEPT ![c].step = 3]
          /\ UNCHANGED <<open, cached>>
  /\ UNCHANGED <<tail, meta, activeTurn, aborted, overlapped, misstated>>

CreateReturns(c) ==
  /\ At(c, "create")
  /\ \/ call' = Onwards(c, call) /\ open' = open \cup {call[c].on}
     \/ call' = OpEnds(c, call) /\ UNCHANGED open
  /\ UNCHANGED <<tail, cached, meta, activeTurn, aborted, overlapped, misstated>>

\* The state of a new session is written, or its runtime is closed again, if that succeeds.
WriteMetaReturns(c) ==
  /\ At(c, "write_meta")
  /\ LET s == call[c].on IN
       \/ /\ call' = Used(s, OpEnds(c, call))
          /\ meta' = [meta EXCEPT ![s] = "idle"] /\ cached' = [cached EXCEPT ![s] = "fresh"]
          /\ misstated' = misstated \ {s} /\ UNCHANGED open
       \/ /\ call' = OpEnds(c, call) /\ open' \in {open, open \ {s}}
          /\ UNCHANGED <<meta, cached, misstated>>
  /\ UNCHANGED <<tail, activeTurn, aborted, overlapped>>

\* Options, mode or status: asked of the backend before anything is changed.
AskReturns(c) ==
  /\ At(c, "controls") \/ At(c, "ask")
  /\ call' \in {Onwards(c, call), OpEnds(c, call)}
  /\ UNCHANGED <<tail, cached, open, meta, activeTurn, aborted, overlapped, misstated>>

\* setSessionState writes a state, and goes on if it cannot.
States(s, state) ==
  \/ meta' = [meta EXCEPT ![s] = state] /\ misstated' = misstated \ {s}
  \/ /\ misstated' = IF meta[s] = "running" THEN misstated \cup {s} ELSE misstated
     /\ UNCHANGED meta

MarkRunningReturns(c) ==
  /\ At(c, "mark_running")
  /\ States(call[c].on, "running")
  /\ activeTurn' = [activeTurn EXCEPT ![call[c].on] = c]
  /\ call' = Onwards(c, call)
  /\ UNCHANGED <<tail, cached, open, aborted, overlapped>>

\* The events of a turn, or the answer to a cancel, come to an end.
StreamEnds(c) ==
  /\ At(c, "stream") \/ At(c, "cancel")
  /\ \E ok \in BOOLEAN : call' = [Onwards(c, call) EXCEPT ![c].ok = ok]
  /\ UNCHANGED <<tail, cached, open, meta, activeTurn, aborted, overlapped, misstated>>

\* Mutant: only a turn that has succeeded says that it is over.
MarkOverIfOk(c) ==
  /\ At(c, "mark_over")
  /\ LET s == call[c].on IN
       /\ IF call[c].ok THEN States(s, "idle") ELSE UNCHANGED <<meta, misstated>>
       /\ activeTurn' = [activeTurn EXCEPT ![s] = IF @ = c THEN NoCall ELSE @]
  /\ call' = Onwards(c, call)
  /\ UNCHANGED <<tail, cached, open, aborted, overlapped>>

MarkOverReturns(c) ==
  /\ At(c, "mark_over")
  /\ LET s == call[c].on IN
       /\ States(s, IF call[c].ok THEN "idle" ELSE "error")
       /\ activeTurn' = [activeTurn EXCEPT ![s] = IF @ = c THEN NoCall ELSE @]
  /\ call' = Onwards(c, call)
  /\ UNCHANGED <<tail, cached, open, aborted, overlapped>>

\* After a turn a oneshot runtime is closed, and dropped from the cache even if that fails;
\* otherwise, and for a status, the identifiers of the session are refreshed.
FinishReturns(c) ==
  /\ At(c, "finish")
  /\ LET s == call[c].on IN
       \/ /\ s \in Oneshot /\ call[c].of = "turn"
          /\ open' \in {open, open \ {s}} /\ cached' = [cached EXCEPT ![s] = "none"]
          /\ call' = OpEnds(c, call)
       \/ /\ s \notin Oneshot \/ call[c].of # "turn"
          /\ \/ cached' = [cached EXCEPT ![s] = "fresh"] /\ call' = Used(s, OpEnds(c, call))
             \/ call' = OpEnds(c, call) /\ UNCHANGED cached
          /\ UNCHANGED open
  /\ UNCHANGED <<tail, meta, activeTurn, aborted, overlapped, misstated>>

CloseReturns(c) ==
  /\ At(c, "close")
  /\ LET s == call[c].on IN
       \/ /\ call' = Onwards(c, call)
          /\ open' = open \ {s} /\ cached' = [cached EXCEPT ![s] = "none"]
       \/ call' = OpEnds(c, call) /\ UNCHANGED <<open, cached>>
       \/ /\ call[c].of = "close" /\ call' = Onwards(c, call)
          /\ cached' = [cached EXCEPT ![s] = "none"] /\ UNCHANGED open
  /\ UNCHANGED <<tail, meta, activeTurn, aborted, overlapped, misstated>>

ClearMetaReturns(c) ==
  /\ At(c, "clear_meta")
  /\ LET s == call[c].on IN
       \/ meta' = [meta EXCEPT ![s] = "none"] /\ misstated' = misstated \ {s}
       \/ UNCHANGED <<meta, misstated>>
  /\ call' = OpEnds(c, call)
  /\ UNCHANGED <<tail, cached, open, activeTurn, aborted, overlapped>>

\* Options that move the session to another directory drop the runtime, which stays open.
PersistReturns(c) ==
  /\ At(c, "persist")
  /\ LET s == call[c].on IN
       \/ /\ cached[s] # "none" /\ cached' = [cached EXCEPT ![s] = "fresh"]
          /\ call' = Used(s, OpEnds(c, call))
       \/ cached' = [cached EXCEPT ![s] = "none"] /\ call' = OpEnds(c, call)
       \/ call' = OpEnds(c, call) /\ UNCHANGED cached
  /\ UNCHANGED <<tail, open, meta, activeTurn, aborted, overlapped, misstated>>

EvictReturns(c) ==
  /\ At(c, "evict")
  /\ open' \in {open, open \ {call[c].on}}
  /\ call' = OpEnds(c, call)
  /\ UNCHANGED <<tail, cached, meta, activeTurn, aborted, overlapped, misstated>>

\* Time passes: a runtime is idle from the last time it was looked up in the cache, also
\* while a turn goes on in it.
BecomesIdle(s) ==
  /\ cached[s] = "fresh"
  /\ cached' = [cached EXCEPT ![s] = "idle"]
  /\ UNCHANGED <<call, tail, open, meta, activeTurn, aborted, overlapped, misstated>>

-----------------------------------------------------------------------------
AcpStep(c) ==
  \/ CleanTail(c) \/ QueueEviction(c) \/ CancelActive(c) \/ QueueOperation(c)
  \/ Refuse(c) \/ Evict(c) \/ Begin(c)
  \/ EnsureReturns(c) \/ CreateReturns(c) \/ WriteMetaReturns(c) \/ AskReturns(c)
  \/ MarkRunningReturns(c) \/ MarkOverReturns(c) \/ FinishReturns(c)
  \/ CloseReturns(c) \/ ClearMetaReturns(c) \/ PersistReturns(c) \/ EvictReturns(c)

AcpNext ==
  \/ \E c \in AcpCalls : Call(c) \/ AcpStep(c) \/ StreamEnds(c)
  \/ \E s \in AcpSessionKeys : BecomesIdle(s)

AcpSpec == AcpInit /\ [][AcpNext]_acpVars

\* Promises of the backend and of the store settle; a turn ends when it is aborted, and
\* otherwise may go on for ever.
AcpFairness ==
  \A c \in AcpCalls :
    /\ WF_acpVars(AcpStep(c))
    /\ WF_acpVars((c \in aborted \/ At(c, "cancel")) /\ StreamEnds(c))

-----------------------------------------------------------------------------
(* Properties *)

\* The shapes of the state; a turn is active from its start until it is stated to be over.
AcpTypeOK ==
  /\ \A c \in AcpCalls :
       /\ call[c].at \in {"new", "evicting", "over"}
       /\ call[c].op \in {"none", "queued", "running", "settled"}
       /\ call[c].op # "none" => call[c].of \in Kinds /\ call[c].on \in AcpSessionKeys
       /\ call[c].stale \subseteq AcpSessionKeys /\ call[c].todo \subseteq AcpSessionKeys
  /\ cached \in [AcpSessionKeys -> {"none", "fresh", "idle"}]
  /\ meta \in [AcpSessionKeys -> {"none", "idle", "running", "error"}]
  /\ {open, misstated} \subseteq SUBSET AcpSessionKeys
  /\ \A s \in AcpSessionKeys : \A c \in AcpCalls :
       activeTurn[s] = c <=>
         /\ call[c].op = "running" /\ call[c].on = s /\ call[c].of = "turn"
         /\ At(c, "stream") \/ At(c, "mark_over")

\* One operation of a session at a time: a new one never starts beside another, whatever
\* the order in which tails are removed (keyed-async-queue.ts:26).
OneOperationPerSession ==
  \A c, d \in AcpCalls :
    call[c].op = "running" /\ call[d].op = "running" /\ call[c].on = call[d].on => c = d

\* The runtime of a turn that goes on is open and is the cached one: no eviction, close
\* or reset takes it away.
TurnKeepsRuntime ==
  \A c \in AcpCalls : At(c, "stream") =>
    call[c].on \in open /\ cached[call[c].on] # "none"

\* A session that nothing is being done with does not say that it is running.
StateIsSettled ==
  \A s \in AcpSessionKeys \ misstated :
    meta[s] = "running" => \E c \in AcpCalls : call[c].op = "running" /\ call[c].on = s

\* There are no more runtimes than configured, unless two were being created at the same
\* time: the limit is tested before the await and counted after it (manager.core.ts:1119).
SessionsWithinLimit ==
  Cardinality({s \in AcpSessionKeys : cached[s] # "none"}) <= MaxSessions \/ overlapped

AcpInv ==
  AcpTypeOK /\ OneOperationPerSession /\ TurnKeepsRuntime /\ StateIsSettled /\ SessionsWithinLimit

\* Every call has returned ([]<>); what can hold one up is a turn that goes on and has
\* not been aborted, be it of another session: an eviction is queued behind it and is
\* waited for (manager.core.ts:1159), also by the cancel that would abort it.
CallsHaveReturned ==
  \/ \A c \in AcpCalls : call[c].at # "evicting"
  \/ \E t \in AcpCalls \ aborted : At(t, "stream")
=============================================================================
