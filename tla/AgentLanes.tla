----------------------------- MODULE AgentLanes -----------------------------
(***************************************************************************)
(* Agent runs in the command queue                                         *)
(* (Openclaw-Docker/src/agents/pi-embedded-runner/run.ts, lanes.ts,        *)
(* compact.ts and runs.ts): a run is queued in the lane of its session     *)
(* and, by the task that starts there, in a global lane; the first task    *)
(* holds its slot until the second one has settled.  While an attempt of   *)
(* the run is going on, a handle of it is registered under the session,    *)
(* for those who abort it and wait for its end.                            *)
(*                                                                         *)
(* The session keeps its id.  The run loop is present with its drain and   *)
(* its reset (GatewayRunLoop has the rest of it).                          *)
(***************************************************************************)
EXTENDS CommandQueue

CONSTANTS
  Runs,         \* calls of runEmbeddedPiAgent and compactEmbeddedPiSession
  Compactions,  \* the latter ones
  SessionOf,    \* run -> the lane of its session
  GlobalOf,     \* run -> its global lane
  MaxAttempts   \* bound: attempts of a run

NoRun == "no run"

Outer(r) == <<r, "session">>
Inner(r) == <<r, "global">>

ASSUME LanesAssumption ==
  /\ Lanes # {} /\ NoRun \notin Runs
  /\ Entries = Runs \X {"session", "global"}
  /\ SessionOf \in [Runs -> Lanes]
  /\ GlobalOf \in [Runs -> Lanes]
  /\ \A r, x \in Runs : SessionOf[r] # GlobalOf[x]
  /\ Compactions \subseteq Runs
  /\ MaxAttempts \in Nat

VARIABLES
  handle,     \* ACTIVE_EMBEDDED_RUNS: session -> the run whose attempt is registered
  trying,     \* run -> it has an attempt going on
  attempts,   \* run -> attempts begun
  watch,      \* session -> the pending call of waitForEmbeddedPiRunEnd
  order       \* session -> its runs in the order they were asked for (history)

runVars == <<handle, trying, attempts, watch, order>>
lanesVars == <<vars, runVars>>

Sessions == {SessionOf[r] : r \in Runs}
Globals == {GlobalOf[r] : r \in Runs}

-----------------------------------------------------------------------------
(* Lanes *)

\* The tasks below go on before anything else happens: the first one is the
\* synchronous beginning of a started task, the second one the continuation of a
\* settled promise.
Nesting(r) == entry[Outer(r)].st = "running" /\ entry[Inner(r)].st = "new"
Ending(r) == entry[Outer(r)].st = "running" /\ entry[Inner(r)].st \in Settled
Calm == \A r \in Runs : ~Nesting(r) /\ ~Ending(r)

\* Mutant: the global lane comes first.
RunEmbeddedPiAgentGlobalFirst(r) ==
  /\ Calm
  /\ EnqueueCommandInLane(GlobalOf[r], Inner(r))
  /\ UNCHANGED runVars

RunEmbeddedPiAgent(r) ==
  /\ Calm
  /\ EnqueueCommandInLane(SessionOf[r], Outer(r))
  /\ order' = IF gatewayDraining THEN order ELSE [order EXCEPT ![SessionOf[r]] = Append(@, r)]
  /\ UNCHANGED <<handle, trying, attempts, watch>>

\* The task of the session lane queues the one of the global lane.
Nest(r) ==
  /\ Nesting(r)
  /\ EnqueueCommandInLane(GlobalOf[r], Inner(r))
  /\ UNCHANGED runVars

\* Mutant: it does not wait for it.
EndsOuterAtOnce(r) ==
  /\ entry[Outer(r)].st = "running" /\ entry[Inner(r)].st # "new"
  /\ Settle(Outer(r))
  /\ UNCHANGED runVars

EndsOuter(r) ==
  /\ Ending(r)
  /\ Settle(Outer(r))
  /\ UNCHANGED runVars

\* The run is over, with its attempts.
EndsInner(r) ==
  /\ Calm
  /\ ~trying[r]
  /\ Settle(Inner(r))
  /\ UNCHANGED runVars

-----------------------------------------------------------------------------
(* Attempts *)

\* setActiveEmbeddedRun
StartAttempt(r) ==
  /\ Calm
  /\ entry[Inner(r)].st = "running"
  /\ r \notin Compactions
  /\ ~trying[r] /\ attempts[r] < MaxAttempts
  /\ trying' = [trying EXCEPT ![r] = TRUE]
  /\ attempts' = [attempts EXCEPT ![r] = @ + 1]
  /\ handle' = [handle EXCEPT ![SessionOf[r]] = r]
  /\ UNCHANGED <<vars, watch, order>>

Notified(s) == [watch EXCEPT ![s] = IF @ = "waiting" THEN "ended" ELSE @]

\* Mutant: the handle of whichever run is registered is removed.
ClearActiveEmbeddedRunOfAny(r) ==
  /\ handle' = [handle EXCEPT ![SessionOf[r]] = NoRun]
  /\ watch' = Notified(SessionOf[r])

\* Only the handle of this run is removed, and only then are the waiters told.
ClearActiveEmbeddedRun(r) ==
  LET s == SessionOf[r] IN
  \/ /\ handle[s] = r
     /\ handle' = [handle EXCEPT ![s] = NoRun]
     /\ watch' = Notified(s)
  \/ /\ handle[s] # r
     /\ UNCHANGED <<handle, watch>>

EndAttempt(r) ==
  /\ Calm
  /\ trying[r]
  /\ trying' = [trying EXCEPT ![r] = FALSE]
  /\ ClearActiveEmbeddedRun(r)
  /\ UNCHANGED <<vars, attempts, order>>

\* sessions.reset and sessions.delete: what waits in the lane of the session is
\* cleared, its registered run is aborted, and its end is awaited; without a
\* registered run there is nothing to wait for.
EnsureSessionRuntimeCleanup(s) ==
  /\ Calm
  /\ watch[s] # "waiting"
  /\ ClearCommandLane(s)
  /\ watch' = [watch EXCEPT ![s] = IF handle[s] = NoRun THEN "none" ELSE "waiting"]
  /\ UNCHANGED <<handle, trying, attempts, order>>

WaitTimesOut(s) ==
  /\ Calm
  /\ watch[s] = "waiting"
  /\ watch' = [watch EXCEPT ![s] = "none"]
  /\ UNCHANGED <<vars, handle, trying, attempts, order>>

-----------------------------------------------------------------------------
(* The run loop *)

\* A restart marks the gateway as draining and waits for the tasks executing.
BeginDrain ==
  /\ ~gatewayDraining
  /\ gatewayDraining' = TRUE
  /\ waiter' = [st |-> IF ActiveTasks = {} THEN "drained" ELSE "waiting", tasks |-> ActiveTasks]
  /\ UNCHANGED <<laneVars, entry>>

\* The drain is over, or its time is, and the lanes are reset.
EndDrain ==
  /\ gatewayDraining
  /\ waiter.st # "waiting"
  /\ ResetAllLanes

LoopStep ==
  /\ Calm
  /\ \/ BeginDrain
     \/ PollDrained
     \/ PollTimedOut
     \/ EndDrain
     \/ \E l \in Globals, n \in Concurrencies : SetCommandLaneConcurrency(l, n)
  /\ UNCHANGED runVars

-----------------------------------------------------------------------------
LanesInit ==
  /\ Init
  /\ handle = [s \in Sessions |-> NoRun]
  /\ trying = [r \in Runs |-> FALSE]
  /\ attempts = [r \in Runs |-> 0]
  /\ watch = [s \in Sessions |-> "none"]
  /\ order = [s \in Sessions |-> <<>>]

LanesNext ==
  \/ \E r \in Runs :
       \/ RunEmbeddedPiAgent(r) \/ Nest(r) \/ EndsOuter(r) \/ EndsInner(r)
       \/ StartAttempt(r) \/ EndAttempt(r)
  \/ \E s \in Sessions : EnsureSessionRuntimeCleanup(s) \/ WaitTimesOut(s)
  \/ LoopStep

LanesSpec == LanesInit /\ [][LanesNext]_lanesVars

-----------------------------------------------------------------------------
(* What the lanes implement *)

StateOf(r) ==
  CASE entry[Inner(r)].st = "running" -> "executing"
    [] entry[Inner(r)].st \in Settled \/ entry[Outer(r)].st \in Settled -> "over"
    [] entry[Outer(r)].st = "new" -> "new"
    [] OTHER -> "waiting"

Turns == INSTANCE SessionTurns WITH
  state <- [r \in Runs |-> StateOf(r)],
  turn <- [r \in Runs |-> IF entry[Inner(r)].st \in {"running", "done"}
                          THEN entry[Outer(r)].gen ELSE 0],
  life <- generation[CHOOSE l \in Lanes : TRUE]

-----------------------------------------------------------------------------
(* Properties *)

\* Lanes, handles and waiters have their shapes, and a run whose session slot was
\* never taken is not in a global lane (run.ts:222).
LanesTypeOK ==
  /\ handle \in [Sessions -> Runs \cup {NoRun}]
  /\ trying \in [Runs -> BOOLEAN]
  /\ attempts \in [Runs -> 0..MaxAttempts]
  /\ watch \in [Sessions -> {"none", "waiting", "ended"}]
  /\ \A s \in Sessions : order[s] \in Seq(Runs)
  /\ \A r \in Runs :
       entry[Inner(r)].st # "new" => entry[Outer(r)].st \in {"running", "done"}

\* Runs of a session execute one at a time and in order, across lanes, clears, caps
\* that change and drains; after a restart in place that gave up waiting, that holds
\* of the turns of each life apart (docs/concepts/queue.md:83).
ImplementsTurns == Turns!TurnsSpec

\* What the documentation says without that reservation: of the runs that the present
\* life has started, no two of one session execute at once.
OneRunPerSession ==
  \A r, x \in Runs :
    /\ SessionOf[r] = SessionOf[x]
    /\ \A y \in {r, x} : /\ entry[Inner(y)].st = "running"
                         /\ entry[Inner(y)].gen = generation[GlobalOf[y]]
    => r = x

\* The registered handle is that of an attempt going on; until the lanes are reset
\* every attempt going on is registered, so that an abort reaches it (runs.ts:141).
HandlesAreExact ==
  \A r \in Runs :
    /\ handle[SessionOf[r]] = r => trying[r]
    /\ trying[r] /\ (\A l \in Lanes : generation[l] = 0) => handle[SessionOf[r]] = r

\* Who waits for the end of a session's run is told when the run registered at that
\* moment ends its attempt, and by no other event: not when a run of an earlier life
\* ends that it has replaced.
ToldWhenOver ==
  [][\A s \in Sessions :
       watch[s] = "waiting" /\ watch'[s] = "ended" =>
         handle[s] # NoRun /\ trying[handle[s]] /\ ~trying'[handle[s]]]_lanesVars

\* Handles have their shapes and are those of the attempts going on.
AgentLanesInv == LanesTypeOK /\ HandlesAreExact
=============================================================================
