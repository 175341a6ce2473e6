--------------------------- MODULE GatewayRunLoop ---------------------------
(***************************************************************************)
(* The run loop of the gateway process and the restarts that drive it      *)
(* (Openclaw-Docker/src/cli/gateway-cli/run-loop.ts, src/infra/restart.ts, *)
(* src/infra/process-respawn.ts, src/process/restart-recovery.ts and the   *)
(* restart path of src/gateway/server-reload-handlers.ts), composed with   *)
(* the command queue they drain and reset.                                 *)
(*                                                                         *)
(* Three threads of control share the event loop: the loop itself (start a *)
(* server, wait for restartResolver), the shutdown routine that a signal   *)
(* starts, and the timers of the scheduled and deferred restarts.  A       *)
(* restart scheduled by this process calls process.emit("SIGUSR1"), which  *)
(* runs the signal handler synchronously, so the authorization count and   *)
(* the restart cycle tokens of restart.ts are back at rest when the step   *)
(* ends: emitGatewayRestart never sees an unconsumed signal here, and an   *)
(* external SIGUSR1 counts only if commands.restart allows it.             *)
(***************************************************************************)
EXTENDS CommandQueue

CONSTANTS
  ExternalAllowed,    \* isGatewaySigusr1RestartExternallyAllowed
  MayRespawn,         \* FALSE under OPENCLAW_NO_RESPAWN
  MaxPollers          \* bound: deferred restarts polling at once

ASSUME LoopAssumption ==
  /\ {ExternalAllowed, MayRespawn} \subseteq BOOLEAN
  /\ MaxPollers \in Nat

VARIABLES
  loop,            \* where the while loop is
  server,          \* the variable `server' is not null
  listening,       \* a server of this process holds the port
  restartResolver, \* null, of an earlier iteration, or of the present one
  lockWanted,      \* acquireGatewayLock returned a lock when the process began
  lock,            \* the variable `lock' is not null
  shuttingDown,    \* a request is being carried out
  shutdown,        \* the shutdown routine: its phase and what it was asked for
  pendingTimer,    \* pendingRestartTimer is set
  pollers,         \* deferGatewayRestartUntilIdle intervals running, by caller
  early            \* a restart began while a server was being started (history)

loopVars == <<loop, server, listening, restartResolver, lockWanted, lock,
              shuttingDown, shutdown>>
timerVars == <<pendingTimer, pollers>>
otherVars == <<timerVars, early>>
allVars == <<vars, loopVars, otherVars>>

\* Who deferred a restart: the scheduler, or the config reloader of the present
\* server or of an earlier one.  restartPending of the present reloader is TRUE
\* exactly while it has a poller.
PollerKinds == {"scheduled", "reload", "replaced"}
PollerCount == pollers["scheduled"] + pollers["reload"] + pollers["replaced"]

Idle == [phase |-> "idle", action |-> "none"]

LoopInit ==
  /\ Init
  /\ loop = "starting"
  /\ server = FALSE
  /\ listening = FALSE
  /\ restartResolver = "none"
  /\ lockWanted \in BOOLEAN
  /\ lock = lockWanted
  /\ shuttingDown = FALSE
  /\ shutdown = Idle
  /\ pendingTimer = FALSE
  /\ pollers = [k \in PollerKinds |-> 0]
  /\ early = FALSE

Alive == loop \in {"starting", "serving"}

\* exitProcess: whatever was going on stops.
Exit(code) ==
  /\ loop' = code
  /\ shutdown' = Idle
  /\ UNCHANGED <<server, listening, restartResolver, lockWanted, shuttingDown,
                 otherVars>>

-----------------------------------------------------------------------------
(* The loop *)

\* Mutant: the reload handlers of the new server count the old poller as theirs.
StartResolvesKeepingPoller ==
  /\ loop = "starting"
  /\ ~listening
  /\ shutdown.phase = "releasing" => lock
  /\ loop' = "serving"
  /\ server' = TRUE
  /\ listening' = TRUE
  /\ restartResolver' = "armed"
  /\ pollers' = [pollers EXCEPT !["replaced"] = @ + pollers["reload"]]
  /\ UNCHANGED <<vars, lockWanted, lock, shuttingDown, shutdown, pendingTimer,
                 early>>

\* params.start resolves, with reload handlers of its own; the loop then waits on
\* a new promise.  Without a lock to release the routine does not pause at the
\* release, and no start resolves there.
StartResolves ==
  /\ loop = "starting"
  /\ ~listening
  /\ shutdown.phase = "releasing" => lock
  /\ loop' = "serving"
  /\ server' = TRUE
  /\ listening' = TRUE
  /\ restartResolver' = "armed"
  /\ pollers' = [pollers EXCEPT !["reload"] = 0, !["replaced"] = @ + pollers["reload"]]
  /\ UNCHANGED <<vars, lockWanted, lock, shuttingDown, shutdown, pendingTimer,
                 early>>

\* params.start rejects, as it must when the port is taken: the loop's finally
\* releases the lock and the command ends.
StartRejects ==
  /\ loop = "starting"
  /\ lock' = FALSE
  /\ Exit("failed")
  /\ UNCHANGED vars

-----------------------------------------------------------------------------
(* The shutdown routine *)

\* `await server?.close(...)' when the drain, if there is one, is over.  With no
\* server to close the routine goes on to handle...AfterServerClose, whose
\* first await is the release of the lock.
AfterDrain(action) ==
  shutdown' = [phase |-> IF server THEN "closing" ELSE "releasing", action |-> action]

\* request("stop"): SIGTERM or SIGINT.
RequestStop ==
  /\ Alive
  /\ ~shuttingDown
  /\ shuttingDown' = TRUE
  /\ AfterDrain("stop")
  /\ UNCHANGED <<vars, loop, server, listening, restartResolver, lockWanted, lock,
                 otherVars>>

\* request("restart"), reached through onSigusr1: ignored during a shutdown.
\* The bound MaxGeneration is on the restarts a behaviour may begin.
RequestRestart ==
  /\ Alive
  /\ \A l \in Lanes : generation[l] < MaxGeneration
  /\ \/ /\ shuttingDown
        /\ UNCHANGED <<vars, loopVars, early>>
     \/ /\ ~shuttingDown
        /\ shuttingDown' = TRUE
        /\ gatewayDraining' = TRUE
        /\ early' = (early \/ loop = "starting")
        /\ IF ActiveTasks = {}
           THEN AfterDrain("restart") /\ UNCHANGED waiter
           ELSE /\ shutdown' = [phase |-> "draining", action |-> "restart"]
                /\ waiter' = [st |-> "waiting", tasks |-> ActiveTasks]
        /\ UNCHANGED <<laneVars, entry, loop, server, listening,
                       restartResolver, lockWanted, lock>>

\* waitForActiveTasks returned, drained or not.
DrainEnds ==
  /\ shutdown.phase = "draining"
  /\ waiter.st \in {"drained", "timeout"}
  /\ AfterDrain("restart")
  /\ UNCHANGED <<vars, loop, server, listening, restartResolver, lockWanted, lock,
                 shuttingDown, otherVars>>

\* Mutant: the handle of the closed server is kept.
CloseEndsKeepingServer ==
  /\ shutdown.phase = "closing"
  /\ listening' \in {FALSE, listening}
  /\ shutdown' = [shutdown EXCEPT !.phase = "releasing"]
  /\ UNCHANGED <<vars, loop, server, restartResolver, lockWanted, lock,
                 shuttingDown, otherVars>>

\* server.close resolves and has freed the port, or throws half way and has not;
\* the finally block is the same for both.
CloseEnds ==
  /\ shutdown.phase = "closing"
  /\ listening' \in {FALSE, listening}
  /\ server' = FALSE
  /\ shutdown' = [shutdown EXCEPT !.phase = "releasing"]
  /\ UNCHANGED <<vars, loop, restartResolver, lockWanted, lock, shuttingDown,
                 otherVars>>

\* The forceExitTimer, cleared by the finally block.
ForceExit ==
  /\ shutdown.phase \in {"draining", "closing"}
  /\ Exit("exited")
  /\ UNCHANGED <<vars, lock>>

\* Mutant: the iteration hook takes the restart for the first iteration.
ResumeLoopNoReset ==
  /\ shuttingDown' = FALSE
  /\ shutdown' = Idle
  /\ IF restartResolver = "armed"
     THEN loop' = "starting" /\ restartResolver' = "spent"
     ELSE UNCHANGED <<loop, restartResolver>>
  /\ UNCHANGED <<vars, server, listening, lockWanted, otherVars>>

\* What is left of handleRestartAfterServerClose once the lock is dealt with:
\* if the loop waits on the present promise it goes round, and the iteration
\* hook resets the lanes before the next start.
ResumeLoop ==
  /\ shuttingDown' = FALSE
  /\ shutdown' = Idle
  /\ IF restartResolver = "armed"
     THEN ResetAllLanes /\ loop' = "starting" /\ restartResolver' = "spent"
     ELSE UNCHANGED <<vars, loop, restartResolver>>
  /\ UNCHANGED <<server, listening, lockWanted, otherVars>>

\* Mutant: the lock is not taken again for an in-process restart.
ReleasedForGood ==
  /\ shutdown.phase = "releasing"
  /\ lock' = FALSE
  /\ \/ /\ shutdown.action = "stop" \/ MayRespawn
        /\ Exit("exited")
        /\ UNCHANGED vars
     \/ /\ shutdown.action = "restart"
        /\ ResumeLoop

\* releaseLockIfHeld, and then exit or respawn.
Released ==
  /\ shutdown.phase = "releasing"
  /\ lock' = FALSE
  /\ \/ /\ shutdown.action = "stop" \/ MayRespawn
        /\ Exit("exited")
        /\ UNCHANGED vars
     \/ /\ shutdown.action = "restart"
        /\ lock
        /\ shutdown' = [shutdown EXCEPT !.phase = "reacquiring"]
        /\ UNCHANGED <<vars, loop, server, listening, restartResolver,
                       lockWanted, shuttingDown, otherVars>>
     \/ /\ shutdown.action = "restart"
        /\ ~lock
        /\ ResumeLoop

Reacquired ==
  /\ shutdown.phase = "reacquiring"
  /\ lock' = TRUE
  /\ ResumeLoop

\* Mutant: the failure is logged and the process stays.
ReacquireFailsSilently ==
  /\ shutdown.phase = "reacquiring"
  /\ shutdown' = Idle
  /\ UNCHANGED <<vars, loop, server, listening, restartResolver, lockWanted, lock,
                 shuttingDown, otherVars>>

\* acquireGatewayLock gives up after its timeout.
ReacquireFails ==
  /\ shutdown.phase = "reacquiring"
  /\ Exit("exited")
  /\ UNCHANGED <<vars, lock>>

-----------------------------------------------------------------------------
(* Restart requests *)

\* The pre-restart check: queued and active operations and embedded runs, the
\* runs of earlier generations that still execute included.
PendingWork == \E e \in Entries : entry[e].st \in {"queued", "running"}

\* emitGatewayRestart: clears a scheduled restart and runs the signal handler.
EmitGatewayRestart ==
  /\ RequestRestart
  /\ pendingTimer' = FALSE

\* scheduleGatewaySigusr1Restart: a second call is coalesced while the timer of
\* an earlier one is set.
ScheduleRestart ==
  /\ Alive
  /\ pendingTimer' = TRUE
  /\ UNCHANGED <<vars, loopVars, pollers, early>>

\* deferGatewayRestartUntilIdle, with work pending.
Defer(kind) ==
  /\ PendingWork
  /\ PollerCount < MaxPollers
  /\ pollers' = [pollers EXCEPT ![kind] = @ + 1]
  /\ UNCHANGED <<vars, loopVars, early>>

\* The timer fires: emit at once, or poll until the work is done.
TimerFires ==
  /\ Alive
  /\ pendingTimer
  /\ \/ /\ ~PendingWork
        /\ EmitGatewayRestart
        /\ UNCHANGED pollers
     \/ /\ Defer("scheduled")
        /\ pendingTimer' = FALSE

\* requestGatewayRestart of the config reloader of a running server; it emits at
\* once, or defers unless a deferral of its own is polling (restartPending).
ReloadNeedsRestart ==
  /\ loop = "serving"
  /\ \/ /\ ~PendingWork
        /\ EmitGatewayRestart
        /\ UNCHANGED pollers
     \/ /\ pollers["reload"] = 0
        /\ Defer("reload")
        /\ UNCHANGED pendingTimer

\* A deferred restart emits: its poll sees no work, or its wait has lasted
\* maxWaitMs, or the check throws.
PollerEmits(kind) ==
  /\ Alive
  /\ pollers[kind] > 0
  /\ pollers' = [pollers EXCEPT ![kind] = @ - 1]
  /\ EmitGatewayRestart

\* A SIGUSR1 from outside.
ExternalSigusr1 ==
  /\ ExternalAllowed
  /\ RequestRestart
  /\ UNCHANGED timerVars

-----------------------------------------------------------------------------
(* The specification *)

\* What the command queue does on its own while the process lives.
QueueStep ==
  /\ Alive
  /\ \/ \E l \in Lanes, e \in Entries : EnqueueCommandInLane(l, e)
     \/ \E e \in Entries : Settle(e)
     \/ PollDrained
     \/ PollTimedOut
  /\ UNCHANGED <<loopVars, otherVars>>

LoopNext ==
  \/ StartResolves
  \/ StartRejects
  \/ RequestStop
  \/ DrainEnds
  \/ CloseEnds
  \/ ForceExit
  \/ Released
  \/ Reacquired
  \/ ReacquireFails
  \/ ScheduleRestart
  \/ TimerFires
  \/ ReloadNeedsRestart
  \/ \E k \in PollerKinds : PollerEmits(k)
  \/ ExternalSigusr1
  \/ QueueStep

LoopSpec == LoopInit /\ [][LoopNext]_allVars

\* Timers fire, and file operations and a server's start end in one way or the
\* other.  Nothing is assumed of server.close and of the tasks: the poll of
\* the drain and forceExitTimer do not depend on them.
LoopFairSpec ==
  /\ LoopSpec
  /\ WF_allVars(StartResolves \/ StartRejects)
  /\ WF_allVars(Alive /\ (PollDrained \/ PollTimedOut) /\ UNCHANGED <<loopVars, otherVars>>)
  /\ WF_allVars(DrainEnds)
  /\ WF_allVars(ForceExit)
  /\ WF_allVars(Released)
  /\ WF_allVars(Reacquired \/ ReacquireFails)

-----------------------------------------------------------------------------
(* Properties *)

\* The state space.
LoopTypeOK ==
  /\ TypeOK
  /\ loop \in {"starting", "serving", "failed", "exited"}
  /\ {server, listening, lockWanted, lock, shuttingDown, pendingTimer, early} \subseteq BOOLEAN
  /\ restartResolver \in {"none", "spent", "armed"}
  /\ shutdown \in [phase : {"idle", "draining", "closing", "releasing", "reacquiring"},
                   action : {"none", "stop", "restart"}]
  /\ pollers \in [PollerKinds -> 0..MaxPollers]

\* A gateway that serves and is not shutting down accepts work: the mark set for
\* the drain window of a restart is taken back by the restart.  If it is not,
\* every later enqueue is refused and nothing resets it.
ServingAccepts ==
  loop = "serving" /\ ~shuttingDown => ~gatewayDraining

\* The same, as long as no restart has begun while a server was being started.
ServingAcceptsUnlessEarly == ~early => ServingAccepts

\* The process that serves holds the lock it was given when it began, whatever
\* happened around the respawn of an earlier restart.
ServingHoldsLock ==
  Alive /\ ~shuttingDown => lock = lockWanted

\* A generation ends only with the life of a server: when the lanes are reset,
\* the shutdown of a restart has just ended and no handle to a server is left
\* (unless a restart began during a start), and the tasks that ran then hold no slot of the new life.
ResetsAreRestarts ==
  [][(\E l \in Lanes : generation'[l] # generation[l]) =>
       /\ shutdown.action = "restart" /\ (server => early)
       /\ \A e \in ActiveTasks : e \notin ActiveTasks']_allVars

\* The process exits or no shutdown is under way, though close may hang, tasks never
\* settle and the lock not be won back; new work is accepted again, as long as no restart
\* has begun while a server was being started; and no entry that was accepted waits,
\* through restarts in place, drains that time out and the reset of the lanes, while the
\* tasks that run before it end.  It is so again and again ([]<>).
LoopSettled ==
  Alive =>
    /\ ~shuttingDown
    /\ gatewayDraining => early
    /\ (\E e \in Entries : entry[e].st = "queued") => \E e \in Entries : entry[e].st = "running"

\* What a loop that serves can rely on: its state has its shape, work is accepted and
\* the lock is held, after any number of restarts.
LoopInv == LoopTypeOK /\ ServingAcceptsUnlessEarly /\ ServingHoldsLock
=============================================================================
