------------------------ MODULE GatewayRunLoopProofs ------------------------
(***************************************************************************)
(* Proofs about GatewayRunLoop, for every set of lanes and finite set of   *)
(* entries, any number of restarts and of deferred restarts, and whatever  *)
(* the configuration allows (restarts from outside, respawning).           *)
(*                                                                         *)
(* The loop drives the command queue by operations the queue's invariant   *)
(* is known to survive (CommandQueueProofs), but for one: a restart marks  *)
(* the drain and begins its wait in one step.  What is left is the loop's  *)
(* own invariant, which ties the phase of the shutdown to what is held in  *)
(* it: the lock, the server's handle and the drain mark.                   *)
(***************************************************************************)
EXTENDS GatewayRunLoop, CommandQueueProofs

-----------------------------------------------------------------------------
(* The inductive invariant *)

\* LoopTypeOK, without the queue's part, and the bound on the deferrals in all.
LoopShape ==
  /\ loop \in {"starting", "serving", "failed", "exited"}
  /\ server \in BOOLEAN /\ listening \in BOOLEAN
  /\ lockWanted \in BOOLEAN /\ lock \in BOOLEAN
  /\ shuttingDown \in BOOLEAN /\ pendingTimer \in BOOLEAN /\ early \in BOOLEAN
  /\ restartResolver \in {"none", "spent", "armed"}
  /\ shutdown \in [phase : {"idle", "draining", "closing", "releasing", "reacquiring"},
                   action : {"none", "stop", "restart"}]

PollersShape ==
  /\ pollers \in [PollerKinds -> Nat]
  /\ PollerCount <= MaxPollers

\* shuttingDown stands for a shutdown routine under way, and dies with the process.
ShutdownIsMarked ==
  /\ Alive => (shuttingDown <=> shutdown.phase # "idle")
  /\ ~Alive => shutdown.phase = "idle"

\* Only a restart drains, and only a restart takes the lock again.
RestartPhases == shutdown.phase \in {"draining", "reacquiring"} => shutdown.action = "restart"

\* The loop that serves waits on the present promise.
ServingIsArmed == loop = "serving" => restartResolver = "armed"

\* The lock is away only while it is being taken again, and then there is one to take.
LockIsBack ==
  /\ Alive /\ shutdown.phase # "reacquiring" => lock = lockWanted
  /\ shutdown.phase = "reacquiring" => lockWanted

\* The drain mark is that of the restart under way, which began under a server.
MarkIsOfRestart ==
  Alive /\ gatewayDraining /\ ~early =>
    loop = "serving" /\ shutdown.phase # "idle" /\ shutdown.action = "restart"

\* A restart that meets a start began during it, and only such a one comes to the
\* lock with the handle of a server.
EarlyRestarts ==
  shutdown.phase # "idle" /\ shutdown.action = "restart" =>
    /\ loop = "starting" => early
    /\ shutdown.phase \in {"releasing", "reacquiring"} /\ server => early

CycleInv ==
  /\ ShutdownIsMarked
  /\ RestartPhases
  /\ ServingIsArmed
  /\ LockIsBack
  /\ MarkIsOfRestart
  /\ EarlyRestarts

LoopIInv == IInv /\ LoopShape /\ PollersShape /\ CycleInv

\* The count of the deferrals goes with the count of one kind.
LEMMA CountChanges ==
  ASSUME PollersShape, NEW kind \in PollerKinds, NEW n \in Nat,
         pollers' = [pollers EXCEPT ![kind] = n]
  PROVE  /\ pollers' \in [PollerKinds -> Nat]
         /\ pollers[kind] \in Nat /\ PollerCount \in Nat /\ PollerCount' \in Nat
         /\ PollerCount' + pollers[kind] = PollerCount + n
<1>1. /\ pollers["scheduled"] \in Nat /\ pollers["reload"] \in Nat
      /\ pollers["replaced"] \in Nat
  BY DEF PollersShape, PollerKinds
<1>2. pollers \in [PollerKinds -> Nat]
  BY DEF PollersShape
<1>3. \A k \in PollerKinds : pollers'[k] = IF k = kind THEN n ELSE pollers[k]
  BY <1>2
<1>4. CASE kind = "scheduled"
  <2>1. /\ pollers'["scheduled"] = n /\ pollers'["reload"] = pollers["reload"]
        /\ pollers'["replaced"] = pollers["replaced"]
    BY <1>3, <1>4 DEF PollerKinds
  <2> QED
    BY <1>1, <1>2, <1>4, <2>1 DEF PollerCount
<1>5. CASE kind = "reload"
  <2>1. /\ pollers'["scheduled"] = pollers["scheduled"] /\ pollers'["reload"] = n
        /\ pollers'["replaced"] = pollers["replaced"]
    BY <1>3, <1>5 DEF PollerKinds
  <2> QED
    BY <1>1, <1>2, <1>5, <2>1 DEF PollerCount
<1>6. CASE kind = "replaced"
  <2>1. /\ pollers'["scheduled"] = pollers["scheduled"]
        /\ pollers'["reload"] = pollers["reload"] /\ pollers'["replaced"] = n
    BY <1>3, <1>6 DEF PollerKinds
  <2> QED
    BY <1>1, <1>2, <1>6, <2>1 DEF PollerCount
<1> QED
  BY <1>4, <1>5, <1>6 DEF PollerKinds

LEMMA LoopInitInv == LoopInit => LoopIInv
<1> SUFFICES ASSUME LoopInit PROVE LoopIInv
  OBVIOUS
<1>1. IInv
  BY InitInv DEF LoopInit
<1>2. gatewayDraining = FALSE
  BY DEF LoopInit, Init
<1>3. LoopShape
  BY DEF LoopInit, LoopShape, Idle
<1>4. PollersShape
  <2>1. pollers = [k \in PollerKinds |-> 0]
    BY DEF LoopInit
  <2>2. pollers["scheduled"] = 0 /\ pollers["reload"] = 0 /\ pollers["replaced"] = 0
    BY <2>1 DEF PollerKinds
  <2> QED
    BY <2>1, <2>2, LoopAssumption DEF PollersShape, PollerCount
<1>5. CycleInv
  BY <1>2 DEF LoopInit, CycleInv, ShutdownIsMarked, RestartPhases, ServingIsArmed, LockIsBack,
     MarkIsOfRestart, EarlyRestarts, Alive, Idle
<1> QED
  BY <1>1, <1>3, <1>4, <1>5 DEF LoopIInv

-----------------------------------------------------------------------------
(* The queue under the loop *)

\* A restart marks the drain and, if tasks are executing, begins to wait for them.
LEMMA RestartKeepsQueue ==
  ASSUME IInv, RequestRestart
  PROVE  IInv'
<1>0. gatewayDraining \in BOOLEAN /\ QueueInv /\ WaiterOK
  BY DEF IInv
<1>1. CASE UNCHANGED vars
  BY <1>1, NextInv
<1>2. CASE /\ gatewayDraining' = TRUE
           /\ UNCHANGED <<laneVars, entry>>
           /\ \/ waiter' = waiter
              \/ /\ ActiveTasks # {}
                 /\ waiter' = [st |-> "waiting", tasks |-> ActiveTasks]
  <2>1. QueueInv'
    BY <1>0, <1>2 DEF QueueInv, laneVars
  <2>2. CASE waiter' = waiter
    <3>1. WaiterOK'
      BY <1>0, <1>2, <2>2 DEF WaiterOK, laneVars
    <3> QED
      BY <1>2, <2>1, <3>1 DEF IInv
  <2>3. CASE ActiveTasks # {} /\ waiter' = [st |-> "waiting", tasks |-> ActiveTasks]
    <3>1. WaiterOK'
      BY <1>0, <1>2, <2>3, WaitBegins
    <3> QED
      BY <1>2, <2>1, <3>1 DEF IInv
  <2> QED
    BY <1>2, <2>2, <2>3
<1> QED
  BY <1>1, <1>2 DEF RequestRestart

\* The timers and the signals change nothing else: they ask for a restart, or they
\* leave the loop and the queue alone.
LEMMA TimersAskForRestarts ==
  ASSUME LoopIInv,
         \/ TimerFires \/ ReloadNeedsRestart \/ ExternalSigusr1
         \/ \E k \in PollerKinds : PollerEmits(k)
  PROVE  /\ RequestRestart \/ UNCHANGED <<vars, loopVars, early>>
         /\ PollersShape'
         /\ pendingTimer' \in BOOLEAN
<1>0. PollersShape /\ pendingTimer \in BOOLEAN
  BY DEF LoopIInv, LoopShape
<1>1. ASSUME NEW kind \in PollerKinds, Defer(kind)
      PROVE  UNCHANGED <<vars, loopVars, early>> /\ PollersShape'
  <2>1. /\ PollerCount < MaxPollers
        /\ pollers' = [pollers EXCEPT ![kind] = pollers[kind] + 1]
        /\ UNCHANGED <<vars, loopVars, early>>
    BY <1>1 DEF Defer
  <2>2. pollers[kind] + 1 \in Nat
    BY <1>0 DEF PollersShape
  <2>3. /\ pollers' \in [PollerKinds -> Nat]
        /\ pollers[kind] \in Nat /\ PollerCount \in Nat /\ PollerCount' \in Nat
        /\ PollerCount' + pollers[kind] = PollerCount + (pollers[kind] + 1)
    BY <1>0, <2>1, <2>2, CountChanges
  <2>4. PollerCount' <= MaxPollers
    BY <2>1, <2>3, LoopAssumption
  <2> QED
    BY <2>1, <2>3, <2>4 DEF PollersShape
<1>2. ASSUME EmitGatewayRestart
      PROVE  RequestRestart /\ pendingTimer' = FALSE
  BY <1>2 DEF EmitGatewayRestart
<1>3. CASE TimerFires
  <2>1. "scheduled" \in PollerKinds
    BY DEF PollerKinds
  <2>2. CASE EmitGatewayRestart /\ UNCHANGED pollers
    BY <1>0, <1>2, <2>2 DEF PollersShape, PollerCount
  <2>3. CASE Defer("scheduled") /\ pendingTimer' = FALSE
    BY <1>1, <2>1, <2>3
  <2> QED
    BY <1>3, <2>2, <2>3 DEF TimerFires
<1>4. CASE ReloadNeedsRestart
  <2>1. "reload" \in PollerKinds
    BY DEF PollerKinds
  <2>2. CASE EmitGatewayRestart /\ UNCHANGED pollers
    BY <1>0, <1>2, <2>2 DEF PollersShape, PollerCount
  <2>3. CASE Defer("reload") /\ UNCHANGED pendingTimer
    BY <1>0, <1>1, <2>1, <2>3
  <2> QED
    BY <1>4, <2>2, <2>3 DEF ReloadNeedsRestart
<1>5. CASE ExternalSigusr1
  BY <1>0, <1>5 DEF ExternalSigusr1, timerVars, PollersShape, PollerCount
<1>6. ASSUME NEW k \in PollerKinds, PollerEmits(k)
      PROVE  RequestRestart /\ PollersShape' /\ pendingTimer' = FALSE
  <2>1. RequestRestart /\ pendingTimer' = FALSE
    BY <1>2, <1>6 DEF PollerEmits
  <2>2. pollers[k] > 0 /\ pollers' = [pollers EXCEPT ![k] = @ - 1]
    BY <1>6 DEF PollerEmits
  <2>3. pollers[k] - 1 \in Nat /\ pollers' = [pollers EXCEPT ![k] = pollers[k] - 1]
    BY <1>0, <2>2 DEF PollersShape
  <2>4. /\ pollers' \in [PollerKinds -> Nat]
        /\ pollers[k] \in Nat /\ PollerCount \in Nat /\ PollerCount' \in Nat
        /\ PollerCount' + pollers[k] = PollerCount + (pollers[k] - 1)
    BY <1>0, <2>3, CountChanges
  <2>5. PollerCount' <= MaxPollers
    BY <1>0, <2>4, LoopAssumption DEF PollersShape
  <2>6. PollersShape'
    BY <2>4, <2>5 DEF PollersShape
  <2> QED
    BY <2>1, <2>6
<1> QED
  BY <1>3, <1>4, <1>5, <1>6

\* Of the queue's steps, only a reset changes a generation; a restart, a poll and the
\* steps of the entries leave the drain mark as the loop has it.
LEMMA QueueStepKeeps ==
  ASSUME LoopIInv, QueueStep
  PROVE  /\ Next
         /\ UNCHANGED <<loopVars, otherVars>>
         /\ gatewayDraining' = gatewayDraining
         /\ generation' = generation
<1>1. ASSUME NEW l \in Lanes, NEW e \in Entries, EnqueueCommandInLane(l, e)
      PROVE  Next /\ gatewayDraining' = gatewayDraining /\ generation' = generation
  BY <1>1 DEF Next, EnqueueCommandInLane, Pump, laneVars
<1>2. ASSUME NEW e \in Entries, Settle(e)
      PROVE  Next /\ gatewayDraining' = gatewayDraining /\ generation' = generation
  BY <1>2 DEF Next, Settle, Pump, laneVars
<1>3. ASSUME PollDrained \/ PollTimedOut
      PROVE  Next /\ gatewayDraining' = gatewayDraining /\ generation' = generation
  BY <1>3 DEF Next, PollDrained, PollTimedOut, laneVars
<1> QED
  BY <1>1, <1>2, <1>3 DEF QueueStep

\* Of the steps of the loop only ResumeLoop may reset the lanes.
Resumes ==
  /\ shutdown.phase \in {"releasing", "reacquiring"}
  /\ shutdown.action = "restart"
  /\ ResumeLoop

LEMMA LoopOnQueue ==
  ASSUME LoopIInv, [LoopNext]_allVars
  PROVE  /\ [Next]_vars \/ RequestRestart
         /\ generation' = generation \/ Resumes
<1>0. RestartPhases
  BY DEF LoopIInv, CycleInv
<1>1. ASSUME ResumeLoop
      PROVE  [Next]_vars
  BY <1>1 DEF ResumeLoop, Next
<1>2. CASE StartResolves
  BY <1>2 DEF StartResolves, vars
<1>3. CASE StartRejects \/ ForceExit \/ ReacquireFails
  BY <1>3 DEF StartRejects, ForceExit, ReacquireFails, vars
<1>4. CASE RequestStop \/ DrainEnds \/ CloseEnds \/ ScheduleRestart
  BY <1>4 DEF RequestStop, DrainEnds, CloseEnds, ScheduleRestart, vars
<1>5. CASE Released
  <2>1. CASE UNCHANGED vars
    BY <2>1 DEF vars
  <2>2. CASE shutdown.action = "restart" /\ ResumeLoop
    BY <1>1, <1>5, <2>2 DEF Released, Resumes
  <2> QED
    BY <1>5, <2>1, <2>2 DEF Released
<1>6. CASE Reacquired
  BY <1>0, <1>1, <1>6 DEF Reacquired, RestartPhases, Resumes
<1>7. ASSUME RequestRestart \/ UNCHANGED <<vars, loopVars, early>>
      PROVE  ([Next]_vars \/ RequestRestart) /\ generation' = generation
  BY <1>7 DEF RequestRestart, vars, laneVars
<1>8. CASE \/ TimerFires \/ ReloadNeedsRestart \/ ExternalSigusr1
           \/ \E k \in PollerKinds : PollerEmits(k)
  BY <1>7, <1>8, TimersAskForRestarts
<1>9. CASE QueueStep
  BY <1>9, QueueStepKeeps
<1>10. CASE UNCHANGED allVars
  BY <1>10 DEF allVars, vars
<1> QED
  BY <1>2, <1>3, <1>4, <1>5, <1>6, <1>8, <1>9, <1>10 DEF LoopNext

-----------------------------------------------------------------------------
(* The cycle of the loop *)

\* What the steps that ask for a restart leave.
LEMMA RestartKeepsCycle ==
  ASSUME LoopIInv, RequestRestart \/ UNCHANGED <<vars, loopVars, early>>,
         pendingTimer' \in BOOLEAN
  PROVE  LoopShape' /\ CycleInv'
<1>0. LoopShape /\ CycleInv
  BY DEF LoopIInv
<1>1. CASE UNCHANGED <<vars, loopVars, early>>
  BY <1>0, <1>1 DEF vars, loopVars, LoopShape, CycleInv, ShutdownIsMarked, RestartPhases,
     ServingIsArmed, LockIsBack, MarkIsOfRestart, EarlyRestarts, Alive
<1>2. CASE /\ ~shuttingDown /\ Alive
           /\ shuttingDown' = TRUE
           /\ early' = (early \/ loop = "starting")
           /\ \/ AfterDrain("restart")
              \/ shutdown' = [phase |-> "draining", action |-> "restart"]
           /\ UNCHANGED <<loop, server, listening, restartResolver, lockWanted, lock>>
  <2>1. /\ shutdown' \in [phase : {"draining", "closing", "releasing"}, action : {"restart"}]
        /\ shutdown'.phase = "releasing" => ~server
    BY <1>2 DEF AfterDrain
  <2>2. shutdown.phase = "idle"
    BY <1>0, <1>2 DEF CycleInv, ShutdownIsMarked
  <2>3. /\ shutdown'.phase \in {"draining", "closing", "releasing"}
        /\ shutdown'.action = "restart"
    BY <2>1
  <2>4. LoopShape'
    BY <1>0, <1>2, <2>1 DEF LoopShape
  <2>5. ShutdownIsMarked' /\ RestartPhases'
    BY <1>2, <2>3 DEF ShutdownIsMarked, RestartPhases, Alive
  <2>6. ServingIsArmed' /\ LockIsBack'
    BY <1>0, <1>2, <2>2, <2>3 DEF CycleInv, ServingIsArmed, LockIsBack, Alive
  <2>7. MarkIsOfRestart' /\ EarlyRestarts'
    BY <1>2, <2>1, <2>3 DEF MarkIsOfRestart, EarlyRestarts, Alive
  <2> QED
    BY <2>4, <2>5, <2>6, <2>7 DEF CycleInv
<1> QED
  BY <1>1, <1>2 DEF RequestRestart

\* The process ends, whatever was going on.
LEMMA ExitKeepsCycle ==
  ASSUME LoopIInv, NEW code \in {"failed", "exited"}, Exit(code), lock' \in BOOLEAN
  PROVE  LoopShape' /\ PollersShape' /\ CycleInv'
<1>0. LoopShape /\ PollersShape
  BY DEF LoopIInv
<1>1. /\ ~Alive' /\ shutdown' = [phase |-> "idle", action |-> "none"]
      /\ loop' = code
      /\ UNCHANGED <<server, listening, restartResolver, lockWanted, shuttingDown,
                     pendingTimer, pollers, early>>
  BY DEF Exit, Alive, Idle, otherVars, timerVars
<1>2. LoopShape'
  BY <1>0, <1>1 DEF LoopShape
<1>3. PollersShape'
  BY <1>0, <1>1 DEF PollersShape, PollerCount
<1>4. CycleInv'
  BY <1>1 DEF CycleInv, ShutdownIsMarked, RestartPhases, ServingIsArmed, LockIsBack,
     MarkIsOfRestart, EarlyRestarts
<1> QED
  BY <1>2, <1>3, <1>4

\* The loop goes round, or the shutdown of a restart ends without it.
LEMMA ResumeKeepsCycle ==
  ASSUME LoopIInv, Resumes, lock' = lockWanted
  PROVE  LoopShape' /\ PollersShape' /\ CycleInv'
<1>0. LoopShape /\ PollersShape /\ CycleInv
  BY DEF LoopIInv
<1>1. /\ shutdown.phase # "idle" /\ shutdown.action = "restart" /\ Alive
      /\ shuttingDown' = FALSE
      /\ shutdown' = [phase |-> "idle", action |-> "none"]
      /\ UNCHANGED <<server, listening, lockWanted, pendingTimer, pollers, early>>
  BY <1>0 DEF Resumes, ResumeLoop, Idle, otherVars, timerVars, CycleInv, ShutdownIsMarked
<1>2. \/ loop' = "starting" /\ restartResolver' = "spent" /\ gatewayDraining' = FALSE
      \/ /\ restartResolver # "armed"
         /\ UNCHANGED <<loop, restartResolver, gatewayDraining>>
  BY DEF Resumes, ResumeLoop, ResetAllLanes, vars
<1>3. LoopShape'
  BY <1>0, <1>1, <1>2 DEF LoopShape
<1>4. PollersShape'
  BY <1>0, <1>1 DEF PollersShape, PollerCount
<1>5. Alive'
  BY <1>1, <1>2 DEF Alive
<1>6. ShutdownIsMarked' /\ RestartPhases' /\ EarlyRestarts'
  BY <1>1, <1>5 DEF ShutdownIsMarked, RestartPhases, EarlyRestarts
<1>7. ServingIsArmed' /\ LockIsBack'
  BY <1>0, <1>1, <1>2 DEF CycleInv, ServingIsArmed, LockIsBack
<1>8. MarkIsOfRestart'
  BY <1>0, <1>1, <1>2 DEF CycleInv, MarkIsOfRestart, ServingIsArmed
<1> QED
  BY <1>3, <1>4, <1>6, <1>7, <1>8 DEF CycleInv

\* A server has been started: the deferrals of the one before it go on without it.
LEMMA StartKeepsPollers ==
  ASSUME PollersShape,
         pollers' = [pollers EXCEPT !["reload"] = 0, !["replaced"] = @ + pollers["reload"]]
  PROVE  PollersShape'
<1>1. /\ pollers["scheduled"] \in Nat /\ pollers["reload"] \in Nat
      /\ pollers["replaced"] \in Nat
  BY DEF PollersShape, PollerKinds
<1>2. /\ pollers' \in [PollerKinds -> Nat]
      /\ pollers'["scheduled"] = pollers["scheduled"]
      /\ pollers'["reload"] = 0
      /\ pollers'["replaced"] = pollers["replaced"] + pollers["reload"]
  BY <1>1 DEF PollersShape, PollerKinds
<1> QED
  BY <1>1, <1>2 DEF PollersShape, PollerCount

\* The steps that go on with a start or a shutdown.
LEMMA PhasesKeepCycle ==
  ASSUME LoopIInv,
         \/ StartResolves \/ RequestStop \/ DrainEnds \/ CloseEnds
  PROVE  LoopShape' /\ PollersShape' /\ CycleInv'
<1>0. LoopShape /\ PollersShape /\ CycleInv
  BY DEF LoopIInv
<1> USE <1>0
<1> USE DEF CycleInv, ShutdownIsMarked, RestartPhases, ServingIsArmed, LockIsBack,
            MarkIsOfRestart, EarlyRestarts, Alive
<1>1. ASSUME UNCHANGED pollers PROVE PollersShape'
  BY <1>1 DEF PollersShape, PollerCount
<1>2. CASE StartResolves
  <2>1. /\ loop = "starting" /\ loop' = "serving" /\ server' = TRUE /\ listening' = TRUE
        /\ restartResolver' = "armed"
        /\ UNCHANGED <<gatewayDraining, lockWanted, lock, shuttingDown, shutdown,
                       pendingTimer, early>>
    BY <1>2 DEF StartResolves, vars
  <2>2. PollersShape'
    BY <1>2, StartKeepsPollers DEF StartResolves
  <2>3. LoopShape'
    BY <2>1 DEF LoopShape
  <2>4. CycleInv'
    BY <2>1
  <2> QED
    BY <2>2, <2>3, <2>4
<1>3. CASE RequestStop
  <2>1. /\ Alive /\ ~shuttingDown /\ shuttingDown' = TRUE
        /\ shutdown' \in [phase : {"closing", "releasing"}, action : {"stop"}]
        /\ UNCHANGED <<gatewayDraining, loop, server, listening, restartResolver, lockWanted,
                       lock, pendingTimer, pollers, early>>
    BY <1>3 DEF RequestStop, AfterDrain, vars, otherVars, timerVars
  <2>2. shutdown'.phase \in {"closing", "releasing"} /\ shutdown'.action = "stop"
    BY <2>1
  <2>3. LoopShape'
    BY <2>1 DEF LoopShape
  <2>4. CycleInv'
    BY <2>1, <2>2
  <2> QED
    BY <1>1, <2>1, <2>3, <2>4
<1>4. CASE DrainEnds
  <2>1. /\ shutdown.phase = "draining"
        /\ shutdown' = [phase |-> IF server THEN "closing" ELSE "releasing",
                        action |-> "restart"]
        /\ UNCHANGED <<gatewayDraining, loop, server, listening, restartResolver, lockWanted,
                       lock, shuttingDown, pendingTimer, pollers, early>>
    BY <1>4 DEF DrainEnds, AfterDrain, vars, otherVars, timerVars
  <2>2. /\ shutdown'.action = "restart" /\ shutdown.action = "restart"
        /\ shutdown'.phase \in {"closing", "releasing"}
        /\ shutdown'.phase = "releasing" => ~server
    BY <2>1
  <2>3. LoopShape'
    BY <2>1 DEF LoopShape
  <2>4. CycleInv'
    BY <2>1, <2>2
  <2> QED
    BY <1>1, <2>1, <2>3, <2>4
<1>5. CASE CloseEnds
  <2>1. /\ shutdown.phase = "closing" /\ server' = FALSE
        /\ shutdown' = [shutdown EXCEPT !.phase = "releasing"]
        /\ listening' \in {FALSE, listening}
        /\ UNCHANGED <<gatewayDraining, loop, restartResolver, lockWanted, lock,
                       shuttingDown, pendingTimer, pollers, early>>
    BY <1>5 DEF CloseEnds, vars, otherVars, timerVars
  <2>2. shutdown'.action = shutdown.action /\ shutdown'.phase = "releasing"
    BY <2>1 DEF LoopShape
  <2>3. LoopShape'
    BY <2>1 DEF LoopShape
  <2>4. CycleInv'
    BY <2>1, <2>2
  <2> QED
    BY <1>1, <2>1, <2>3, <2>4
<1> QED
  BY <1>2, <1>3, <1>4, <1>5

\* The lock is released: the process ends, or goes to take the lock again, or had none.
LEMMA ReleaseKeepsCycle ==
  ASSUME LoopIInv, Released
  PROVE  LoopShape' /\ PollersShape' /\ CycleInv'
<1>0. LoopShape /\ PollersShape /\ CycleInv
  BY DEF LoopIInv
<1>1. shutdown.phase = "releasing" /\ lock' = FALSE /\ Alive
  BY <1>0 DEF Released, CycleInv, ShutdownIsMarked
<1>2. lock = lockWanted
  BY <1>0, <1>1 DEF CycleInv, LockIsBack
<1>3. CASE Exit("exited")
  BY <1>1, <1>3, ExitKeepsCycle
<1>4. CASE /\ shutdown.action = "restart" /\ lock
           /\ shutdown' = [shutdown EXCEPT !.phase = "reacquiring"]
           /\ UNCHANGED <<vars, loop, server, listening, restartResolver, lockWanted,
                          shuttingDown, otherVars>>
  <2>1. /\ shutdown'.phase = "reacquiring" /\ shutdown'.action = "restart"
        /\ shutdown' \in [phase : {"reacquiring"}, action : {"restart"}]
        /\ UNCHANGED <<gatewayDraining, loop, server, listening, restartResolver, lockWanted,
                       shuttingDown, pendingTimer, pollers, early>>
    BY <1>0, <1>4 DEF LoopShape, vars, otherVars, timerVars
  <2>2. LoopShape'
    BY <1>0, <1>1, <2>1 DEF LoopShape
  <2>3. PollersShape'
    BY <1>0, <2>1 DEF PollersShape, PollerCount
  <2>4. ShutdownIsMarked' /\ RestartPhases'
    BY <1>0, <1>1, <2>1 DEF CycleInv, ShutdownIsMarked, RestartPhases, Alive
  <2>5. lockWanted'
    <3>1. lock = TRUE
      BY <1>0, <1>4 DEF LoopShape
    <3>2. lockWanted' = TRUE
      BY <1>2, <2>1, <3>1
    <3> QED
      BY <3>2
  <2>6. ServingIsArmed' /\ LockIsBack'
    BY <1>0, <2>1, <2>5 DEF CycleInv, ServingIsArmed, LockIsBack
  <2>7. MarkIsOfRestart' /\ EarlyRestarts'
    BY <1>0, <1>1, <1>4, <2>1 DEF CycleInv, MarkIsOfRestart, EarlyRestarts, Alive
  <2> QED
    BY <2>2, <2>3, <2>4, <2>6, <2>7 DEF CycleInv
<1>5. CASE shutdown.action = "restart" /\ ~lock /\ ResumeLoop
  <2>1. Resumes /\ lock' = lockWanted
    BY <1>0, <1>1, <1>2, <1>5 DEF Resumes, LoopShape
  <2> QED
    BY <2>1, ResumeKeepsCycle
<1> QED
  BY <1>3, <1>4, <1>5 DEF Released

LEMMA LoopNextInv == LoopIInv /\ [LoopNext]_allVars => LoopIInv'
<1> SUFFICES ASSUME LoopIInv, [LoopNext]_allVars PROVE LoopIInv'
  OBVIOUS
<1>0. IInv /\ LoopShape /\ PollersShape /\ CycleInv
  BY DEF LoopIInv
<1>1. IInv'
  BY <1>0, LoopOnQueue, NextInv, RestartKeepsQueue
<1>2. CASE StartResolves \/ RequestStop \/ DrainEnds \/ CloseEnds
  BY <1>1, <1>2, PhasesKeepCycle DEF LoopIInv
<1>3. CASE StartRejects
  <2>1. Exit("failed") /\ lock' \in BOOLEAN
    BY <1>3 DEF StartRejects
  <2> QED
    BY <1>1, <2>1, ExitKeepsCycle DEF LoopIInv
<1>4. CASE ForceExit \/ ReacquireFails
  <2>1. Exit("exited") /\ lock' \in BOOLEAN
    BY <1>0, <1>4 DEF ForceExit, ReacquireFails, LoopShape
  <2> QED
    BY <1>1, <2>1, ExitKeepsCycle DEF LoopIInv
<1>5. CASE Released
  BY <1>1, <1>5, ReleaseKeepsCycle DEF LoopIInv
<1>6. CASE Reacquired
  <2>1. Resumes /\ lock' = lockWanted
    BY <1>0, <1>6 DEF Reacquired, Resumes, LoopShape, CycleInv, RestartPhases, LockIsBack
  <2> QED
    BY <1>1, <2>1, ResumeKeepsCycle DEF LoopIInv
<1>7. CASE \/ TimerFires \/ ReloadNeedsRestart \/ ExternalSigusr1
           \/ \E k \in PollerKinds : PollerEmits(k)
  <2>1. /\ RequestRestart \/ UNCHANGED <<vars, loopVars, early>>
        /\ PollersShape'
        /\ pendingTimer' \in BOOLEAN
    BY <1>7, TimersAskForRestarts
  <2>2. LoopShape' /\ CycleInv'
    BY <2>1, RestartKeepsCycle
  <2> QED
    BY <1>1, <2>1, <2>2 DEF LoopIInv
<1>8. CASE ScheduleRestart
  <2>1. /\ UNCHANGED <<vars, loopVars, early>>
        /\ pendingTimer' \in BOOLEAN /\ pollers' = pollers
    BY <1>8 DEF ScheduleRestart
  <2>2. PollersShape'
    BY <1>0, <2>1 DEF PollersShape, PollerCount
  <2>3. LoopShape' /\ CycleInv'
    BY <2>1, RestartKeepsCycle
  <2> QED
    BY <1>1, <2>2, <2>3 DEF LoopIInv
<1>9. CASE QueueStep \/ UNCHANGED allVars
  <2>1. UNCHANGED <<loopVars, otherVars, gatewayDraining>>
    BY <1>9, QueueStepKeeps DEF allVars, vars
  <2>2. /\ UNCHANGED <<gatewayDraining, loop, server, listening, restartResolver, lockWanted,
                       lock, shuttingDown, shutdown, pendingTimer, pollers, early>>
    BY <2>1 DEF loopVars, otherVars, timerVars
  <2>3. LoopShape'
    BY <1>0, <2>2 DEF LoopShape
  <2>4. PollersShape'
    BY <1>0, <2>2 DEF PollersShape, PollerCount
  <2>5. CycleInv'
    BY <1>0, <2>2 DEF CycleInv, ShutdownIsMarked, RestartPhases, ServingIsArmed, LockIsBack,
       MarkIsOfRestart, EarlyRestarts, Alive
  <2> QED
    BY <1>1, <2>3, <2>4, <2>5 DEF LoopIInv
<1> QED
  BY <1>2, <1>3, <1>4, <1>5, <1>6, <1>7, <1>8, <1>9 DEF LoopNext

LEMMA LoopInvariance == LoopSpec => []LoopIInv
BY LoopInitInv, LoopNextInv, PTL DEF LoopSpec

-----------------------------------------------------------------------------
(* What the invariant gives *)

\* What the queue promises of itself it keeps in the hands of the loop, over
\* restarts in place that reset its lanes under the tasks: no slot stands idle, the
\* slots held are those of the present life, no accepted entry is lost, and a drain
\* that says so is over (run-loop.ts: the drain before close and the reset of the
\* lanes before the next start).
QueueIsSound ==
  TypeOK /\ NoIdleSlot /\ SlotsMatchGeneration /\ QueuedExactlyOnce /\ DrainedMeansSettled

LEMMA QueueInvGives == IInv => QueueIsSound
BY DEF QueueIsSound, IInv, QueueInv, Ready, Typed, WaiterOK, TypeOK, NoIdleSlot, BusyOK,
   SlotsMatchGeneration, SlotsOK, QueuedExactlyOnce, QueueOK, DrainedMeansSettled

THEOREM QueueSurvivesRestarts == LoopSpec => []QueueIsSound
<1>1. LoopIInv => QueueIsSound
  BY QueueInvGives DEF LoopIInv
<1> QED
  BY <1>1, LoopInvariance, PTL

LEMMA LoopInvGives == LoopIInv => LoopInv
<1> SUFFICES ASSUME LoopIInv PROVE LoopInv
  OBVIOUS
<1>0. IInv /\ LoopShape /\ PollersShape /\ CycleInv
  BY DEF LoopIInv
<1>1. TypeOK
  BY <1>0, QueueInvGives DEF QueueIsSound
<1>2. pollers \in [PollerKinds -> 0..MaxPollers]
  <2>1. /\ pollers["scheduled"] \in Nat /\ pollers["reload"] \in Nat
        /\ pollers["replaced"] \in Nat
    BY <1>0 DEF PollersShape, PollerKinds
  <2>2. \A k \in PollerKinds : pollers[k] \in 0..MaxPollers
    BY <1>0, <2>1, LoopAssumption DEF PollersShape, PollerKinds, PollerCount
  <2> QED
    BY <1>0, <2>2 DEF PollersShape
<1>3. {server, listening, lockWanted, lock, shuttingDown, pendingTimer, early} \subseteq BOOLEAN
  BY <1>0 DEF LoopShape
<1>4. LoopTypeOK
  BY <1>0, <1>1, <1>2, <1>3 DEF LoopTypeOK, LoopShape
<1>5. ServingAcceptsUnlessEarly /\ ServingHoldsLock
  BY <1>0 DEF CycleInv, ServingAcceptsUnlessEarly, ServingAccepts, ServingHoldsLock,
     ShutdownIsMarked, MarkIsOfRestart, LockIsBack, Alive
<1> QED
  BY <1>4, <1>5 DEF LoopInv

\* The gateway that comes back is one that works: after any number of restarts in
\* place, drains that time out, closes that fail and respawns that are not to be had,
\* it accepts work (unless a restart began while a server was being started, the case
\* MCGatewayRunLoopWedge.cfg shows) and holds its lock (run-loop.ts).
THEOREM ComesBackWorking == LoopSpec => []LoopInv
BY LoopInvariance, LoopInvGives, PTL

\* A task of the life that a reset ends holds no slot of the next.
LEMMA ResetDisowns ==
  ASSUME QueueInv, ResetAllLanes, NEW e \in ActiveTasks
  PROVE  e \notin ActiveTasks'
<1>1. QueueInv' /\ Serves(queue, generation', entry, queue', entry')
  BY ResetStep
<1>2. PICK l \in Lanes : e \in active[l]
  BY DEF ActiveTasks
<1>3. e \in Entries /\ entry[e].st = "running" /\ entry[e].lane = l /\ entry[e].gen = generation[l]
  BY <1>2 DEF QueueInv, Ready, SlotsOK
<1>4. entry'[e] = entry[e]
  BY <1>1, <1>3 DEF Serves
<1>5. generation[l] \in Nat /\ generation'[l] = generation[l] + 1
  BY DEF ResetAllLanes, Pump, QueueInv, Ready, Typed
<1>6. ASSUME NEW k \in Lanes, e \in active'[k]
      PROVE  FALSE
  <2>1. entry'[e].lane = k /\ entry'[e].gen = generation'[k]
    BY <1>1, <1>6 DEF QueueInv, Ready, SlotsOK
  <2> QED
    BY <1>3, <1>4, <1>5, <2>1
<1> QED
  BY <1>6 DEF ActiveTasks

\* The lanes are reset between two servers and at no other time: when a generation
\* ends, a restart has just been shut down to its end, no handle to a server is left
\* (unless the restart began during a start), and no task of the old life holds a slot
\* of the new (run-loop.ts: the iteration hook; command-queue.ts: resetAllLanes).
THEOREM LanesAreResetBetweenServers == LoopSpec => ResetsAreRestarts
<1> DEFINE A == (\E l \in Lanes : generation'[l] # generation[l]) =>
                  /\ shutdown.action = "restart" /\ (server => early)
                  /\ \A e \in ActiveTasks : e \notin ActiveTasks'
<1>1. LoopIInv /\ [LoopNext]_allVars => A
  <2> SUFFICES ASSUME LoopIInv, [LoopNext]_allVars, NEW l \in Lanes,
                      generation'[l] # generation[l]
               PROVE  /\ shutdown.action = "restart" /\ (server => early)
                      /\ \A e \in ActiveTasks : e \notin ActiveTasks'
    OBVIOUS
  <2>1. Resumes /\ QueueInv /\ CycleInv
    BY LoopOnQueue DEF LoopIInv, IInv
  <2>2. ResetAllLanes
    BY <2>1 DEF Resumes, ResumeLoop, vars
  <2>3. shutdown.action = "restart" /\ (server => early)
    BY <2>1 DEF Resumes, CycleInv, EarlyRestarts
  <2> QED
    BY <2>1, <2>2, <2>3, ResetDisowns
<1>2. LoopIInv /\ [LoopNext]_allVars => [A]_allVars
  BY <1>1
<1> QED
  BY <1>2, LoopInvariance, PTL DEF LoopSpec, ResetsAreRestarts
=============================================================================
