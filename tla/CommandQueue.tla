---------------------------- MODULE CommandQueue ----------------------------
(***************************************************************************)
(* The in-process command queue of the gateway                             *)
(* (Openclaw-Docker/src/process/command-queue.ts).                         *)
(*                                                                         *)
(* A lane is a FIFO of entries drained with a bounded concurrency.  Every  *)
(* agent run, cron run and subagent run of the gateway goes through lanes. *)
(* A lane carries a generation: resetAllLanes, called by the run loop      *)
(* after an in-process restart, bumps it and forgets the active tasks, so  *)
(* that the completion of a task of an earlier life frees no slot.         *)
(*                                                                         *)
(* One action is one synchronous stretch of the JavaScript event loop.     *)
(* The `draining' flag of a lane only guards against re-entrance of        *)
(* drainLane inside one stretch and is FALSE between stretches; a nested   *)
(* drain started from the synchronous prefix of a task leaves the queue    *)
(* the enclosing pump would have left, so Pump below is one step.          *)
(* Lanes are created on first use with the initial values below; here they *)
(* all exist from the start.  The identifier nextTaskId++ given to a       *)
(* started task is represented by the entry it starts.                     *)
(***************************************************************************)
EXTENDS Naturals, Sequences, FiniteSets

CONSTANTS
  Lanes,           \* the lane names
  Entries,         \* the entries (calls of enqueueCommandInLane)
  Concurrencies,   \* the values setCommandLaneConcurrency is called with
  MaxGeneration    \* bound: how many times the lanes are reset

ASSUME ConcurrencyAssumption == Concurrencies \subseteq Nat

ASSUME EntriesAssumption == IsFiniteSet(Entries)

ASSUME MaxGenerationAssumption == MaxGeneration \in Nat

ASSUME NoLaneAssumption == "none" \notin Lanes

VARIABLES
  gatewayDraining, \* set while the gateway is draining for restart
  queue,           \* lane -> sequence of the entries not yet started
  active,          \* lane -> activeTaskIds
  maxConcurrent,   \* lane -> concurrency cap
  generation,      \* lane -> number of resets
  entry,           \* entry -> status of its promise, lane and start generation
  waiter           \* the pending call of waitForActiveTasks

laneVars == <<queue, active, maxConcurrent, generation>>
vars == <<gatewayDraining, queue, active, maxConcurrent, generation, entry,
          waiter>>

-----------------------------------------------------------------------------
(* Values *)

NoLane == "none"

\* "done": the task ran and its promise was resolved or rejected (the two ways
\* free the slot and pump alike); "refused": rejected by enqueueCommandInLane
\* while draining; "cleared": rejected by clearCommandLane before it started.
Settled  == {"done", "cleared", "refused"}
Statuses == {"new", "queued", "running"} \cup Settled

EntryRecord == [st : Statuses, lane : Lanes \cup {NoLane}, gen : Nat]
WaiterRecord ==
  [st : {"idle", "waiting", "drained", "timeout"}, tasks : SUBSET Entries]

Init ==
  /\ gatewayDraining = FALSE
  /\ queue = [l \in Lanes |-> <<>>]
  /\ active = [l \in Lanes |-> {}]
  /\ maxConcurrent = [l \in Lanes |-> 1]
  /\ generation = [l \in Lanes |-> 0]
  /\ entry = [e \in Entries |-> [st |-> "new", lane |-> NoLane, gen |-> 0]]
  /\ waiter = [st |-> "idle", tasks |-> {}]

ActiveTasks == UNION {active[l] : l \in Lanes}

-----------------------------------------------------------------------------
(* The pump *)

\* Mutant of Startable: the pump's loop tests <= and starts one entry too many.
StartableOffByOne(q, a, m) ==
  LET busy == Cardinality(a)
  IN  IF busy > m THEN 0
      ELSE IF Len(q) <= m + 1 - busy THEN Len(q) ELSE m + 1 - busy

\* How many entries the pump starts on a lane with queue q, active tasks a
\* and cap m.
Startable(q, a, m) ==
  LET busy == Cardinality(a)
  IN  IF busy >= m THEN 0
      ELSE IF Len(q) <= m - busy THEN Len(q) ELSE m - busy

\* Mutant of First: pop instead of shift.
FirstPopped(q, n) == {q[i] : i \in (Len(q) - n + 1)..Len(q)}

First(q, n) == {q[i] : i \in 1..n}
Rest(q, n)  == SubSeq(q, n + 1, Len(q))

\* drainLane on every lane of `drained', run on queues q, active sets a, caps m
\* and generations g; es is the entry table the caller leaves.
Pump(drained, q, a, m, g, es) ==
  LET n == [l \in Lanes |->
              IF l \in drained THEN Startable(q[l], a[l], m[l]) ELSE 0]
      started == [l \in Lanes |-> First(q[l], n[l])]
  IN  /\ queue' = [l \in Lanes |-> Rest(q[l], n[l])]
      /\ active' = [l \in Lanes |-> a[l] \cup started[l]]
      /\ maxConcurrent' = m
      /\ generation' = g
      /\ entry' = [e \in Entries |->
           IF es[e].lane \in Lanes /\ e \in started[es[e].lane]
           THEN [st |-> "running", lane |-> es[e].lane, gen |-> g[es[e].lane]]
           ELSE es[e]]

-----------------------------------------------------------------------------
(* The operations *)

\* The entry table after entry e has been pushed on the queue of lane l.
Pushed(l, e) == [entry EXCEPT ![e].st = "queued", ![e].lane = l]

EnqueueCommandInLane(l, e) ==
  /\ entry[e].st = "new"
  /\ UNCHANGED <<gatewayDraining, waiter>>
  /\ \/ /\ gatewayDraining
        /\ entry' = [entry EXCEPT ![e].st = "refused"]
        /\ UNCHANGED laneVars
     \/ /\ ~gatewayDraining
        /\ Pump({l}, [queue EXCEPT ![l] = Append(@, e)], active,
                maxConcurrent, generation, Pushed(l, e))

\* completeTask: only a task of the lane's current generation frees a slot.
OfCurrentGeneration(e) == entry[e].gen = generation[entry[e].lane]

\* The task of a started entry settles.  A stale completion neither frees a
\* slot nor pumps.
Settle(e) ==
  LET l  == entry[e].lane
      es == [entry EXCEPT ![e].st = "done"]
  IN  /\ entry[e].st = "running"
      /\ UNCHANGED <<gatewayDraining, waiter>>
      /\ \/ /\ OfCurrentGeneration(e)
            /\ Pump({l}, queue, [active EXCEPT ![l] = @ \ {e}],
                    maxConcurrent, generation, es)
         \/ /\ ~OfCurrentGeneration(e)
            /\ entry' = es
            /\ UNCHANGED laneVars

\* Mutant: the cap is stored and the lane is not drained.
SetCommandLaneConcurrencyNoDrain(l, n) ==
  /\ maxConcurrent' = [maxConcurrent EXCEPT ![l] = IF n < 1 THEN 1 ELSE n]
  /\ UNCHANGED <<gatewayDraining, queue, active, generation, entry, waiter>>

\* Mutant: the cap is stored as it is given.
SetCommandLaneConcurrencyUnchecked(l, n) ==
  /\ Pump({l}, queue, active, [maxConcurrent EXCEPT ![l] = n], generation, entry)
  /\ UNCHANGED <<gatewayDraining, waiter>>

SetCommandLaneConcurrency(l, n) ==
  /\ Pump({l}, queue, active, [maxConcurrent EXCEPT ![l] = IF n < 1 THEN 1 ELSE n],
          generation, entry)
  /\ UNCHANGED <<gatewayDraining, waiter>>

\* Mutant: the queue is emptied and the promises are left pending.
ClearCommandLaneSilently(l) ==
  /\ queue' = [queue EXCEPT ![l] = <<>>]
  /\ UNCHANGED <<gatewayDraining, active, maxConcurrent, generation, entry,
                 waiter>>

\* Reject what is queued on a lane; what has started goes on.
ClearCommandLane(l) ==
  /\ queue' = [queue EXCEPT ![l] = <<>>]
  /\ entry' = [e \in Entries |->
       IF e \in First(queue[l], Len(queue[l]))
       THEN [entry[e] EXCEPT !.st = "cleared"] ELSE entry[e]]
  /\ UNCHANGED <<gatewayDraining, active, maxConcurrent, generation, waiter>>

MarkGatewayDraining ==
  /\ gatewayDraining' = TRUE
  /\ UNCHANGED <<laneVars, entry, waiter>>

\* Mutant of LanesToDrain: a reset drains nothing.
NoLanesToDrain == {}

\* The drain pass of a reset visits the lanes that still have entries.
LanesToDrain == {l \in Lanes : queue[l] # <<>>}

\* Mutant: the generation is bumped and the active ids are kept.
ResetAllLanesKeepingActive ==
  /\ \A l \in Lanes : generation[l] < MaxGeneration
  /\ gatewayDraining' = FALSE
  /\ Pump(LanesToDrain, queue, active, maxConcurrent,
          [l \in Lanes |-> generation[l] + 1], entry)
  /\ UNCHANGED waiter

ResetAllLanes ==
  /\ \A l \in Lanes : generation[l] < MaxGeneration
  /\ gatewayDraining' = FALSE
  /\ Pump(LanesToDrain, queue, [l \in Lanes |-> {}], maxConcurrent,
          [l \in Lanes |-> generation[l] + 1], entry)
  /\ UNCHANGED waiter

-----------------------------------------------------------------------------
(* waitForActiveTasks *)

WaitForActiveTasks ==
  /\ waiter.st # "waiting"
  /\ waiter' = [st |-> IF ActiveTasks = {} THEN "drained" ELSE "waiting",
                tasks |-> ActiveTasks]
  /\ UNCHANGED <<gatewayDraining, laneVars, entry>>

\* Mutant of HasPending: the scan stops at the first lane without a pending task.
HasPendingEverywhere == \A l \in Lanes : waiter.tasks \cap active[l] # {}

\* The poll sees a task of the snapshot in some activeTaskIds.
HasPending == waiter.tasks \cap ActiveTasks # {}

PollDrained ==
  /\ waiter.st = "waiting"
  /\ ~HasPending
  /\ waiter' = [waiter EXCEPT !.st = "drained"]
  /\ UNCHANGED <<gatewayDraining, laneVars, entry>>

\* The deadline is passed at a poll that still sees a pending task.
PollTimedOut ==
  /\ waiter.st = "waiting"
  /\ HasPending
  /\ waiter' = [waiter EXCEPT !.st = "timeout"]
  /\ UNCHANGED <<gatewayDraining, laneVars, entry>>

-----------------------------------------------------------------------------
(* The specification *)

Next ==
  \/ \E l \in Lanes, e \in Entries : EnqueueCommandInLane(l, e)
  \/ \E e \in Entries : Settle(e)
  \/ \E l \in Lanes, n \in Concurrencies : SetCommandLaneConcurrency(l, n)
  \/ \E l \in Lanes : ClearCommandLane(l)
  \/ MarkGatewayDraining
  \/ ResetAllLanes
  \/ WaitForActiveTasks
  \/ PollDrained
  \/ PollTimedOut

Spec == Init /\ [][Next]_vars

-----------------------------------------------------------------------------
(* Properties *)

\* The state space.
TypeOK ==
  /\ gatewayDraining \in BOOLEAN
  /\ queue \in [Lanes -> Seq(Entries)]
  /\ active \in [Lanes -> SUBSET Entries]
  /\ maxConcurrent \in [Lanes -> Nat \ {0}]
  /\ generation \in [Lanes -> Nat]
  /\ entry \in [Entries -> EntryRecord]
  /\ waiter \in WaiterRecord

\* No lost wakeup: whenever the event loop is between two stretches, a lane with
\* a queued entry has all its slots taken.  Nothing polls a lane, so an
\* operation that forgets to drain (completion, reset, a raised cap) would
\* leave the entry waiting for an enqueue that may never come.
NoIdleSlot ==
  \A l \in Lanes :
    queue[l] # <<>> => Cardinality(active[l]) >= maxConcurrent[l]

\* The slots of a lane are held by exactly the running tasks started since the
\* last reset: the completion of a task of an earlier generation never frees a
\* slot of the present one, and no slot leaks.
SlotsMatchGeneration ==
  \A l \in Lanes :
    active[l] = {e \in Entries : /\ entry[e].st = "running"
                                 /\ entry[e].lane = l
                                 /\ entry[e].gen = generation[l]}

\* An entry whose promise is pending and that has not started stands once in
\* the queue of its lane, and no other entry stands in a queue: across resets,
\* clears and refusals no promise is dropped and no task can start twice.
QueuedExactlyOnce ==
  /\ \A l \in Lanes : \A i \in 1..Len(queue[l]) :
       /\ entry[queue[l][i]].st = "queued"
       /\ entry[queue[l][i]].lane = l
  /\ \A l \in Lanes : \A i, j \in 1..Len(queue[l]) :
       queue[l][i] = queue[l][j] => i = j
  /\ \A e \in Entries : entry[e].st = "queued" =>
       /\ entry[e].lane \in Lanes
       /\ \E i \in 1..Len(queue[entry[e].lane]) : queue[entry[e].lane][i] = e

\* A wait that reports "drained" is right: every task that was executing when
\* it was called has settled, unless a reset has disowned it since.
DrainedMeansSettled ==
  waiter.st = "drained" =>
    \A e \in waiter.tasks :
      \/ entry[e].st = "done"
      \/ entry[e].gen < generation[entry[e].lane]

Started(e) == entry[e].st # "running" /\ entry'[e].st = "running"

\* A lane starts tasks only as far as the cap in force allows.
WithinCap ==
  \A l \in Lanes :
    (\E e \in Entries : Started(e) /\ entry'[e].lane = l)
      => Cardinality(active'[l]) <= maxConcurrent'[l]

\* No entry starts while one that stood before it in its lane goes on waiting.
FirstComeFirst ==
  \A l \in Lanes : \A i, j \in 1..Len(queue[l]) :
    i < j /\ Started(queue[l][j]) => entry'[queue[l][i]].st # "queued"

\* A step starts a task only as far as the cap in force allows, also when the
\* cap was lowered below the number of the running tasks; and of a lane's entries
\* it starts, first in, first out, the ones that wait longest.
StartsInTurn == [][WithinCap]_vars /\ [][FirstComeFirst]_vars
=============================================================================
