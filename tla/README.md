# Verification of the OpenClaw gateway

TLA+ specifications of the control core of the OpenClaw gateway
(`Openclaw-Docker/src/`, TypeScript), the TLC instances that check them, and
proofs that TLAPS checks. Paths below are relative to `Openclaw-Docker/`.

To check a run: `tlc -config MCAgentLanes.cfg MCAgentLanes`; the module of a
configuration is the longest module name its own name begins with.
To check the proofs: `tlapm M.tla` for each of the eight modules `*Proofs.tla`
(section 4).

## 1. The system

The gateway is one Node process that connects chat channels to agents. Its
code runs on one event loop: between two `await`s nothing interleaves, and at
every `await` anything may. Nothing is lost to a data race and everything can
be lost to a stale read across an `await`; that, crashes, and in-process
restarts are what is hard here. **In every module one action is one synchronous
stretch of the event loop**, or, where the code takes a promise lock
(`cron/service/locked.ts`), one section under the lock.

The main flow: a message arrives on a channel, passes de-duplication and
debouncing, and either begins an agent turn, or, while one is in progress for
its session, goes to the session's *followup queue*. A turn is a task in the
session's lane and then in a global lane of the *command queue*. Its replies go
through a reply dispatcher and the *outbound delivery queue*. The *cron
service* and the *heartbeat* start turns by themselves; a turn may run commands,
which operators may have to approve, spawn *subagents* and write its transcript
under the *session write lock*. The *run loop* restarts the gateway within the
process: it refuses new work, drains the lanes, closes the server, resets the
lanes and starts again. Module-level state (lanes, followup queues, timers)
survives such a restart. *Channel accounts*, *nodes* and *ACP sessions* are kept
up beside it, and the *configuration reloader* changes all of them.

### Components

| Component | State | Operations | What is hard | What makes it correct | Module |
|---|---|---|---|---|---|
| Command queue `src/process/command-queue.ts` | per lane: FIFO, active task ids, cap, generation; drain flag | enqueue, complete, set concurrency, clear, reset, wait for drain | completions of tasks of an earlier generation; caps that change under running tasks; timeouts of the wait | no idle slot with work queued, each entry once in one place, caps and order, a reported drain is real, everything settles | `CommandQueue` |
| Run loop and restarts `src/cli/gateway-cli/run-loop.ts`, `src/infra/restart.ts` | server handle, restart resolver, lock, shutdown phase, restart timer and pollers | start, stop, restart, drain, close, force exit, release and reacquire the lock, defer | signals at any point, during a start in particular; close that hangs; lock not won back | what comes back accepts work, holds its lock and began with reset lanes; every shutdown ends | `GatewayRunLoop` (extends `CommandQueue`) |
| Followup queue `src/auto-reply/reply/queue/`, `src/utils/queue-helpers.ts` | per session key: queue object (items, summary of what was dropped, settings, draining), callback | enqueue with drop policies, drain in two modes, clear | the drain works on positions it read before an `await`; a cleared key gets a new object while an old drain lives | nothing lost, in order, within the cap, never left undrained | `FollowupQueue` |
| Cron service `src/cron/service/` | store file and its copies in memory, timer, running ticks, `runningAtMs` markers | start with catch-up, timer tick, claim, execute, record, add, update, remove, run, list, stop | executions outside the lock; crashes between claim and record; a second service after a reload | a job is claimed once, is never forgotten or put off, a one-shot that succeeded stays done | `CronService` |
| Outbound delivery queue `src/infra/outbound/delivery-queue.ts`, `deliver.ts` | one file per delivery in `delivery-queue/` or `failed/` | enqueue, ack, fail, move, recover at start | a crash between any two steps; recovery that overlaps a live call; partial failure | no payload is lost without a file, retries are counted and spaced | `DeliveryQueue` |
| Agent lanes `src/agents/pi-embedded-runner/` | lane names, registered run of each session, those who wait for its end | run and compact, each a task in the session lane that queues one in a global lane; abort and wait | slots taken and given back in two steps each; a late end of a replaced run | a session's runs execute one at a time and in order; who waits is told | `AgentLanes`, which implements `SessionTurns` |
| Heartbeat wake and runner `src/infra/heartbeat-wake.ts`, `heartbeat-runner.ts` | pending wake per target, one timer, handler and its generation, interval timer | request, fire, serve a batch, retry, replace handler, enable, disable | a handler replaced during a batch; busy lanes | a wake-up is not lost nor lowered and reaches the handler; one batch at a time; the interval goes on | `HeartbeatWake` |
| Reply dispatcher `src/auto-reply/reply/reply-dispatcher.ts`, `block-reply-pipeline.ts` | pending count with a reservation, send chain, pipeline of blocks | enqueue, deliver, time out, complete | completion against the last delivery; blocks given up that arrive all the same | nothing left out, twice or out of order; seen until delivered, then released | `ReplyDelivery` |
| Execution approvals `src/gateway/exec-approval-manager.ts` and its callers | pending entries, timers, grace period | register, forward, resolve, expire, consume, await | a decision racing the timer; two requests of one id | the first decision stands, all who wait are told it; a one-time approval is used once | `ExecApproval` |
| Session write lock `src/agents/session-write-lock.ts` | lock file with owner and age, holders counted per process | acquire, inspect, reclaim, release, watchdog, signal, sweep | two waiters reclaim the same stale file; pids used again; holders robbed by the watchdog | record, holders and file agree; locks in use are not removed | `SessionWriteLock` |
| Subagent registry `src/agents/subagent-registry.ts`, `subagent-announce.ts` | run records, in memory and on disk | register, complete, announce, retry, expire, sweep, kill, steer, restore | completion by several paths; restarts | announced once, after its descendants, not when stopped; not forgotten | `SubagentRegistry` |
| Channel manager `src/gateway/server-channels.ts` | tasks, abort controllers, restart attempts, manual stops | start, stop, crash, restart with back-off | tests before an `await`, records after it | one known task per account; a manual stop holds; restarts are bounded | `ChannelManager` |
| Node registry `src/gateway/node-registry.ts` | sessions by id and connection, pending invocations | register, unregister, invoke, answer, time out | reconnect before disconnect | an invocation settles once; a live node is found | `NodeRegistry` |
| Configuration reloader `src/gateway/config-reload.ts` | recorded configuration, debounce timer, running, pending, restart queued | file event, reload, apply, restart, stop | changes during a reload; reloads that fail | the last configuration is recorded, and in effect or a restart asked for | `ConfigReload` |
| ACP sessions `src/acp/control-plane/`, keyed queue `src/plugin-sdk/keyed-async-queue.ts` | tail per key, cached runtimes, active turns, persisted state | init, turn, cancel, close, reset, options, status, evict | clean-up of the tail against a new operation; evictions that wait behind a turn | one operation per session; a turn keeps its runtime; calls return | `AcpSessions` |
| Commands `src/process/supervisor/`, `src/agents/bash-tools.*.ts` | process session, supervised run, timers, kill in progress | exec, background, time out, abort, kill, remove, clear, poll | tool calls while the process is being spawned or ends; ends that are not reported | what is alive is listed or being killed; each end is reported once, and truly | `ExecSessions` |
| Debouncing `src/auto-reply/inbound-debounce.ts` | buffer and timer per key | enqueue, flush | a message that cannot wait against a flush in progress | each message handed over once, in order | `InboundDebounce` |
| Previews `src/channels/draft-stream-loop.ts`, `src/telegram/draft-stream.ts` | pending text, send in flight, timer, generation, message | update, flush, stop, new message, clear | anything during a send in flight | the last text in the right message; nothing after a clear | `DraftStream` |
| Session store, gateway lock, de-duplication, pairing, authentication profiles | files under a lock, caches, cool-down windows | load, update; acquire; check; request, approve; mark, order | expiry at a boundary, stale lock files | as the write lock; no duplicate within the window; windows only grow while active | not modelled |

Not modelled, and not planned: the HTTP and WebSocket server (input checking
and dispatch), the agent runtime and its tools (third-party library, models,
shells, containers), the channel clients, memory, browser, media, plug-ins,
the command line, the apps, extensions and web interface, and `SafeWorkspace`.
They are input and output around the components above.

## 2. The modules

### CommandQueue

`queue`, `active`, `maxConcurrent`, `generation` are the fields of `LaneState`;
`entry` stands for the promise of each `enqueueCommandInLane` (new, queued,
running, settled or rejected) with its lane and the generation it started in;
`waiter` is the call of `waitForActiveTasks`. `EnqueueCommandInLane`, `Settle`,
`SetCommandLaneConcurrency`, `ClearCommandLane`, `MarkGatewayDraining`,
`ResetAllLanes`, `WaitForActiveTasks`, `PollDrained` and `PollTimedOut` are the
operations. Whatever starts tasks does it through `Pump`, which is `drainLane`
run to its end: it is synchronous, and its `draining` flag is FALSE again
between two stretches of the event loop.

### AgentLanes and SessionTurns

`AgentLanes` extends `CommandQueue`: a run is two of its entries, `Outer(r)` in
the lane of its session and `Inner(r)` in a global lane, and the first one holds
its slot until the second has settled. `handle` is `ACTIVE_EMBEDDED_RUNS`,
`watch` the call of `waitForEmbeddedPiRunEnd`. The drain and the reset of the
run loop are present as `BeginDrain`, `EndDrain` and `LoopStep`. `SessionTurns`
is what the lanes promise, without lanes: the runs of a session have turns, one
at a time and in the order they were asked for, in each life of the gateway
apart. `AgentLanes` instantiates it with a refinement mapping (`Turns`, with the
state of a run read off its two entries and the life off the generations), and
the run checks `ImplementsTurns == Turns!TurnsSpec`.

### GatewayRunLoop

Extends `CommandQueue`, whose state it shares: the loop marks the queue as
draining, waits for its tasks, and resets its lanes when it goes round
(`ResumeLoop` conjoins `ResetAllLanes`). `loop`, `server`, `restartResolver`,
`lock`, `shuttingDown` are the variables of `runGatewayLoop`; `shutdown` is
where the routine behind `request()` is; `pendingTimer` and `pollers` are the
restarts that `restart.ts` has scheduled or deferred. Stop and restart may be
asked for at any moment by signals, timers, pollers and the reloader.

### FollowupQueue

One session key. `queue` are the queue objects (several live at once after a
clear, because a drain keeps the one it began with), `current` the one in
`FOLLOWUP_QUEUES`, `callback` the entry of `FOLLOWUP_RUN_CALLBACKS`. `msg` says
what became of each message. `Arrive` reads `isActive`; `EnqueueFollowupRun` or
the turn comes in a later step, as in `get-reply-run.ts`. The drain is
`DebounceEnds`, `Collect` (after the routing check, with its own `await`) and
`RunEnds` or `RunFails`.

### CronService

`disk` is the store file; `svc[s]` a service with its copy of the store, its
timer, the phase of `start` and of the tick; `batch` the executions begun and
not recorded, by source (timer, startup, manual). `api` is the service that the
request handlers captured, `scheduler` the one `cronState` holds: `HotReload`
moves only the second, as the code does. Each section under the store's lock is
one step, from reading the file to writing it.

### DeliveryQueue

`file` is the entry of each delivery; `call` the call of
`deliverOutboundPayloads`, payload by payload; `recovery` the loops of
`recoverPendingDeliveries`. `failDelivery` is two steps, reading and writing.
`CrashAndRestart` loses calls and recoveries, not files; `RestartInPlace` loses
neither. `Left` are entries an earlier process left behind. What a send throws
may be an `AbortError` whether or not anybody has aborted the delivery, and the
call then ends with `ackDelivery` (`cut`). `cut`, `settled`, `replayed` and
`overlap` are history.

### SessionWriteLock

One session file, tasks of two processes. `lockFile` is the file at the lock
path, named by the task that made it; `held` and `count` are the record in
`HELD_LOCKS`; `pc` is where a task is in `acquireSessionWriteLock` (each file
operation is a step), `judged` the file it inspected. `Watchdog`, `Signal`, the
sweep at start-up, crashes and starts with a pid used before are actions.

### HeartbeatWake

`wakePending`, `wakeTimer`, `wakeScheduled`, `wakeRunning` are the module state
of `heartbeat-wake.ts`; `wakeBatches` the calls of the timer's callback that
await a handler; `hbTimer`, `hbDue`, `hbEnabled` belong to the runner. A restart
in place stops a runner and starts the next while batches go on. `owed` is the
priority asked for since the handler last answered for a target, and `unheard`
the targets whose wake-up was answered "disabled", which consumes it.

### NodeRegistry, ExecApproval, ChannelManager

One node with overlapping connections and the calls sent over them; requests
under one id with their handler, their two-phase client, timer, grace period and
the run that uses the decision; one account with its tasks, the calls of `start`
and `stop` split at their awaits, back-off and the health monitor. A stop ends
with its task, or with a `stopAccount` that throws (`HookFails`): then nobody waits
for the task and the tables keep it. What the plug-ins, nodes and operators do is
nondeterministic.

### ReplyDelivery

One turn. `pipe`, `sending` and `converting` are the block pipeline, `toolsOut`
the chain of tool results, `sendChain` and `pendingReplies` the dispatcher with
its reservation; `delivered` is what the channel got.

### SubagentRegistry

A run is one record: the fields of its entry, the announcement flow it is in,
and the timers set for it. `session`, `work` and `steering` are what is outside
the registry. `work` tells an attempt with a registered handle (`HasHandle`) from a
run that waits in its lane or is between two attempts, which the announcement does
not see. An `await` of the announcement splits a flow into `checks`,
`delivers`, and the hook; a crash loses the flows and timers and keeps the entry.

### ConfigReload, AcpSessions, ExecSessions

The reloader over one life of the gateway, from a file that is edited to what is
in effect (`live`). The ACP manager as scripts of awaited steps (`Script`), one
per operation, in the chain of the session (`tail`, `after`): an eviction is an
operation like any other, queued by a call for another session. A command with
the state that the exec tool, the process tool, the registry of sessions, the
supervisor and the operating system have of it.

### InboundDebounce, DraftStream

One key of the debouncer with the batches its handler is at. The draft loop with
the stream of Telegram's message transport: `inFlight` is the send awaited,
`stream` the generation and message edited, `chat` what is seen.

### Modules for TLC

`MCAgentLanes`, `MCCronService`, `MCDeliveryQueue`, `MCFollowupQueue` and
`MCGatewayRunLoop` give a component its instance. `MCSharedParts`,
`MCGatewayParts` and `MCProcessParts` each check several components that share
no variables in one run: a behaviour chooses a part at the start, takes the
steps of that part only, under the fairness of that part only, and the others
rest in an initial state. So the run says of each part what a run of its own
would say, and the number of states is the sum and not the product. A component
that is in two of them is checked for safety in the larger instance and for
liveness in the smaller.

Many properties are named conjunctions (`LoopInv`, `AcpInv`, `SubagentInv`,
`PartsSettle` and others): the conjuncts are definitions of their own, each with
the comment that states it. In `MCProcessParts` the liveness of all the parts is
one formula `[]<>P`, where P conjoins a predicate of each part; parts that rest
satisfy theirs from the start.

## 3. What is checked

Runs with the invariants and properties each of them checks. "Violation" runs
show a disagreement of the code with what it says of itself (section 5).

| Run | Checks | Shows |
|---|---|---|
| `MCAgentLanes.cfg` | `TypeOK` `NoIdleSlot` `SlotsMatchGeneration` `QueuedExactlyOnce` `DrainedMeansSettled` `StartsInTurn` `AgentLanesInv` `ImplementsTurns` `ToldWhenOver` | no lane keeps work queued beside a free slot; a stale completion frees no slot; no entry is lost or queued twice; a reported drain is real; caps and order are kept by every start; handles are those of attempts that go on; runs of a session take turns, as `SessionTurns` says; who waits for the end of a run is told then |
| `MCAgentLanesSplit.cfg` | violation of `OneRunPerSession` | a reset that gave up on a run lets the session's next run execute beside it |
| `MCGatewayRunLoopWedge.cfg` | violation of `ServingAccepts` | a restart during a start leaves the drain mark set |
| `MCProcessParts.cfg` | `LoopInv` `ReloadInv` `AcpInv` `DebounceInv` `ResetsAreRestarts` `CommandsAreKnown` `PreviewIsTrue` `PartsSettle` | the gateway that comes back accepts work and holds its lock, lanes are reset only between two servers; changes of the configuration are noticed and applied; one operation per ACP session, turns keep their runtime; messages are handed over once and in order; what is said of commands and shown in previews is so; and in each part nothing is left undone: shutdowns and drains end and accepted entries are run, the file is recorded, calls return, commands that must end do, messages are handed over, stops and clears return |
| `MCSharedParts.cfg` | `WriteLockInv` `FreshLocksStay` `FollowupInv` `FollowupOrder` `WakeInv` `SubagentInv` | record, holders and lock file agree, and locks in use stay; no message lost without a drop, no queue idle with work, cap and order kept; no wake-up is lost or lowered but by an answer "disabled", and the interval goes on; subagents are announced once, after their descendants, and never forgotten |
| `MCFollowupQueueOverflow.cfg` | violation of `NoMessageLost` | an overflow during a run makes its end remove a message that never ran |
| `MCCronService.cfg` | `ClaimsAreSound` `DueJobsAreKept` | one service at a time, one crash: claims are exclusive and durable, a done one-shot stays done, a timer is always set, due jobs are not put off |
| `MCCronServiceLive.cfg` | `DueJobsRun` | a due job is claimed in the end, a reload or in-place restart included |
| `MCCronServiceReload.cfg` | violation of `NoDoubleExecution` | two services after a reload execute the same job |
| `MCCronServiceCatchUp.cfg` | violation of `CatchUpSkipsNothing` | the end of `start` skips an occurrence that catch-up had preserved |
| `MCDeliveryQueue.cfg` | `DeliveryInv` `AttemptsAreDue` | no payload is left without a file at any crash, but by an `AbortError` or a `bestEffort` nobody listens to; a failed entry leaves the queue; a recovery attempts only what is due by the file |
| `MCGatewayParts.cfg` | `OneBatchUnlessRobbed` `NodeInv` `ApprovalInv` `ChannelInv` `ReplyInv` `FollowupsDrain` `WakesReachHandler` `CallsSettle` `DecisionsStand` `ChannelsSettle` `TurnsAreReleased` `EndedSettles` | what the gateway owes its clients is done in the end (queued messages, wake-ups, calls to nodes, decisions, restarts and stops of accounts, turns, announcements), and in between registries agree with what they register |

### Bounds, and why they are enough

- *Lanes*: two session lanes and the main lane, four runs (two of them
  compactions) and so eight entries, a cap of the main lane that changes between
  0 and 2, one reset, one attempt per run. A lane can be full with a waiting
  entry while another is not, a cap can shrink below its active tasks, a session
  has two runs in line, and a task can complete in the life after its own. Runs
  that differ in nothing are symmetric.
- *Run loop*: one lane, two entries, two restarts, one poller of each kind at
  a time, so that a restart can be asked for during each phase of an earlier
  one, and a poller can outlive the server it was begun for.
- *Reloader*: two edits, each to any content and mode, two retries for a
  missing file. *ACP sessions*: two, of which one is one-shot, under a limit of
  one; a turn or a status query, an operation of the same session that may come
  in its way (cancel, close, reset or a change of options), and a new session to
  be had at the limit, so that an eviction can wait behind a turn.
  *Commands*: one, with and without terminal, window and timeout.
  *Debouncing*: four messages, so that one that was held up has two to overtake
  it. *Previews*: four texts, the first of which is too short, and two messages.
- *Write lock*: three tasks, two of them reentrant in one process; the second
  process sweeps and may be started again. Two waiters may have judged the same
  file stale.
- *Followup queue*: for safety four messages with two origins, one of which
  cannot be routed, one a redelivery (which comes second); caps 1 and 2; one
  failure or one clear; two queue objects; the policies that drop (old,
  summarize). Overflow needs two messages beside the running one, a mixed batch
  two origins. For liveness three messages (two chats, and one without an origin), cap 2, one failure, one clear and
  two queue objects, under the policy that refuses (new) and the default
  (summarize), so that a drain can spin on a count of dropped messages, eat its
  head item, or outlive its queue.
- *Heartbeats*: two runners, so that a batch of the first meets the handler of
  the second. For safety a targeted session beside the general wake-up and one
  batch at a time; for liveness the general wake-up only and two batches.
  The second runner is started while a batch of the first is in progress, and the
  rest of that batch is refused.
- *Subagents*: for safety a run and the one it has spawned (the parent archived, the
  child expecting a message and deleted), with one steer or one crash; any tree is
  covered by the proof, and so are a steer and a crash together. For liveness, with
  both, one run that expects a message, whose session is deleted, whose attempts
  may fail (`Flaky`) and whose hook may throw. That a parent does not wait for ever is
  covered by the expiry of one run. Every run waits in its lane first, so in the safety
  instance a parent may be announced before it has begun and spawn the child after
  that. With larger bounds (a parent whose attempts may fail as well, a steer and a
  crash together) the same invariants were found to hold.
- *Nodes*: three connections and two calls. *Approvals*: two requests under one
  id. The first call and the first request are made first, which is a choice of names.
  *Channels*: an operator and the health monitor, two tasks alive at once, one
  restart, a hook that may throw at each stop; the configuration is not changed any
  more once a start has overlapped, when of the properties only `StopsEnd` still
  speaks. *Replies*: two texts, one tool result.
- *Cron*: two jobs (recurring and one-shot), three units of time, period 2,
  two calls and one crash; two services for the replacement runs. A unit of time
  is longer than the 60 s a timer is clamped to, so a set timer may fire at any
  time. Shorter periods would make every job due always; longer ones add
  states in which nothing happens.
- *Delivery*: a delivery of two payloads called at any time, beside one an
  earlier process left; plain, bestEffort and not written; two retries, two
  delays; one crash and one restart in place. Three loads of the directory are
  enough to fail an entry up to `MaxRetries` and to move it. With one
  `recovery` slot, an in-place restart follows the end of the recovery before;
  two concurrent recoveries were explored with smaller instances.

The runs without a liveness property use no fairness. `CHECK_DEADLOCK` is off where the process
may exit or all the messages and deliveries of the instance may be done.

### Fairness

- `LoopFairness` (in `MCProcessParts`; `GatewayRunLoop!LoopFairSpec` is the same
  without the other parts): timers fire (poll of the drain, forced exit), and a
  server's start, the release and the reacquisition of the lock end in one way
  or the other (each has a time limit or is a file operation). Nothing is
  assumed of `server.close` or of the tasks.
- Followups: turns and runs end, debounce timers fire, a message that was found
  to be queued is queued. Runs may fail, but finitely often.
- Heartbeats: the timer fires, a batch goes on. Nodes: waking ends and calls
  have a time limit; nothing is assumed of the node. Approvals: timers, and the
  promises of the handler and the client; nothing is assumed of operators.
  Channels: an account's task goes on once it is aborted or has crashed, calls
  go on. Replies: conversions and deliveries end (a delivery that fails ends).
  Subagents: flows go on, timers fire; the model's work need not end, and
  nothing is assumed of descendants.
- Reloader: the watcher reports, a reload goes on. ACP sessions: promises of the
  backend and the store settle, but a turn ends only if it is aborted, which is
  what `CallsHaveReturned` has an exception for. Commands: spawning, timers and
  the poll go on; a process dies by SIGKILL, and a terminal whose process was
  killed need not report its end, because the fallback does. Debouncing:
  timers, and the handler returns. Previews: calls of the API return.
- `CronService!FairSpec`: timers fire and sections under the lock end for every
  service, executions end (they have a time limit), the clock itself is not
  assumed to advance.

## 4. What is proved

TLC checks the instances of section 3; TLAPS proves these for every value of the
constants that satisfies the assumptions below: any number of lanes, tasks,
connections, sessions, deliveries, and so on. Each theorem is about the
component's own specification, without fairness.

| Module | Theorem | States |
|---|---|---|
| `CommandQueueProofs` | `TypeCorrect` | `Spec => []TypeOK` |
| | `NoSlotIsIdle` | `Spec => []NoIdleSlot` |
| | `SlotsAreCurrent` | `Spec => []SlotsMatchGeneration` |
| | `NoEntryIsLost` | `Spec => []QueuedExactlyOnce` |
| | `DrainIsSound` | `Spec => []DrainedMeansSettled` |
| | `StartsAreInTurn` | `Spec => StartsInTurn`, an action property |
| `AgentLanesProofs` | `LanesImplementTurns` | `LanesSpec => ImplementsTurns`, the refinement of `SessionTurns` |
| | `HandlesAreSound` | `LanesSpec => []AgentLanesInv` |
| | `WaitersAreTold` | `LanesSpec => ToldWhenOver`, an action property |
| `GatewayRunLoopProofs` | `ComesBackWorking` | `LoopSpec => []LoopInv` |
| | `LanesAreResetBetweenServers` | `LoopSpec => ResetsAreRestarts`, an action property |
| | `QueueSurvivesRestarts` | `LoopSpec => []QueueIsSound`, the queue's five invariants under the loop |
| `DeliveryQueueProofs` | `NoPayloadIsLost` | `Spec => []DeliveryInv` |
| | `AttemptsComeDue` | `Spec => AttemptsAreDue`, an action property |
| | `RepliesAreSound` | `ReplySpec => []ReplyInv` |
| `SharedFilesProofs` | `WriteLockIsSafe` | `WriteLockSpec => []WriteLockInv` |
| | `FreshLocksAreSafe` | `WriteLockSpec => FreshLocksStay`, an action property |
| | `CronIsSound` | `Spec => []ClaimsAreSound` of `CronService` |
| | `DueJobsStay` | `Spec => DueJobsAreKept` of `CronService`, an action property |
| `AcpSessionsProofs` | `SessionsAreSound` | `AcpSpec => []AcpInv` |
| | `PreviewsAreTrue` | `DraftSpec => PreviewIsTrue`, five invariants and an action property |
| `GatewayPartsProofs` | `ApprovalsAreSound` | `ApprovalSpec => []ApprovalInv` |
| | `FirstDecisionStands` | `ApprovalSpec => FirstDecisionCounts`, the safety part of `DecisionsStand` |
| | `RegistryAgrees` | `NodeSpec => []NodeInv` |
| | `NoFalseDisconnection` | `NodeSpec => RejectedWithConnection`, the safety part of `CallsSettle` |
| | `ChangesTakeEffect` | `ReloadSpec => []ReloadInv` |
| | `AccountsAreKnown` | `ChannelSpec => []ChannelInv` |
| | `SubagentsAreSound` | `SubagentSpec => []SubagentInv` |
| `MessageFlowProofs` | `MessagesAreHandedOnce` | `DebounceSpec => []DebounceInv` |
| | `WakesAreKept` | `WakeSpec => []WakeInv` |
| | `BatchesComeOneByOne` | `WakeSpec => []OneBatchUnlessRobbed` |
| | `QueuedMessagesAreKept` | `FollowupSpec => []FollowupInv` |
| | `QueuesKeepOrder` | `FollowupSpec => FollowupOrder`, the two action properties |

The assumptions are the named ones of each component's module, which TLC
evaluates in every run that extends it. They say what kind of thing a constant
is, that the sets whose elements are counted are finite, and that the marks for
"nobody" are not members. `LanesAssumption` also says that there
is a lane, `CronAssumption` that there is a service and that the clock moves. Two
say something of the code: `AcpAssumption`, that a
session is initialized by one call only, whose key has a random part
(`acp-spawn.ts:288`, `commands-acp/lifecycle.ts:272`), and `DeliveryAssumption`,
that the table of delays is not empty (`delivery-queue.ts:14`).

None of the properties is inductive by itself. Every module has an inductive
invariant, a conjunction of named parts with the reason for each in a comment;
TLC checked it on an instance before it was proved; and the proof has a
lemma for the initial states, one for each action, and one that combines them.

*Command queue.* `NoIdleSlot` needs to know that the active set of a lane is
exactly the running tasks of its generation, or a completion could free a slot
without pumping; that needs to know that no entry was started in a generation
still to come, or a reset would revive it; and that a queue holds each queued
entry exactly once needs the queue to be free of repetitions. `IInv` is their
conjunction, with the waiter's tasks accounted for. Every operation prepares
queues, active sets and generations and then pumps some lanes. So the conjuncts
are stated of plain values (`Typed`, `QueueOK`, `SlotsOK`, `BusyOK`,
`GenerationOK`), and `PumpLemma` shows that a pump of the lanes D turns values
that are `Ready` except for the free slots of D into values that are `Ready`
throughout. Each operation then has a lemma that what it prepares is `Ready` for
the lanes it pumps. `StartsInTurn` rests on the same lemmas: what a pump starts
is the head of the queue, in order, within the cap (`TurnStep`). The run of these
properties is `MCAgentLanes.cfg`, where the queue is used by `AgentLanes`. Its
steps on the queue are steps of `CommandQueue!Next`, but for `BeginDrain`, which
makes two of them, the drain mark and the wait, in one; the invariants hold there
too, since `LInv` contains `IInv` (`LanesInvariance`).

*Agent lanes.* Every step is an operation of the command queue, or leaves the queue
alone, so what `PumpLemma` says of a pump (`Serves`: it starts queued entries, leaves
the others in their order and none that stood before one it starts) carries over.
`LInv` adds to `IInv` what the nesting of the two lanes makes true: a run's second
entry exists only inside the first (`Nested`), the caps of the session lanes are
never set and all lanes are reset together (`Together`), so that two session
slots of one generation are one (`OneTurn`); and who was asked for earlier is
neither behind in the queue nor still queued when a later one has the slot
(`InOrder`). The mapping of a run's state is a function of the statuses of its two
entries (`Stage`), so a step is one of `SessionTurns` because each status goes
only where `EntryGoes` allows (`RunMoves`), and a run that begins finds what
`RunBegins` says. That the handles are exact needs `OneTurn` as well: before the first
reset two attempts of one session are one.

*Run loop.* Every step of the loop that touches the queue is an operation of it, but
for a restart, which marks the drain and begins the wait in one
(`RestartKeepsQueue`), so `IInv` carries over and `LoopIInv` contains it. What the
loop adds (`CycleInv`) ties what is held to the phase of the shutdown. The lock is
away only in the phase that takes it again (`LockIsBack`). The drain mark is that of
the restart under way, and that restart began under a server (`MarkIsOfRestart`);
a loop under a server waits on the present promise (`ServingIsArmed`), so that the
restart ends in a reset, which takes the mark back. A restart that began during a
start is the exception to both, and `EarlyRestarts` says that it is the only one;
`MCGatewayRunLoopWedge.cfg` shows what comes of it. Any number of restarts may have
been deferred, where the run has one.

*Delivery queue.* `NothingLost` alone says nothing of how far a call or a
recovery has come, so it cannot tell whether the entry may be removed. `CallOK`
and `RecoveryOK` say that what was passed was dealt with (sent, or skipped under
bestEffort), and that a recovery's list has an entry once. For
`AttemptsAreDue` what was loaded must still be what the file says: `EntriesMatch`.
This fails once two attempts at an entry overlap, so it is stated outside of the
history variable `overlap`, and `OneAttempt` and `AliveIsNotFailed` say that outside
of it nobody else is at the entry. Any number of recoveries may be alive here,
where the run has one.

*Replies.* The order of what was delivered says nothing of what is still to come, so
the invariant is about the replies the channel has got followed by those in the
dispatcher's chain (`Way`): a reply is added behind them, one is delivered without
moving, one is lost and the others close up, and of each of the three a lemma says what
it does to who is among them and ahead of whom. `InOrder` relates every two of them.
For a block that joins, those before it were sent or have failed (`PipeOK`); for a final
payload, the texts no block has brought are those it may be about, and it is the least of
them (`FinalsOK`): a later text that a block has brought shows that its own block has
failed. When the turn has ended well every text is somewhere on the way, so
an empty chain, which `DispatcherOK` demands of a dispatcher that deregisters, leaves
nothing unsaid.

*Write lock.* The three named properties are about the record, the file and the
holders; what makes them inductive is where the files come from: a task makes at
most one, in one life of its process (`OwnFile`, `UsedFilesAreOwn`, `MadeBefore`),
what is recorded was opened (`HeldFilesAreRecorded`, `LockFileWasOpened`,
`JudgedWasOpened`), and a file that is about to be reclaimed and is still at the
path is too old or its maker is gone (`JudgedIsStale`). The last is
`FreshLocksStay` before its step. That the file of whoever has lost nothing is
the one at the path (`UnlostFileIsThere`) gives `OneWriterUnlessLost`.

*Cron.* `MarkedWhileExecuting` and `ClaimedOnce` are inductive only together, and
only with what makes a claim exclusive: of the executions that still have their
marker, each finds its job enabled and marked no earlier than it was claimed, in the
file and in what the service has in memory (`MarkedIn`, `ClaimedOnceIn`), so no other
section finds the job runnable. Memory and file have the same records but for the
markers (`SameRecords`), as every section reads, changes and writes; the markers
differ between the read and the write of catch-up. `WellTimed` says of a record that
it has no next run exactly if it is disabled or a one-shot that succeeded at its
time, of which `SucceededStaysDone` is one half, and the half that says that the other
jobs have one is what makes `DueJobsAreKept` true: maintenance computes a next run
where it is missing, and it is missing for no job that is due. `SoleService` has these
three with the timer; it is stated for as long as no service was replaced, as the
properties are. TLC, asked for `SomethingWakes` with a replacement, found a
behaviour in which it fails: the service that a reload has left to the request
handlers puts back a job that was done, and nothing is set to look at it. The property
now says that it is about one service.

*ACP sessions.* `ChainIInv` is the keyed queue: the operations of a session are
in one chain by `after`, whose last element is the tail, so that only the
first runs. `RuntimeIInv` is what the one running operation may rely on:
a runtime is cached until its own session's operation closes it. The limit is a
cardinality argument: whoever creates a runtime has seen room for it, and it is
the only one (`RoomForOne`) unless `overlapped`. The proof did not go through at
first, and TLC then found the state that stood in its way: the model let a session be
initialized twice, and the second runtime replaced the one a turn was using.
The callers make a new key for each, so the module now assumes that, and the branch
of `ensureRuntimeHandle` that drops a runtime whose identity does not match is
modelled where it can be taken.

*Approvals.* An entry is found by its id and removed by its request, and two
requests may bring one id. `EntriesAreNamed` and `AskedSameId` keep the two apart,
`UsedUp` relates the record to the runs that were allowed.

*Nodes.* `OpenNodeIsRegistered` is stronger than the property: it keeps the
session registered until the close handler runs, not until the peer is gone.
That connections are made in order (`MadeInOrder`) makes "newest" stable.

*Reloader.* Either somebody will read the file again (`Coming`), or what was read
is what the file holds (`UnrecordedIsComing`, `OutdatedIsComing`); what is being
applied was recorded, and differs from what is in effect only in what can be
applied in place (`AppliesRecorded`, `InEffect`).

*Channels.* As long as no start has overlapped with another start or a stop
(`raced`), whoever starts the account is alone with it (`StartsAlone`,
`RestartsAlone`), whoever stops it awaits the task the tables name (`StopsTheTask`),
and the two tables name one task, the only one alive (`TablesAgree`). That restarts
are bounded rests on a failure behind each but one (`RestartsAreCounted`). Overlaps
or not, the failures counted beyond the last attempt are no more than the slots, as
each of them ends its task (`FailuresEndTasks`, a cardinality argument). A stop whose
hook has thrown leaves the task behind, in the tables and told to end; `StoppedStaysDown`
allows exactly that, and what the tables say is not disturbed by it.

*Subagents.* What a run's record must be for itself (`EntryOK`) holds through every
operator that makes one record of another, each with its lemma: a clean-up under way
has marked its record and has an attempt left (`WellFormed`), who was announced has
no clean-up that could announce it again (`AnnouncedOK`), and a mark is left behind by
a crash only (`MarkOK`). `HandOK` is `EndedIsInHand` with one thing more: a retry timer
is a hand only if the run is not among the resumed ones, or the timer would do nothing.
`DescendantsFirst` is about the tree: a run nobody will look at again (`PastChecks`) has no
pending descendant, and gets none unless it or one of its descendants goes on with its work.
That can happen in several ways, and `revived` records each of them. A kill settles a run
whose agent still goes on, and so does a wait that took too long; the announcement itself
tests only for a registered attempt, so that a run queued in its lane or between two
attempts is announced and then goes on; and what any of these spawns is pending under all
its ancestors, announced or not. The first the proof found and the instance could not show:
it takes three levels, where the instance of TLC has two. With the exception TLC finds no
violation with three levels either. The descendants were a recursive function, cut off at ten levels; they are now the
least set that is closed under children, so the proof is for trees of any depth.

*Debouncing.* The buffer is the last messages that came (`BufferIsLatest`), so what
is handed over is older than what is in it, and each held-up message waits for
another batch (`OneBehind`), so that none is handed over twice.

*Previews.* That the last text is shown when `stop` has returned rests on where it can
be before: it waits, is in flight or is shown (`LatestOK`), and what waits or is in
flight is later than all that is shown (`FlightOK`, `PendingOK`), so that no answer puts
an earlier text in its place. A send is taken to be needless because the text was the
last one sent; that this one is shown, and in this message, is `LastOK`. Generations only
grow along the texts (`GivenOK`), so a text given before a new message began cannot be
mistaken for one of that message. A new message finds room because the
messages before it show texts before its own (`ChatOK`). All parts are stated of plain
values, and a step is put together from one lemma about what returns and one about the
text taken next (`TakeSound`). The proof did not need the exception the action property
had, a refused text that replaces a later one: what a message shows only advances,
whatever is refused. TLC agreed, and the property now says so without it.

*Wake-ups.* `TicksUnlessMuted` is content with any batch of the live runner, but a
batch that no longer carries the wake-up of all agents may end without queueing it
again. `OwedWakesAreKept` is about what nobody has answered yet, and an answer "disabled"
is not taken for service: it puts its target in `unheard`, until the next request. `TicksOn` asks for one that carries it still. That no second batch begins
(`OneLiveBatch`) rests on numbers: the runner that starts is later than that of
any batch (`BatchOK`), so it has none when `running` is reset for it.

*Followups.* A message may be in any queue that is alive, which no step keeps by
itself: while nothing was cleared or dropped, only the object of the map is being
drained (`DrainsAreOfMap`), so it holds all that is queued (`HeldWhileQueued`).
That runs come in order rests on what holds whatever is dropped or cleared: an item
is in one queue and once (`ItemsAreOnce`), only the run of its own queue carries it
(`ItemsAreOfOneQueue`), and the items a run carries are the first of its queue
(`CarriesTheFirst`). The parts speak of a plain value for the objects (`Sound`), since a
step changes one object and then lets the scheduler settle all of them (`Settled`),
and the lemmas about the two are put together by each action.

*Only model-checked*, and why. Liveness (`PartsSettle`,
`DueJobsRun`, `WakesReachHandler`, the liveness parts of `CallsSettle` and
`DecisionsStand`, and the others of `MCGatewayParts.cfg`): fairness and `ENABLED`
are out of the prover's reach. `CommandsAreKnown`: `ExecSessions` is about
one command and has no constants and no bound, so the run goes through every state of the
specification, and a proof would say no more.

## 5. Where the code differs from what it says

Five have a run with a counterexample, listed with the quoted line in
`PROJECT.json`: a reset that gave up on a run splits its session
(`MCAgentLanesSplit.cfg`); a restart during a start wedges the gateway
(`MCGatewayRunLoopWedge.cfg`); an overflow during a followup run loses a message
(`MCFollowupQueueOverflow.cfg`); two services execute a job at the same time
(`MCCronServiceReload.cfg`); the end of `start` skips an occurrence
(`MCCronServiceCatchUp.cfg`).

The others were met while modelling. The models contain them, and the
properties above are stated with the exceptions they make necessary. Two limits of
the properties: after a reset, handles are covered by `ToldWhenOver` only
(`AgentLanesInv` speaks of the time before it), and `DrainedMeansSettled` says that a
reported drain is real, not that the wait disregards tasks that began after the call.

*Command queue and run loop*
- When the drain times out, `resetAllLanes` frees the slots of tasks that
  still run: a session's lane may then run two tasks (`docs/concepts/queue.md:20`
  promises one active run per session; see `MCAgentLanesSplit.cfg`).
- The clean-up or reset of a session does not see a run between two attempts:
  no handle is registered then (`runs.ts:141`).
- A run that queues another in a lane both need waits for itself; nothing but
  the time limits of the runs breaks such a circle (`run.ts:222`).
- Entries queued before the drain mark start during the drain window, although
  `run-loop.ts:112` speaks of turns in flight only.
- Several deferred restarts may poll at once and each emits a restart
  (`restart.ts:101` wants only one to fire).
- A start that resolves while the routine deals with the lock leaves a server that
  nothing closes (`docs/gateway/gateway-lock.md:24`).

*Followup queue*
- The end of a drain whose key was cleared deletes the new queue of the key
  (`drain.ts:167`); what was queued there waits for nothing.
- A summary run in followup mode removes the head item although its prompt was
  not in the run (`drain.ts:139`).
- With dropped messages to report and no item left, a drain is scheduled over
  and over (`drain.ts:166`); in collect mode after a change of policy it
  sends empty runs. `FollowupsDrain` excepts these three by name (`StrayDrain`,
  `overflowed`, `Spins`).
- `isActive` is read before an `await` (`get-reply-run.ts:444`): a message may be
  queued when the turn has just finalised and then waits for the next one.
- Routing is checked before an `await` and the batch built after it
  (`drain.ts:91`, `:104`): a batch may mix chats (`queue.md:31`).

*Cron*
- After a hot reload, request handlers and the close handler keep the first,
  stopped service (`server.impl.ts:725`): its stale store overwrites the file,
  its `add` and `update` arm a second scheduler, and closing stops only the old one.
  When it puts back a job that was done, nothing is set to look at it.
- `stop` during a tick does not prevent the tick's end from arming the timer.
- `start` after an in-place restart clears the markers of jobs still executing.
- An update that disables a running job clears its marker: enabled again, it runs
  twice, and the first outcome clears the second's marker. A forced run
  of a disabled job loses its marker at the next read.
- In a sequential batch of more than two hours, jobs that wait lose their marker;
  a job disabled while it waits in a batch still runs.
- `add` recomputes all jobs (`ops.ts:241`): a due one is put off.

*Delivery*
- `bestEffort` without `onError` (`deliver.ts:475`): a payload that fails is
  not noted and the entry is removed, against the comment at `deliver.ts:471`.
  Recovery never passes `onError`, so it drops such payloads too.
- Any `AbortError` counts as an abort of the delivery (`deliver.ts:497`). A Signal
  send that runs out of time throws one (`utils/fetch-timeout.ts:31`): the entry is
  removed although nobody has aborted anything and the payload was not sent.
- An abort under `bestEffort` counts as a partial failure, so the entry is
  replayed at the next start, whereas without it the entry is removed.
- A recovery loads entries whose calls are still sending, and an in-place restart
  loads those the previous recovery is working on: payloads are sent twice, and
  `failDelivery`, which reads and then writes, brings back an entry that the
  other attempt has removed or moved.
- An attempt that ends with the process is not counted, so a payload that
  makes the process crash is attempted at every start.
- Failed entries are retried only by the next start of a gateway.

*Session write lock*
- Two waiters may find the same stale file, and the second removes the file
  that the first has created since (`session-write-lock.ts:541`). The sweep at
  start-up judges a lock whose payload is not written yet without looking at its
  age and may remove it.
- Where start times cannot be read, the rule for a lock of one's own pid races
  the release of that lock; a process that starts with the pid of the dead owner
  is taken for it. The model assumes there that a pid is always used again.
- On a signal with other listeners all locks are given up while their holders go
  on; a record made late replaces that of another.

*Heartbeats*
- The batch of a runner that was stopped answers the rest of its wake-ups with
  "disabled" (`heartbeat-runner.ts:1095`): they are consumed unserved
  (`heartbeat-wake.ts:155`), so a restart in place loses wake-ups. `setHeartbeatWakeHandler` resets `running`
  (`heartbeat-wake.ts:210`), so that two batches may be in progress.
- A wake-up by the interval that finds the lane busy is retried, but then it is
  "not due" and skipped. A request during a batch arms the short timer, and the
  cool-down of a retry is not kept.
- A wake-up of the interval that comes while heartbeats are disabled returns
  before the interval timer is set again (`heartbeat-runner.ts:1101`): after
  `enable` ("turn heartbeats back on", `docs/cli/system.md:41`) nothing ticks
  until a restart or a change of the configuration.

*Approvals, nodes, channels*
- The expiry of a request nobody can decide is by id, after an `await`: it may
  hit the entry of a later request of that id. When forwarding takes longer than
  the grace period a client is told "not found" though a decision was made.
- The close of any earlier connection of a node removes its live session and
  rejects its calls (`node-registry.ts:87`).
- Two starts of an account pass the check before the `await` of `isConfigured`
  and run it twice; a stop that comes during that `await` of an automatic
  restart marks nothing and the account comes back, against
  `server-channels.ts:86` ("so we don't auto-restart them"); a start during the
  `stopAccount` hook of a stop is forgotten by the end of the stop.
- A `stopAccount` that throws makes `stopChannel` reject before it waits for the task
  and before the tables are cleared (`server-channels.ts:299`). The account stays
  marked as stopped by hand, which the health monitor respects: after a failed stop of
  the monitor nothing starts the account again (`channel-health-monitor.ts:182`).
- The health monitor resets the attempts during a back-off, which allows one
  restart more.

*Replies*
- A block whose delivery failed counts as streamed and the final payloads are
  dropped, against `agent-runner-payloads.ts:86` ("only when block streaming
  succeeded end-to-end").
- A block that was given up still reaches the dispatcher, perhaps after the
  final payloads, or after the dispatcher has been unregistered, where two of
  them make its count negative. An error reply waits for neither blocks nor tools.

*Subagents*
- With cleanup "delete" a failed delivery deletes the child's session, and the
  retry then prunes the run without announcing it, against the comment at
  `subagent-registry.ts:765`.
- An entry that a crash left `cleanupHandled` is never announced, and keeps its
  parent waiting until the hard expiry (`docs/tools/subagents.md:285` says that
  pending announcements are lost). A steer in progress at a crash leaves its
  suppression set.
- The announcement asks whether an attempt is registered (`subagent-announce.ts:1142`),
  so a run queued in its lane or between two attempts is announced while it is still
  to go on; what it spawns then was not waited for.
- A kill or a sweep during a steer is undone by the replacement; a late end event
  overwrites the outcome of a killed run; the sweeper removes runs still running;
  a run that expects no message and whose announcement failed has no timer.

*Reloader*
- In mode "hot" a change that needs a restart is ignored together with the safe
  changes made with it (`docs/gateway/configuration.md:357`: "Hot-applies safe
  changes only").
- The configuration is recorded before the reload that applies it, which may
  fail (`config-reload.ts:152`); changes made in mode "off" are recorded too and
  never applied by a later one. A change between the load at the start and the
  watcher's start is not noticed. A restart skipped because nobody listens for
  the signal leaves `restartQueued` set (`config-reload.ts:108`).

*ACP sessions and commands*
- With `acp.runtime.ttlMinutes`, a turn that takes longer than that cannot be
  cancelled: the cancel first evicts idle runtimes, the eviction is queued behind
  the turn, and every ACP call waits for it (`docs/tools/acp-agents.md:214`).
- A cancel queued while its turn starts waits behind it; the session limit is
  tested before an `await` (`manager.core.ts:1119`); options that change the
  directory drop a runtime without closing it.
- Removing a session whose process is being spawned leaves the process unlisted.
  A poll that waits brings a cleared session back and replaces its status. An
  abort after the end puts the record of the run back to "exiting" for good.
- Processes outside the process group that hold the pipes keep a child from
  closing: even a timeout then does not end the call.

*Debouncing and previews*
- A message that cannot wait, held up by the flush of the buffer, may be
  overtaken by later ones (`inbound-debounce.ts:104`).
- A refused send puts its text back over a newer one (`draft-stream-loop.ts:44`).
  "Allow final flush even if stopped" (`telegram/draft-stream.ts:222`) is not what
  the loop does. The streams of Discord and Slack have no generation, so that a
  late first send after a new message is taken for that message.

## 6. What is left out, and the plan

*Left out of the modelled components*: schedules of cron that cannot be computed
and its failure alerts; replies routed to another channel, coalescing and
buffered audio, and the retries and model fallback of a turn after it has streamed
blocks; a read of the configuration that fails although the file is good; persistent ("session") subagents and the text of announcements;
the allow lists of nodes; identity reconciliation of ACP sessions; scopes and
the no-output watchdog of the supervisor (used by command-line backends only)
and output buffers; the draft transport of Telegram and messages without id; the
typing indicators; a close of the gateway that fails half-way. Each component's
note in `PROJECT.json` has the detail.

*Not modelled*: the session store (a queue in the process over the write lock),
the gateway lock (`GatewayRunLoop` has its acquire and release; its file follows
rules like those of the write lock), de-duplication, pairing and authentication
profiles. These are sequential code over a file or a cache: what is hard there is
arithmetic at a boundary, not order. The other components are input and output.

Next, in this order:

1. `AuthCooldown` and the de-duplication cache as pure operators against
   reference definitions; the file of the gateway lock composed with the run loop.
2. The remaining hazard without a property: several deferred restarts poll for
   the same idle moment and each emits one (`infra/restart.ts:219`). The model
   has them; the code does not prevent it.
