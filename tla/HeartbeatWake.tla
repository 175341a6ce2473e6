--------------------------- MODULE HeartbeatWake ---------------------------
(***************************************************************************)
(* Heartbeats: the requests to wake an agent, coalesced under one timer    *)
(* (Openclaw-Docker/src/infra/heartbeat-wake.ts), and the runner that      *)
(* serves them and asks for one each time its interval is over             *)
(* (startHeartbeatRunner in infra/heartbeat-runner.ts).                    *)
(*                                                                         *)
(* A runner belongs to one life of the gateway: a restart in place stops   *)
(* it, then starts the next one, while the module state of the wake-ups    *)
(* and the handler calls in flight remain.  Runners are numbered as they   *)
(* start; what is kept of one is kept until the next starts.  A            *)
(* configuration has one agent with a heartbeat, or none.  The targets of  *)
(* a batch are served in some order; what runHeartbeatOnce does is the     *)
(* choice of its result.  A timer that is asked for while another is armed *)
(* would fire later than that one.                                         *)
(***************************************************************************)
EXTENDS Naturals, FiniteSets, Sequences, SequencesExt

CONSTANTS
  Sessions,        \* the sessions a wake-up may be targeted at
  Priorities,      \* the priorities of requested wake-ups
  MaxRunners,      \* bound: lives of the gateway
  MaxBatches,      \* bound: batches being served at once
  MaxTroubles      \* bound: results "requests-in-flight" and handlers that throw

ASSUME WakeAssumption ==
  /\ Priorities \subseteq {2, 3} /\ "all" \notin Sessions
  /\ {MaxRunners, MaxBatches, MaxTroubles} \subseteq Nat

VARIABLES
  wakeHandler,     \* the runner whose handler is registered, 0 if none
  wakePending,     \* target -> the priority of its pending wake-up, 0 if none
  wakeTimer,       \* "off", or the kind of the armed timer
  wakeScheduled,
  wakeRunning,
  wakeBatches,     \* the batches being served, in no particular order
  hbStarted,       \* runners started so far
  hbEnabled,       \* heartbeatsEnabled
  hbAgents,        \* the configuration of the live runner has an agent with a heartbeat
  hbTimer,         \* its interval timer is armed
  hbDue,           \* the interval of its agent is over
  hbTroubles,      \* results "requests-in-flight" and throws so far
  owed,            \* target -> the highest priority it is owed a call for (history)
  unheard,         \* targets whose last wake-up was answered "disabled" (history)
  muted,           \* it skipped a wake-up because heartbeats were off, and has not
                   \* armed its timer since (history)
  robbed           \* the batch of an earlier runner has ended during one of the
                   \* live runner and reset `running' (history)

wakeQueueVars == <<wakeHandler, wakePending, wakeTimer, wakeScheduled, wakeRunning>>
runnerVars == <<hbStarted, hbEnabled, hbAgents, hbTimer, hbDue, muted>>
owedVars == <<owed, unheard>>
wakeVars == <<wakeQueueVars, wakeBatches, runnerVars, hbTroubles, owedVars, robbed>>

Interval == 1
Targets == Sessions \cup {"all"}
Runners == 1..MaxRunners
AnyPending(pending) == \E k \in Targets : pending[k] # 0
Higher(p, q) == IF p >= q THEN p ELSE q

\* queuePendingWakeReason: the higher priority stays, the later of two equal ones.
Merge(k, p) == [wakePending EXCEPT ![k] = Higher(@, p)]

\* schedule: an armed timer is kept.
Scheduled(timer, kind) == IF timer = "off" THEN kind ELSE timer

\* r is the runner that has been started and not stopped.
Live(r) == r = wakeHandler

LiveBatches == {i \in DOMAIN wakeBatches : Live(wakeBatches[i].runner)}

\* Mutant: the timer is armed at the start only.
ScheduleNextNot(r) == UNCHANGED <<hbTimer, muted>>

\* scheduleNext: nothing when the runner is stopped.
ScheduleNext(r) ==
  /\ hbTimer' = IF Live(r) THEN hbAgents ELSE hbTimer
  /\ muted' = (muted /\ ~Live(r))

\* advanceAgentSchedule
Advance(r) == hbDue' = (hbDue /\ ~Live(r))

-----------------------------------------------------------------------------
(* Requests *)

RequestHeartbeat(k, p) ==
  /\ wakePending' = Merge(k, p)
  /\ wakeTimer' = Scheduled(wakeTimer, "normal")
  /\ owed' = [owed EXCEPT ![k] = IF k \in unheard THEN p ELSE Higher(@, p)]
  /\ unheard' = unheard \ {k}

RequestHeartbeatNow(k, p) ==
  /\ RequestHeartbeat(k, p)
  /\ UNCHANGED <<wakeHandler, wakeScheduled, wakeRunning, wakeBatches, runnerVars, hbTroubles, robbed>>

IntervalFires ==
  /\ hbTimer
  /\ hbTimer' = FALSE /\ hbDue' = TRUE
  /\ RequestHeartbeat("all", Interval)
  /\ UNCHANGED <<wakeHandler, wakeScheduled, wakeRunning, wakeBatches, hbStarted, hbEnabled,
                 hbAgents, muted, hbTroubles, robbed>>

-----------------------------------------------------------------------------
(* The batch *)

\* How the call of the handler of r for target k begins: everything up to its first
\* await is decided then.
CallOf(r, k, p) ==
  CASE ~Live(r) -> "stopped"
    [] Live(r) /\ ~(hbEnabled /\ hbAgents) -> "disabled"
    [] OTHER -> IF k = "all" /\ p = Interval /\ ~hbDue THEN "undue" ELSE "runs"

\* Mutant: a target that is served is not taken from the batch.
NextCallAgain(b) ==
  {[b EXCEPT !.cur = k, !.how = CallOf(b.runner, k, b.all[k])] : k \in b.todo}

\* The batch b goes on to one of the targets it has left.
NextCall(b) ==
  {[b EXCEPT !.cur = k, !.todo = @ \ {k}, !.how = CallOf(b.runner, k, b.all[k])] : k \in b.todo}

\* Mutant: a timer that fires while a batch is being served starts another one.
FireAnyway ==
  /\ wakeTimer # "off" /\ wakeHandler # 0
  /\ AnyPending(wakePending) /\ Len(wakeBatches) < MaxBatches
  /\ wakeTimer' = "off" /\ wakeScheduled' = FALSE /\ wakeRunning' = TRUE
  /\ wakePending' = [k \in Targets |-> 0]
  /\ \E b \in NextCall([runner |-> wakeHandler, all |-> wakePending, cur |-> "all", how |-> "runs",
                        todo |-> {k \in Targets : wakePending[k] # 0}]) :
       wakeBatches' = Append(wakeBatches, b)
  /\ UNCHANGED <<wakeHandler, runnerVars, hbTroubles, owedVars, robbed>>

Fire ==
  /\ wakeTimer # "off"
  /\ \/ /\ wakeHandler = 0
        /\ wakeTimer' = "off" /\ wakeScheduled' = FALSE
        /\ UNCHANGED <<wakePending, wakeRunning, wakeBatches>>
     \/ /\ wakeHandler # 0 /\ wakeRunning
        /\ wakeScheduled' = TRUE
        /\ UNCHANGED <<wakeTimer, wakePending, wakeRunning, wakeBatches>>
     \/ /\ wakeHandler # 0 /\ ~wakeRunning /\ ~AnyPending(wakePending)
        /\ wakeTimer' = "off" /\ wakeScheduled' = FALSE
        /\ UNCHANGED <<wakePending, wakeRunning, wakeBatches>>
     \/ /\ wakeHandler # 0 /\ ~wakeRunning /\ AnyPending(wakePending)
        /\ Len(wakeBatches) < MaxBatches
        /\ wakeTimer' = "off" /\ wakeScheduled' = FALSE /\ wakeRunning' = TRUE
        /\ wakePending' = [k \in Targets |-> 0]
        /\ \E b \in NextCall([runner |-> wakeHandler, all |-> wakePending, cur |-> "all",
                              how |-> "runs", todo |-> {k \in Targets : wakePending[k] # 0}]) :
             wakeBatches' = Append(wakeBatches, b)
  /\ UNCHANGED <<wakeHandler, runnerVars, hbTroubles, owedVars, robbed>>

\* The finally block of batch i, when pending wake-ups and timer are as given.
BatchEnds(i, pending, timer) ==
  /\ wakeBatches' = RemoveAt(wakeBatches, i)
  /\ wakeRunning' = FALSE
  /\ robbed' = (robbed \/ (~Live(wakeBatches[i].runner) /\ LiveBatches # {}))
  /\ wakeTimer' = IF AnyPending(pending) \/ wakeScheduled THEN Scheduled(timer, "normal") ELSE timer

GoOn(i, pending, timer) ==
  \/ wakeBatches[i].todo = {} /\ BatchEnds(i, pending, timer)
  \/ /\ \E b \in NextCall(wakeBatches[i]) : wakeBatches' = [wakeBatches EXCEPT ![i] = b]
     /\ wakeTimer' = timer
     /\ UNCHANGED <<wakeRunning, robbed>>

\* What is owed to k after its call: what has been asked for meanwhile.
Answered(k) ==
  /\ owed' = [owed EXCEPT ![k] = wakePending[k]]
  /\ UNCHANGED unheard

\* k is answered "disabled": nobody has looked at its wake-up, and it is consumed.
Refused(k) ==
  IF wakePending[k] # 0
  THEN Answered(k)
  ELSE unheard' = unheard \cup {k} /\ UNCHANGED owed

\* The handler has refused, found nothing due, or run; a run finds that the agent has
\* no heartbeat, or has it done or skipped for a reason of its own.
CallDone(i) ==
  LET b == wakeBatches[i] IN
  /\ GoOn(i, wakePending, wakeTimer)
  /\ \/ /\ b.how = "stopped"
        /\ Refused(b.cur)
        /\ UNCHANGED <<hbTimer, hbDue, muted>>
     \/ /\ b.how = "disabled"
        /\ Refused(b.cur)
        /\ muted' = (muted \/ Live(b.runner))
        /\ UNCHANGED <<hbTimer, hbDue>>
     \/ /\ b.how = "undue"
        /\ Answered(b.cur)
        /\ ScheduleNext(b.runner)
        /\ UNCHANGED hbDue
     \/ /\ b.how = "runs"
        /\ \/ Refused(b.cur) /\ UNCHANGED hbDue
           \/ Answered(b.cur) /\ Advance(b.runner)
        /\ ScheduleNext(b.runner)
  /\ UNCHANGED <<wakeHandler, wakePending, wakeScheduled, hbStarted, hbEnabled,
                 hbAgents, hbTroubles>>

\* Mutant: the wake-up of a busy lane is not queued again.
BusyForgotten(i) ==
  LET b == wakeBatches[i] IN
  /\ b.how = "runs" /\ hbTroubles < MaxTroubles
  /\ GoOn(i, wakePending, Scheduled(wakeTimer, "retry"))
  /\ Advance(b.runner)
  /\ ScheduleNext(b.runner)
  /\ hbTroubles' = hbTroubles + 1
  /\ UNCHANGED <<wakeHandler, wakePending, wakeScheduled, hbStarted, hbEnabled,
                 hbAgents, owedVars>>

\* The main lane has requests in flight: the target is retried.
LaneBusy(i) ==
  LET b == wakeBatches[i]
      pending == Merge(b.cur, b.all[b.cur]) IN
  /\ b.how = "runs" /\ hbTroubles < MaxTroubles
  /\ wakePending' = pending
  /\ GoOn(i, pending, Scheduled(wakeTimer, "retry"))
  /\ Advance(b.runner)
  /\ ScheduleNext(b.runner)
  /\ hbTroubles' = hbTroubles + 1
  /\ UNCHANGED <<wakeHandler, wakeScheduled, hbStarted, hbEnabled, hbAgents, owedVars>>

\* The handler throws: the whole batch is retried.
Throws(i) ==
  LET b == wakeBatches[i]
      pending == [k \in Targets |-> Higher(wakePending[k], b.all[k])] IN
  /\ b.how = "runs" /\ hbTroubles < MaxTroubles
  /\ wakePending' = pending
  /\ BatchEnds(i, pending, Scheduled(wakeTimer, "retry"))
  /\ hbTroubles' = hbTroubles + 1
  /\ UNCHANGED <<wakeHandler, wakeScheduled, runnerVars, owedVars>>

-----------------------------------------------------------------------------
(* Runners *)

\* A runner starts: its handler is registered, its agents are due an interval later.
Register ==
  /\ wakeHandler = 0 /\ hbStarted < MaxRunners
  /\ hbStarted' = hbStarted + 1
  /\ wakeHandler' = hbStarted + 1
  /\ wakeScheduled' = FALSE
  /\ \E some \in BOOLEAN : hbAgents' = some /\ hbTimer' = some
  /\ hbDue' = FALSE /\ muted' = FALSE /\ robbed' = FALSE
  /\ UNCHANGED <<wakePending, wakeBatches, hbEnabled, hbTroubles, owedVars>>

\* Mutant: wake-ups that wait for a handler are not scheduled.
StartRunnerUnscheduled ==
  /\ Register
  /\ wakeTimer' = "off" /\ wakeRunning' = FALSE

\* startHeartbeatRunner, setHeartbeatWakeHandler: timer and marks of the last life go.
StartRunner ==
  /\ Register
  /\ wakeTimer' = IF AnyPending(wakePending) THEN "normal" ELSE "off"
  /\ wakeRunning' = FALSE

StopRunner ==
  /\ wakeHandler # 0
  /\ wakeHandler' = 0
  /\ hbTimer' = FALSE /\ hbDue' = FALSE /\ hbAgents' = FALSE /\ muted' = FALSE /\ robbed' = FALSE
  /\ UNCHANGED <<wakePending, wakeTimer, wakeScheduled, wakeRunning, wakeBatches, hbStarted,
                 hbEnabled, hbTroubles, owedVars>>

\* A reload of the configuration.
UpdateConfig(some) ==
  /\ wakeHandler # 0
  /\ hbAgents' = some /\ hbTimer' = some
  /\ hbDue' = (some /\ hbDue)
  /\ muted' = FALSE
  /\ UNCHANGED <<wakeQueueVars, wakeBatches, hbStarted, hbEnabled, hbTroubles, owedVars, robbed>>

\* system heartbeat enable, system heartbeat disable
SetHeartbeatsEnabled(enabled) ==
  /\ hbEnabled' = enabled
  /\ UNCHANGED <<wakeQueueVars, wakeBatches, hbStarted, hbAgents, hbTimer, hbDue, muted,
                 hbTroubles, owedVars, robbed>>

-----------------------------------------------------------------------------
WakeInit ==
  /\ wakeHandler = 0
  /\ wakePending = [k \in Targets |-> 0]
  /\ wakeTimer = "off" /\ wakeScheduled = FALSE /\ wakeRunning = FALSE
  /\ wakeBatches = <<>>
  /\ hbStarted = 0 /\ hbEnabled = TRUE
  /\ hbAgents = FALSE /\ hbTimer = FALSE /\ hbDue = FALSE /\ muted = FALSE /\ robbed = FALSE
  /\ hbTroubles = 0
  /\ owed = [k \in Targets |-> 0] /\ unheard = {}

BatchStep == \E i \in DOMAIN wakeBatches : CallDone(i) \/ LaneBusy(i) \/ Throws(i)

WakeNext ==
  \/ \E k \in Targets, p \in Priorities : RequestHeartbeatNow(k, p)
  \/ IntervalFires \/ Fire \/ BatchStep
  \/ StartRunner \/ StopRunner
  \/ \E b \in BOOLEAN : UpdateConfig(b) \/ SetHeartbeatsEnabled(b)

WakeSpec == WakeInit /\ [][WakeNext]_wakeVars

\* A timer that is armed fires, a call of the handler ends.
WakeFairness == WF_wakeVars(Fire) /\ WF_wakeVars(BatchStep)
WakeFairSpec == WakeSpec /\ WakeFairness

-----------------------------------------------------------------------------
(* Properties *)

Levels == {0, Interval} \cup Priorities
\* The shapes of the state.
WakeTypeOK ==
  /\ wakeHandler \in {0, hbStarted} /\ hbStarted \in 0..MaxRunners
  /\ wakePending \in [Targets -> Levels]
  /\ wakeTimer \in {"off", "normal", "retry"}
  /\ {wakeScheduled, wakeRunning, hbEnabled, hbAgents, hbTimer, hbDue, muted, robbed} \subseteq BOOLEAN
  /\ wakeBatches \in Seq([runner : Runners, all : [Targets -> Levels], cur : Targets,
                          how : {"stopped", "disabled", "undue", "runs"}, todo : SUBSET Targets])
  /\ Len(wakeBatches) <= MaxBatches
  /\ \A i \in DOMAIN wakeBatches : wakeBatches[i].cur \notin wakeBatches[i].todo
  /\ hbTroubles \in 0..MaxTroubles
  /\ owed \in [Targets -> Levels] /\ unheard \subseteq Targets

Carries(b, k) == b.cur = k \/ k \in b.todo

\* A wake-up that was asked for and that nobody has answered yet is pending or in the
\* hands of a batch, with at least the priority it was asked for: neither coalescing, a
\* busy lane, a handler that throws nor a start of the next runner loses it or lowers
\* its reason.  What an answer "disabled" consumes is excepted: a runner that was
\* stopped gives it to the rest of its batch, so that a restart does lose wake-ups
\* (heartbeat-runner.ts:1095, heartbeat-wake.ts:155), and a live one while heartbeats
\* are off or the target's agent has none.
OwedWakesAreKept ==
  \A k \in Targets : owed[k] # 0 /\ k \notin unheard =>
    \/ wakePending[k] >= owed[k]
    \/ \E i \in DOMAIN wakeBatches : Carries(wakeBatches[i], k) /\ wakeBatches[i].all[k] >= owed[k]

\* The heartbeat of a runner goes on: its timer is armed or the wake-up the timer has
\* asked for is under way, unless heartbeats were off when it came.
TicksUnlessMuted ==
  wakeHandler # 0 /\ hbAgents /\ ~muted =>
    \/ hbTimer
    \/ wakePending["all"] # 0
    \/ LiveBatches # {}

\* The handler of the live runner serves one batch at a time, and nothing else may
\* start one, unless the batch of an earlier runner has ended meanwhile and reset
\* `running' (heartbeat-wake.ts:177).
OneBatchUnlessRobbed ==
  ~robbed => Cardinality(LiveBatches) <= 1 /\ (LiveBatches # {} => wakeRunning)

\* A pending wake-up reaches the handler, whatever the order of ends of batches, of
\* stops and starts, as long as there is a handler.
WakesReachHandler ==
  \A k \in Targets :
    wakePending[k] # 0 ~>
      \/ \E i \in DOMAIN wakeBatches : Carries(wakeBatches[i], k)
      \/ wakeHandler = 0

\* A wake-up that was asked for and a heartbeat that is due both have a timer, or a
\* batch at work, that sees to them.
WakeInv == WakeTypeOK /\ OwedWakesAreKept /\ TicksUnlessMuted
=============================================================================
