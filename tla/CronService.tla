----------------------------- MODULE CronService -----------------------------
(***************************************************************************)
(* The cron scheduler (Openclaw-Docker/src/cron/service/): jobs in one     *)
(* store file, and the services of a gateway process that work on it.      *)
(*                                                                         *)
(* A process builds a service when it starts and another when the cron     *)
(* configuration is reloaded or the gateway restarts in place; each keeps  *)
(* the store in memory, a timer, and the executions it has begun.  A       *)
(* section that runs under the lock of the store (locked.ts) is one step,  *)
(* the reading of the file before it and the writing after it included;    *)
(* executions run outside the lock.                                        *)
(*                                                                         *)
(* Abstractions: what a job does is its result; time is counted in units   *)
(* longer than the 60 s a timer is clamped to, so a timer that is set may  *)
(* fire at any time; the back-off after an error has one length; schedules *)
(* always compute; the cron expression of a job is a period and a job      *)
(* keeps its kind when it is edited; the store order of jobs is left out.  *)
(***************************************************************************)
EXTENDS Integers, FiniteSets, Functions

CONSTANTS
  Services,        \* services of the gateway
  Jobs,            \* job ids
  Stored,          \* those in the store to begin with
  Kind,            \* the kind of schedule of a job: "at", "every" or "cron"
  DeleteAfterRun,  \* the one-shot jobs deleted when they have run
  Period,          \* period of recurring jobs
  Backoff,         \* delay after an error
  MinGap,          \* MIN_REFIRE_GAP_MS
  StuckAfter,      \* STUCK_RUN_MS
  MaxRetries,      \* DEFAULT_MAX_TRANSIENT_RETRIES
  MaxConcurrent,   \* cron.maxConcurrentRuns
  Results,         \* outcomes of an execution
  MaxTime,         \* bound: the clock
  MaxCalls,        \* bound: add, update, remove and run calls
  MaxReplacements, \* bound: services built after the first in a process
  MaxCrashes       \* bound: crashes of the process

ASSUME CronAssumption ==
  /\ Services # {}
  /\ Stored \subseteq Jobs
  /\ DeleteAfterRun \subseteq Jobs
  /\ Kind \in [Jobs -> {"at", "every", "cron"}]
  /\ {Period, MinGap, MaxConcurrent, MaxTime} \subseteq Nat \ {0}
  /\ {Backoff, StuckAfter, MaxRetries} \subseteq Nat
  /\ {MaxCalls, MaxReplacements, MaxCrashes} \subseteq Nat
  /\ Results \subseteq {"ok", "skipped", "transient", "permanent"}

VARIABLES
  now,          \* the clock
  disk,         \* the store file
  fresh,        \* ids not used yet
  svc,          \* the services
  batch,        \* the executions each service has begun and not recorded
  api,          \* the service the request handlers and the close handler hold
  scheduler,    \* the service cronState holds
  calls, replacements, crashes   \* counters for the bounds

vars == <<now, disk, fresh, svc, batch, api, scheduler, calls, replacements, crashes>>

NoTime == -1
Sources == {"timer", "startup", "manual"}
Nothing == [j \in {} |-> 0]

\* A service that is not built.  phase is where start is; tick where onTimer is
\* (state.running when not idle); owns: the jobs a tick claimed are still objects
\* of the store in memory; kept: jobs that became due during catch-up (history).
Off == [phase |-> "off", store |-> Nothing, timer |-> FALSE, tick |-> "idle",
        owns |-> FALSE, interrupted |-> {}, kept |-> {}]
NoRuns == [by \in Sources |-> Nothing]

\* What to put in the store for a job: at is the time of a one-shot and the
\* anchor of an interval.
NewJob(j, at, enabled) ==
  [at |-> at, enabled |-> enabled, next |-> NoTime, running |-> NoTime,
   last |-> NoTime, status |-> "none", errors |-> 0]

-----------------------------------------------------------------------------
(* Schedules *)

Larger(a, b) == IF a >= b THEN a ELSE b

\* computeNextRunAtMs of an interval: the first multiple after the anchor that is
\* not before t.
NextOfEvery(anchor, t) ==
  IF t < anchor
  THEN anchor
  ELSE anchor + Larger(1, (t - anchor + Period - 1) \div Period) * Period

\* The next multiple of the period after t.
NextOfCron(t) == (t \div Period + 1) * Period

\* Mutant: a one-shot that has succeeded is given its time again.
NextRunAgain(j, r, t) ==
  CASE Kind[j] = "every" -> NextOfEvery(r.at, t)
    [] Kind[j] = "at" -> r.at
    [] Kind[j] = "cron" -> NextOfCron(t)

\* computeJobNextRunAtMs(job, t) of an enabled job.
NextRun(j, r, t) ==
  CASE Kind[j] = "every" ->
         IF r.last # NoTime /\ r.last + Period > t
         THEN r.last + Period
         ELSE NextOfEvery(r.at, t)
    [] Kind[j] = "at" ->
         IF r.status = "ok" /\ r.at <= r.last THEN NoTime ELSE r.at
    [] Kind[j] = "cron" -> NextOfCron(t)

\* computeJobNextRunAtMs
ComputeNext(j, r, t) == IF r.enabled THEN NextRun(j, r, t) ELSE NoTime

\* normalizeJobTickState
Normalized(r) ==
  IF ~r.enabled
  THEN [r EXCEPT !.next = NoTime, !.running = NoTime]
  ELSE IF r.running # NoTime /\ now - r.running > StuckAfter
       THEN [r EXCEPT !.running = NoTime]
       ELSE r

\* What walkSchedulableJobs does of every job, and of the jobs J besides.
Walked(S) == [j \in DOMAIN S |-> Normalized(S[j])]
Recomputed(S, J) ==
  [j \in DOMAIN S |->
    IF j \in J THEN [S[j] EXCEPT !.next = ComputeNext(j, S[j], now)] ELSE S[j]]

\* recomputeNextRuns: what is due or missing.
RecomputeNextRuns(S) ==
  LET N == Walked(S) IN Recomputed(N, {j \in DOMAIN N : N[j].next <= now})

\* Mutant: maintenance recomputes what is due.
RecomputeAll(S) == RecomputeNextRuns(S)

Missing(r) == r.next = NoTime

\* recomputeNextRunsForMaintenance: what is missing.
RecomputeForMaintenance(S) ==
  LET N == Walked(S) IN Recomputed(N, {j \in DOMAIN N : Missing(N[j])})

\* Mutant: the marker is not looked at.
RunnableTwice(r) == r.enabled /\ r.next # NoTime /\ r.next <= now

\* isRunnableJob, without the options of startup.
Runnable(r) == r.enabled /\ r.running = NoTime /\ r.next # NoTime /\ r.next <= now

\* isRunnableJob with skipAtIfAlreadyRan: a one-shot that has run is due only for
\* a retry.
Missed(j, r) ==
  /\ Runnable(r)
  /\ Kind[j] = "at" /\ r.status # "none" => r.status = "error" /\ r.next > r.last

\* nextWakeAtMs has a value: armTimer sets the timer.
Wakes(S) == \E j \in DOMAIN S : S[j].enabled /\ S[j].next # NoTime

\* Mutant: the marker is not set.
MarkNothing(S, J) == S

Mark(S, J) == [j \in DOMAIN S |-> IF j \in J THEN [S[j] EXCEPT !.running = now] ELSE S[j]]

-----------------------------------------------------------------------------
(* The outcome of an execution *)

Status(result) == IF result \in {"transient", "permanent"} THEN "error" ELSE result

\* The next run applyJobResult gives an enabled recurring job that ended at t.
NextAfter(j, r, t) ==
  CASE r.status = "error" -> Larger(NextRun(j, r, t), t + Backoff)
    [] r.status # "error" /\ Kind[j] = "cron" -> Larger(NextRun(j, r, t), t + MinGap)
    [] OTHER -> NextRun(j, r, t)

\* applyJobResult: the job r after the execution x, unless it is deleted.
ApplyJobResult(j, r, x) ==
  LET status == Status(x.result)
      errors == IF status = "error" THEN r.errors + 1 ELSE 0
      ran == [r EXCEPT !.running = NoTime, !.last = x.started, !.status = status,
                       \* counted no further than the comparison below reads it
                       !.errors = IF errors > MaxRetries THEN MaxRetries + 1 ELSE errors]
  IN  CASE Kind[j] = "at" /\ x.result = "transient" /\ errors <= MaxRetries ->
             [ran EXCEPT !.next = x.ended + Backoff]
        [] Kind[j] = "at" /\ ~(x.result = "transient" /\ errors <= MaxRetries) ->
             [ran EXCEPT !.enabled = FALSE, !.next = NoTime]
        [] Kind[j] # "at" ->
             [ran EXCEPT !.next = IF r.enabled THEN NextAfter(j, ran, x.ended) ELSE NoTime]

\* shouldDelete
Deleted(j, x) == Kind[j] = "at" /\ j \in DeleteAfterRun /\ x.result = "ok"

\* The store S with the executions X recorded: applyOutcomeToStoredJob for each.
Recorded(S, X) ==
  [j \in {i \in DOMAIN S : i \in DOMAIN X => ~Deleted(i, X[i])} |->
     IF j \in DOMAIN X THEN ApplyJobResult(j, S[j], X[j]) ELSE S[j]]

-----------------------------------------------------------------------------
(* Steps under the lock.  The first section of start reads the file, and is
   the first of its service to get the lock: ensureLoaded reads it again only
   where the code forces it. *)

\* persist, and what becomes of the service.
Persist(s, S, service) ==
  /\ disk' = S
  /\ svc' = [svc EXCEPT ![s] = [service EXCEPT !.store = S]]

\* persist, and armTimer.
PersistAndArm(s, S, service) == Persist(s, S, [service EXCEPT !.timer = Wakes(S)])


\* A job claimed for execution; released tells that its marker is cleared by
\* something else than its outcome: the job is or was disabled or removed, or the
\* outcome of another execution of the job was recorded (history).
Claimed == [st |-> "pending", claimed |-> now, started |-> NoTime, ended |-> NoTime,
            result |-> "none", released |-> FALSE]
Claim(s, by, J) == batch' = [batch EXCEPT ![s][by] = [j \in J |-> Claimed]]
Executed(s, by) == \A j \in DOMAIN batch[s][by] : batch[s][by][j].st = "done"
Executing(s, by) == {j \in DOMAIN batch[s][by] : batch[s][by][j].st = "running"}

\* The executions B, those of J having lost their marker.
Released(B, J) ==
  [s \in Services |-> [by \in Sources |->
    [j \in DOMAIN B[s][by] |-> [B[s][by][j] EXCEPT !.released = @ \/ j \in J]]]]
Release(j) == batch' = Released(batch, {j})

\* The executions are recorded, which clears the marker of others of their jobs.
Forget(s, by) ==
  batch' = Released([batch EXCEPT ![s][by] = Nothing], DOMAIN batch[s][by])

bounds == <<calls, replacements, crashes>>
outside == <<now, fresh, api, scheduler, bounds>>

-----------------------------------------------------------------------------
(* The timer *)

\* The timer fires: onTimer up to its first section.  While a tick is running the
\* timer is only set again, which changes nothing here.
OnTimer(s) ==
  /\ svc[s].timer
  /\ svc[s].tick = "idle"
  /\ svc' = [svc EXCEPT ![s].tick = "collect"]
  /\ UNCHANGED <<disk, batch, outside>>

\* The first section of onTimer.
CollectDueJobs(s) ==
  LET due == {j \in DOMAIN disk : Runnable(disk[j])}
  IN  /\ svc[s].tick = "collect"
      /\ IF due = {}
         THEN /\ Persist(s, RecomputeForMaintenance(disk),
                         [svc[s] EXCEPT !.tick = "finally", !.owns = FALSE])
              /\ UNCHANGED batch
         ELSE /\ Persist(s, Mark(disk, due), [svc[s] EXCEPT !.tick = "run", !.owns = TRUE])
              /\ Claim(s, "timer", due)
      /\ UNCHANGED outside

\* runDueJob begins: a worker takes the next job of the batch.
RunDueJob(s, j) ==
  /\ j \in DOMAIN batch[s]["timer"]
  /\ batch[s]["timer"][j].st = "pending"
  /\ Cardinality(Executing(s, "timer")) < MaxConcurrent
  /\ batch' = [batch EXCEPT ![s]["timer"][j] = [@ EXCEPT !.st = "running", !.started = now]]
  /\ svc' = IF svc[s].owns /\ j \in DOMAIN svc[s].store
            THEN [svc EXCEPT ![s].store[j].running = now]
            ELSE svc
  /\ UNCHANGED <<disk, outside>>

\* executeJobCoreWithTimeout settles.
ExecutionEnds(s, by, j) ==
  /\ j \in Executing(s, by)
  /\ \E result \in Results :
       batch' = [batch EXCEPT ![s][by][j] =
                   [@ EXCEPT !.st = "done", !.ended = now, !.result = result]]
  /\ UNCHANGED <<disk, svc, outside>>

\* The second section of onTimer.
RecordDueJobs(s) ==
  /\ svc[s].tick = "run"
  /\ Executed(s, "timer")
  /\ Persist(s, RecomputeForMaintenance(Recorded(disk, batch[s]["timer"])),
             [svc[s] EXCEPT !.tick = "finally", !.owns = FALSE])
  /\ Forget(s, "timer")
  /\ UNCHANGED outside

\* Mutant: state.running is not reset.
EndTickRunning(s) ==
  /\ svc[s].tick = "finally"
  /\ svc' = [svc EXCEPT ![s].timer = Wakes(svc[s].store)]
  /\ UNCHANGED <<disk, batch, outside>>

\* The finally block of onTimer.
EndTick(s) ==
  /\ svc[s].tick = "finally"
  /\ svc' = [svc EXCEPT ![s].tick = "idle", ![s].timer = Wakes(svc[s].store)]
  /\ UNCHANGED <<disk, batch, outside>>

-----------------------------------------------------------------------------
(* Start *)

\* The first section of start: the markers a former process left.
ClearMarkers(s) ==
  LET marked == {j \in DOMAIN disk : disk[j].running # NoTime}
  IN  /\ svc[s].phase = "clear"
      /\ Persist(s, [j \in DOMAIN disk |-> [disk[j] EXCEPT !.running = NoTime]],
                 [svc[s] EXCEPT !.phase = "collect", !.interrupted = marked])
      /\ UNCHANGED <<batch, outside>>

\* Mutant: no early return when nothing was missed.
CollectMissedAlways(s) ==
  LET missed == {j \in DOMAIN svc[s].store \ svc[s].interrupted : Missed(j, svc[s].store[j])}
  IN  /\ svc[s].phase = "collect"
      /\ Persist(s, Mark(svc[s].store, missed), [svc[s] EXCEPT !.phase = "catchup"])
      /\ Claim(s, "startup", missed)
      /\ UNCHANGED outside

\* The first section of runMissedJobs.
CollectMissedJobs(s) ==
  LET S == svc[s].store
      missed == {j \in DOMAIN S \ svc[s].interrupted : Missed(j, S[j])}
  IN  /\ svc[s].phase = "collect"
      /\ IF missed = {}
         THEN /\ svc' = [svc EXCEPT ![s].phase = "recompute"]
              /\ UNCHANGED <<disk, batch>>
         ELSE /\ Persist(s, Mark(S, missed), [svc[s] EXCEPT !.phase = "catchup"])
              /\ Claim(s, "startup", missed)
      /\ UNCHANGED outside

\* runMissedJobs executes one job after the other.
RunMissedJob(s, j) ==
  /\ svc[s].phase = "catchup"
  /\ j \in DOMAIN batch[s]["startup"]
  /\ batch[s]["startup"][j].st = "pending"
  /\ Executing(s, "startup") = {}
  /\ batch' = [batch EXCEPT ![s]["startup"][j] = [@ EXCEPT !.st = "running", !.started = now]]
  /\ UNCHANGED <<disk, svc, outside>>

\* The second section of runMissedJobs.
RecordMissedJobs(s) ==
  LET S == RecomputeForMaintenance(Recorded(disk, batch[s]["startup"]))
  IN  /\ svc[s].phase = "catchup"
      /\ Executed(s, "startup")
      /\ Persist(s, S, [svc[s] EXCEPT !.phase = "recompute", !.owns = FALSE,
                           !.kept = {j \in DOMAIN S \ svc[s].interrupted : Runnable(S[j])}])
      /\ Forget(s, "startup")
      /\ UNCHANGED outside

\* Mutant: the timer is not armed at the end of start.
FinishStartUnarmed(s) ==
  /\ svc[s].phase = "recompute"
  /\ Persist(s, RecomputeNextRuns(disk),
             [svc[s] EXCEPT !.phase = "up", !.owns = FALSE, !.interrupted = {}, !.kept = {}])
  /\ UNCHANGED <<batch, outside>>

\* The last section of start.
FinishStart(s) ==
  /\ svc[s].phase = "recompute"
  /\ PersistAndArm(s, RecomputeNextRuns(disk),
                   [svc[s] EXCEPT !.phase = "up", !.owns = FALSE, !.interrupted = {}, !.kept = {}])
  /\ UNCHANGED <<batch, outside>>

-----------------------------------------------------------------------------
(* Calls, which reach the service the request handlers hold *)

Answers == svc[api].phase \notin {"off", "clear"}

Call ==
  /\ Answers
  /\ calls < MaxCalls
  /\ calls' = calls + 1
  /\ UNCHANGED <<now, api, scheduler, replacements, crashes>>

\* list, listPage and status: ensureLoadedForRead.
Read ==
  LET S == svc[api].store
      R == RecomputeForMaintenance(S)
  IN  /\ Answers
      /\ svc' = [svc EXCEPT ![api].store = R]
      /\ disk' = IF R = S THEN disk ELSE R
      /\ UNCHANGED <<batch, outside>>

Add(j, at, enabled) ==
  LET r == NewJob(j, at, enabled)
      S == [i \in DOMAIN svc[api].store \cup {j} |->
              IF i = j THEN [r EXCEPT !.next = ComputeNext(j, r, now)]
              ELSE svc[api].store[i]]
  IN  /\ Call
      /\ j \in fresh
      /\ PersistAndArm(api, RecomputeNextRuns(S), svc[api])
      /\ fresh' = fresh \ {j}
      /\ UNCHANGED batch

\* update: the job of the store after the patch is r.
Update(j, r) ==
  LET S == svc[api].store
  IN  /\ Call
      /\ PersistAndArm(api, [S EXCEPT ![j] = r], svc[api])
      /\ UNCHANGED fresh

Enable(j) ==
  LET S == svc[api].store
      r == [S[j] EXCEPT !.enabled = TRUE]
  IN  /\ j \in DOMAIN S
      /\ Update(j, [r EXCEPT !.next = NextRun(j, r, now)])
      /\ UNCHANGED batch

Disable(j) ==
  LET S == svc[api].store
  IN  /\ j \in DOMAIN S
      /\ Update(j, [S[j] EXCEPT !.enabled = FALSE, !.next = NoTime, !.running = NoTime])
      /\ Release(j)

\* A patch of the schedule; the anchor of an interval is the time of the patch.
\* The marker of a disabled job goes.
Reschedule(j, at) ==
  LET S == svc[api].store
      r == [S[j] EXCEPT !.at = IF Kind[j] = "every" THEN now ELSE at]
  IN  /\ j \in DOMAIN S
      /\ Update(j, [r EXCEPT !.next = ComputeNext(j, r, now),
                             !.running = IF r.enabled THEN @ ELSE NoTime])
      /\ IF r.enabled THEN UNCHANGED batch ELSE Release(j)

\* A patch of something else: only a missing next run is computed.
Edit(j) ==
  LET S == svc[api].store
  IN  /\ j \in DOMAIN S
      /\ Update(j, [S[j] EXCEPT !.next = IF Missing(S[j]) THEN ComputeNext(j, S[j], now) ELSE @])
      /\ UNCHANGED batch

Remove(j) ==
  LET S == svc[api].store
  IN  /\ Call
      /\ PersistAndArm(api, Restrict(S, DOMAIN S \ {j}), svc[api])
      /\ Release(j)
      /\ UNCHANGED fresh

\* The first section of run.
PrepareRun(j, forced) ==
  LET S == RecomputeForMaintenance(svc[api].store)
  IN  /\ Call
      /\ j \in DOMAIN S
      /\ batch[api]["manual"] = Nothing
      /\ IF S[j].running = NoTime /\ (forced \/ Runnable(S[j]))
         THEN /\ Persist(api, Mark(S, {j}), svc[api])
              /\ batch' = [batch EXCEPT ![api]["manual"] =
                             [i \in {j} |-> [Claimed EXCEPT !.st = "running", !.started = now,
                                                            !.released = ~S[j].enabled]]]
         ELSE /\ svc' = [svc EXCEPT ![api].store = S]
              /\ UNCHANGED <<disk, batch>>
      /\ UNCHANGED fresh

\* The second section of run: the outcome is put into the job in memory, and that
\* job's state into the store read again.
RecordRun(s, j) ==
  LET x == batch[s]["manual"]
      S == Recorded(svc[s].store, x)
      merged == [i \in {k \in DOMAIN disk : k = j => k \in DOMAIN S} |->
                   IF i = j THEN [S[j] EXCEPT !.at = disk[j].at] ELSE disk[i]]
  IN  /\ j \in DOMAIN x
      /\ Executed(s, "manual")
      /\ IF j \in DOMAIN svc[s].store
         THEN PersistAndArm(s, RecomputeForMaintenance(merged), [svc[s] EXCEPT !.owns = FALSE])
         ELSE UNCHANGED <<disk, svc>>
      /\ Forget(s, "manual")
      /\ UNCHANGED outside

-----------------------------------------------------------------------------
(* Processes *)

\* A process begins: server.impl.ts builds a service and starts it.
Boot ==
  /\ \A s \in Services : svc[s].phase = "off"
  /\ svc' = [svc EXCEPT ![api].phase = "clear"]
  /\ scheduler' = api
  /\ UNCHANGED <<now, disk, fresh, batch, api, bounds>>

\* The service s takes the place of the stopped one.
Replace(stopped, s) ==
  /\ svc[s].phase = "off"
  /\ svc[scheduler].phase # "off"
  /\ replacements < MaxReplacements
  /\ replacements' = replacements + 1
  /\ svc' = [svc EXCEPT ![stopped].timer = FALSE, ![s].phase = "clear"]
  /\ scheduler' = s
  /\ UNCHANGED <<now, disk, fresh, batch, calls, crashes>>

\* A reload of the cron configuration: the context of the request handlers keeps
\* the service it was made with.
HotReload(s) ==
  /\ Replace(scheduler, s)
  /\ UNCHANGED api

\* The gateway closes and starts again in the same process.
RestartInPlace(s) ==
  /\ Replace(api, s)
  /\ api' = s

Crash ==
  /\ \E s \in Services : svc[s].phase # "off"
  /\ crashes < MaxCrashes
  /\ crashes' = crashes + 1
  /\ svc' = [s \in Services |-> Off]
  /\ batch' = [s \in Services |-> NoRuns]
  /\ UNCHANGED <<now, disk, fresh, api, scheduler, calls, replacements>>

Tick ==
  /\ now < MaxTime
  /\ now' = now + 1
  /\ UNCHANGED <<disk, svc, fresh, batch, api, scheduler, bounds>>

-----------------------------------------------------------------------------
Init ==
  /\ now = 1
  /\ disk = [j \in Stored |-> [NewJob(j, 1, TRUE) EXCEPT
                                !.next = NextRun(j, NewJob(j, 1, TRUE), 1)]]
  /\ fresh = Jobs \ Stored
  /\ svc = [s \in Services |-> Off]
  /\ batch = [s \in Services |-> NoRuns]
  /\ api = CHOOSE s \in Services : TRUE   \* they are alike
  /\ scheduler = api
  /\ calls = 0
  /\ replacements = 0
  /\ crashes = 0

TimerStep(s) ==
  \/ OnTimer(s) \/ CollectDueJobs(s) \/ RecordDueJobs(s) \/ EndTick(s)
  \/ \E j \in Jobs : RunDueJob(s, j)
StartStep(s) ==
  \/ ClearMarkers(s) \/ CollectMissedJobs(s) \/ RecordMissedJobs(s) \/ FinishStart(s)
  \/ \E j \in Jobs : RunMissedJob(s, j)
Execution(s) ==
  \/ \E by \in Sources, j \in Jobs : ExecutionEnds(s, by, j)
  \/ \E j \in Jobs : RecordRun(s, j)
Calls ==
  \/ Read
  \/ \E j \in Jobs : Enable(j) \/ Disable(j) \/ Edit(j) \/ Remove(j)
  \/ \E j \in Jobs, at \in 1..MaxTime : Reschedule(j, at)
  \/ \E j \in Jobs, at \in 1..MaxTime, enabled \in BOOLEAN : Add(j, at, enabled)
  \/ \E j \in Jobs, forced \in BOOLEAN : PrepareRun(j, forced)

Next ==
  \/ \E s \in Services : TimerStep(s) \/ StartStep(s) \/ Execution(s)
  \/ Calls
  \/ \E s \in Services : HotReload(s) \/ RestartInPlace(s)
  \/ Boot \/ Crash
  \/ Tick

Spec == Init /\ [][Next]_vars

\* The timer of a service fires, promises settle, sections get the lock, and
\* executions end: they have a timeout.
FairSpec ==
  /\ Spec
  /\ \A s \in Services : WF_vars(TimerStep(s) \/ StartStep(s)) /\ WF_vars(Execution(s))

-----------------------------------------------------------------------------
(* Properties *)

Times == 1..MaxTime
MaybeTimes == Times \cup {NoTime}
Records ==
  [at : Times, enabled : BOOLEAN, next : Int, running : MaybeTimes,
   last : MaybeTimes, status : {"none", "ok", "skipped", "error"},
   errors : 0..MaxRetries + 1]
IsStore(S) == DOMAIN S \subseteq Jobs /\ \A j \in DOMAIN S : S[j] \in Records

\* The state has the shape the code keeps it in: records, services and executions
\* are well formed, a tick has claimed jobs exactly while it runs them, and catch-up
\* has exactly while start waits for it (timer.ts, ops.ts).
TypeOK ==
  /\ now \in Times
  /\ fresh \subseteq Jobs /\ DOMAIN disk \cap fresh = {}
  /\ IsStore(disk)
  /\ \A s \in Services :
       /\ svc[s] \in [phase : {"off", "clear", "collect", "catchup", "recompute", "up"},
                      store : {svc[s].store}, timer : BOOLEAN,
                      tick : {"idle", "collect", "run", "finally"}, owns : BOOLEAN,
                      interrupted : SUBSET Jobs, kept : SUBSET Jobs]
       /\ IsStore(svc[s].store)
       /\ svc[s].tick = "run" <=> batch[s]["timer"] # Nothing
       /\ svc[s].phase = "catchup" <=> batch[s]["startup"] # Nothing
       /\ svc[s].phase = "off" => svc[s] = Off /\ batch[s] = NoRuns
  /\ {api, scheduler} \subseteq Services

Runs == {x \in Services \X Sources \X Jobs : x[3] \in DOMAIN batch[x[1]][x[2]]}
Run(x) == batch[x[1]][x[2]][x[3]]

\* x has had its marker since it claimed its job, which excludes other claims.
Holds(x) == ~Run(x).released /\ now - Run(x).claimed <= StuckAfter

\* While one service works on the store, a job that is claimed, executing or executed
\* and not recorded has its marker in the file, so that a process that starts after a
\* crash knows it, unless it was disabled or removed or the marker has grown too old
\* (timer.ts:569, ops.ts:360).
MarkedWhileExecuting ==
  replacements = 0 =>
    \A x \in Runs : Holds(x) /\ x[3] \in DOMAIN disk => disk[x[3]].running # NoTime

\* While one service works on the store, what it has claimed by its timer, at startup
\* or for a manual run is not claimed again before it is recorded (ops.ts:362 "so timer
\* ticks that force-reload from disk cannot start the same job concurrently").
ClaimedOnce ==
  replacements = 0 =>
    \A x, y \in Runs : x # y /\ x[3] = y[3] => ~(Holds(x) /\ Holds(y))

\* No job that stays enabled is executed twice at a time, whatever services do it; the
\* test service.prevents-duplicate-timers.test.ts says it of two services of one store.
NoDoubleExecution ==
  \A x, y \in Runs :
    x # y /\ x[3] = y[3] /\ Run(x).st = "running" /\ Run(y).st = "running"
      => ~(Holds(x) /\ Holds(y))

\* The next run of j moved from a step to the next although the job stays enabled.
Moved(j) ==
  /\ j \in DOMAIN disk \cap DOMAIN disk'
  /\ disk[j].enabled /\ disk[j].next # NoTime /\ disk[j].next <= now
  /\ disk'[j].enabled
  /\ disk'[j].next # disk[j].next

\* An execution of j was recorded.
RecordsRunOf(j) == \E x \in Runs : x[3] = j /\ j \notin DOMAIN batch'[x[1]][x[2]]

\* While one service works on the store, a due job is not put off without being run:
\* its next run changes when an execution is recorded, when the job itself is edited,
\* when a job is added, and at the end of start, by nothing else; neither ticks, reads,
\* manual runs nor edits of other jobs move it (jobs.ts:400, issues 13992, 16156).
DueJobsAreKept ==
  [][\A j \in Jobs :
       replacements = 0 /\ Moved(j) =>
         \/ RecordsRunOf(j)
         \/ Enable(j) \/ \E at \in Times : Reschedule(j, at)
         \/ fresh' # fresh
         \/ svc'[scheduler].phase = "up" /\ svc[scheduler].phase # "up"]_vars

\* The end of start does not put off a job that became due while missed jobs were
\* run; timer.ts:828 says that it executes on a future tick.
CatchUpSkipsNothing ==
  [][\A s \in Services :
       svc[s].phase = "recompute" /\ svc'[s].phase = "up" =>
         \A j \in svc[s].kept : ~(Moved(j) /\ Runnable(disk[j]))]_vars

\* While one service works on the store, a one-shot that has succeeded has no next
\* run unless it was given a later time: it does not fire again after a restart or an
\* edit (jobs.ts:235, issue 13845).
SucceededStaysDone ==
  replacements = 0 =>
    \A j \in DOMAIN disk :
      Kind[j] = "at" /\ disk[j].status = "ok" /\ disk[j].at <= disk[j].last
        => disk[j].next = NoTime

\* While one service works on the store, and is up, and the file has a job with a next
\* run, something wakes it: its timer is set, a tick is in progress and will set it, or
\* its start will (timer.ts: the watchdog, the finally block; issue 12025).  The service
\* that a reload has left to the request handlers can put back a job that was done.
SomethingWakes ==
  /\ replacements = 0
  /\ \E s \in Services : svc[s].phase # "off"
  /\ Wakes(disk)
  => \E s \in Services :
       svc[s].timer \/ svc[s].tick # "idle" \/ svc[s].phase \notin {"off", "up"}

\* A due job is claimed in the end, or is not due any more, unless the process ends.
DueJobsRun ==
  \A j \in Jobs :
    j \in DOMAIN disk /\ Runnable(disk[j])
      ~> \/ j \notin DOMAIN disk
         \/ ~Runnable(disk[j])
         \/ \A s \in Services : svc[s].phase = "off"

\* What the store says of a job while it executes, and after: it is marked, by one
\* execution, and does not come back once it has succeeded.
ClaimsAreSound ==
  TypeOK /\ MarkedWhileExecuting /\ ClaimedOnce /\ SucceededStaysDone /\ SomethingWakes
=============================================================================
