--------------------------- MODULE ChannelManager ---------------------------
(***************************************************************************)
(* Start, stop and automatic restart of a channel account                  *)
(* (Openclaw-Docker/src/gateway/server-channels.ts), as operators, the     *)
(* reloader and the health monitor (channel-health-monitor.ts) call them.  *)
(*                                                                         *)
(* One account.  A task is one call of the plug-in's startAccount with     *)
(* what follows it: the wait before a restart and that restart.  The slot  *)
(* of a task that is over is used again.  The health monitor looks at      *)
(* accounts whenever it likes: its intervals and limits are left out.      *)
(***************************************************************************)
EXTENDS Naturals, FiniteSets

CONSTANTS
  Callers,         \* operators and the reloader, each with a call at a time
  TaskSlots,       \* bound on the tasks alive at once: a set of positive numbers
  StopHook,        \* the plug-in has a stopAccount of its own
  MaxAttempts      \* MAX_RESTART_ATTEMPTS

ASSUME ChannelAssumption ==
  /\ TaskSlots \subseteq Nat \ {0} /\ IsFiniteSet(TaskSlots) /\ MaxAttempts \in Nat
  /\ StopHook \in BOOLEAN /\ "monitor" \notin Callers

VARIABLES
  task,            \* slot -> "free", "running", "backoff" or "restarting"
  aborted,         \* the slots whose abort signal is set
  taskOf,          \* store.tasks: the task of the account, 0 if none
  abortOf,         \* store.aborts: the task whose controller it is, 0 if none
  configured,      \* the account is enabled and configured
  running,         \* store.runtimes: the account is said to run
  manual,          \* manuallyStopped
  attempts,        \* restartAttempts
  starting,        \* caller -> it awaits isConfigured
  stopping,        \* caller -> where its stopChannel is, and the task it awaits
  restarts,        \* automatic restarts since somebody else started the account (history)
  raced,           \* a start has overlapped with a start or a stop (history)
  hookThrew        \* the hook of a stop has thrown since the last start, and no later stop
                   \* has come to its end (history)

storeVars == <<task, aborted, taskOf, abortOf>>
channelVars == <<storeVars, configured, running, manual, attempts, starting, stopping, restarts,
                 raced, hookThrew>>

AllCallers == Callers \cup {"monitor"}
NotStopping == [at |-> "no", task |-> 0]

ChannelInit ==
  /\ task = [k \in TaskSlots |-> "free"]
  /\ aborted = {} /\ taskOf = 0 /\ abortOf = 0
  /\ configured \in BOOLEAN /\ running = FALSE
  /\ manual = FALSE /\ attempts = 0
  /\ starting = [c \in AllCallers |-> FALSE]
  /\ stopping = [c \in AllCallers |-> NotStopping]
  /\ restarts = 0 /\ raced = FALSE /\ hookThrew = FALSE

Checking == (\E c \in AllCallers : starting[c]) \/ (\E k \in TaskSlots : task[k] = "restarting")
BeingStopped == \E c \in AllCallers : stopping[c].at # "no"

-----------------------------------------------------------------------------
(* startChannelInternal *)

\* The account is configured: a task is started in slot k and replaces the present one.
Launch(k) ==
  /\ aborted' = aborted \ {k}
  /\ taskOf' = k /\ abortOf' = k /\ running' = TRUE

\* Mutant: a start does not look whether the account has a task.
StartChannelUnchecked(c) ==
  /\ ~starting[c] /\ stopping[c].at = "no"
  /\ starting' = [starting EXCEPT ![c] = TRUE]
  /\ raced' = (raced \/ Checking \/ BeingStopped)
  /\ UNCHANGED <<storeVars, configured, running, manual, attempts, stopping, restarts, hookThrew>>

\* The tasks are looked at, then isConfigured is awaited.
StartChannel(c) ==
  /\ ~starting[c] /\ stopping[c].at = "no"
  /\ taskOf = 0
  /\ starting' = [starting EXCEPT ![c] = TRUE]
  /\ raced' = (raced \/ Checking \/ BeingStopped)
  /\ UNCHANGED <<storeVars, configured, running, manual, attempts, stopping, restarts, hookThrew>>

Configured(c) ==
  /\ starting[c]
  /\ starting' = [starting EXCEPT ![c] = FALSE]
  /\ \/ /\ ~configured
        /\ running' = FALSE
        /\ UNCHANGED <<storeVars, manual, attempts, restarts, hookThrew>>
     \/ /\ configured
        /\ \E k \in TaskSlots :
             task[k] = "free" /\ Launch(k) /\ task' = [task EXCEPT ![k] = "running"]
        /\ manual' = FALSE /\ attempts' = 0 /\ restarts' = 0 /\ hookThrew' = FALSE
  /\ UNCHANGED <<configured, stopping, raced>>

-----------------------------------------------------------------------------
(* The task *)

\* Those who await task k go on when it is over.
WaitersReleased(k) ==
  stopping' = [c \in AllCallers |->
    IF stopping[c].task = k THEN [stopping[c] EXCEPT !.task = 0] ELSE stopping[c]]

\* The last finally block.
TaskOver(k) ==
  /\ task' = [task EXCEPT ![k] = "free"]
  /\ aborted' = aborted \ {k}
  /\ taskOf' = IF taskOf = k THEN 0 ELSE taskOf
  /\ abortOf' = IF abortOf = k THEN 0 ELSE abortOf
  /\ WaitersReleased(k)

\* Mutant: the attempts are counted and never used up.
ExitsForever(k) ==
  /\ task[k] = "running"
  /\ running' = FALSE
  /\ attempts' = IF manual THEN attempts ELSE attempts + 1
  /\ IF manual
     THEN TaskOver(k)
     ELSE task' = [task EXCEPT ![k] = "backoff"] /\ UNCHANGED <<aborted, taskOf, abortOf, stopping>>
  /\ UNCHANGED <<configured, manual, starting, restarts, raced, hookThrew>>

\* Mutant: the status is left as it was when an account is given up.
ExitsStillRunning(k) ==
  /\ task[k] = "running"
  /\ attempts' = IF manual THEN attempts ELSE attempts + 1
  /\ IF manual \/ attempts >= MaxAttempts
     THEN TaskOver(k) /\ UNCHANGED running
     ELSE /\ task' = [task EXCEPT ![k] = "backoff"] /\ running' = FALSE
          /\ UNCHANGED <<aborted, taskOf, abortOf, stopping>>
  /\ UNCHANGED <<configured, manual, starting, restarts, raced, hookThrew>>

\* startAccount has returned or thrown.
Exits(k) ==
  /\ task[k] = "running"
  /\ running' = FALSE
  /\ attempts' = IF manual THEN attempts ELSE attempts + 1
  /\ IF manual \/ attempts >= MaxAttempts
     THEN TaskOver(k)
     ELSE task' = [task EXCEPT ![k] = "backoff"] /\ UNCHANGED <<aborted, taskOf, abortOf, stopping>>
  /\ UNCHANGED <<configured, manual, starting, restarts, raced, hookThrew>>

\* The task makes room for the one it starts, if the account is not known by another.
Yields(k) ==
  /\ taskOf \in {k, 0}
  /\ task' = [task EXCEPT ![k] = "restarting"]
  /\ taskOf' = 0
  /\ abortOf' = IF abortOf = k THEN 0 ELSE abortOf
  /\ raced' = (raced \/ Checking)
  /\ UNCHANGED <<aborted, stopping>>

\* Mutant: the task keeps its place in the tables, so that its own start finds it there.
BackoffEndsInPlace(k) ==
  /\ task[k] = "backoff"
  /\ TaskOver(k)
  /\ UNCHANGED <<configured, running, manual, attempts, starting, restarts, raced, hookThrew>>

\* Mutant: a stop during the wait is not seen after it.
BackoffEndsUnchecked(k) ==
  /\ task[k] = "backoff"
  /\ Yields(k)
  /\ UNCHANGED <<configured, running, manual, attempts, starting, restarts, hookThrew>>

\* sleepWithAbort has ended or was aborted.
BackoffEnds(k) ==
  /\ task[k] = "backoff"
  /\ \/ /\ k \in aborted \/ manual \/ taskOf \notin {k, 0}
        /\ TaskOver(k) /\ UNCHANGED raced
     \/ /\ k \notin aborted /\ ~manual
        /\ Yields(k)
  /\ UNCHANGED <<configured, running, manual, attempts, starting, restarts, hookThrew>>

\* Mutant: an automatic restart counts as a start.
RestartsAfresh(k) ==
  /\ task[k] = "restarting" /\ configured
  /\ \E j \in TaskSlots :
       /\ task[j] = "free" \/ j = k
       /\ Launch(j) /\ task' = [task EXCEPT ![k] = "free", ![j] = "running"]
  /\ WaitersReleased(k)
  /\ attempts' = 0
  /\ restarts' = restarts + 1
  /\ UNCHANGED <<configured, manual, starting, raced, hookThrew>>

\* Its start has isConfigured behind it; attempts and the mark of a stop are kept.
Restarts(k) ==
  /\ task[k] = "restarting"
  /\ WaitersReleased(k)
  /\ \/ /\ ~configured
        /\ task' = [task EXCEPT ![k] = "free"] /\ running' = FALSE
        /\ UNCHANGED <<aborted, taskOf, abortOf, restarts>>
     \/ /\ configured
        /\ \E j \in TaskSlots :
             /\ task[j] = "free" \/ j = k
             /\ Launch(j) /\ task' = [task EXCEPT ![k] = "free", ![j] = "running"]
        /\ restarts' = restarts + 1
  /\ UNCHANGED <<configured, manual, attempts, starting, raced, hookThrew>>

-----------------------------------------------------------------------------
(* stopChannel *)

\* Mutant: the task is not told.
StopChannelQuietly(c) ==
  /\ ~starting[c] /\ stopping[c].at = "no"
  /\ StopHook \/ taskOf # 0 \/ abortOf # 0
  /\ manual' = TRUE
  /\ stopping' = [stopping EXCEPT ![c] = [at |-> IF StopHook THEN "hook" ELSE "task", task |-> taskOf]]
  /\ raced' = (raced \/ Checking)
  /\ UNCHANGED <<storeVars, configured, running, attempts, starting, restarts, hookThrew>>

\* Without a task, a controller and a hook there is nothing to do.
StopChannel(c) ==
  /\ ~starting[c] /\ stopping[c].at = "no"
  /\ StopHook \/ taskOf # 0 \/ abortOf # 0
  /\ manual' = TRUE
  /\ aborted' = aborted \cup ({abortOf} \ {0})
  /\ stopping' = [stopping EXCEPT ![c] = [at |-> IF StopHook THEN "hook" ELSE "task", task |-> taskOf]]
  /\ raced' = (raced \/ Checking)
  /\ UNCHANGED <<task, taskOf, abortOf, configured, running, attempts, starting, restarts,
                 hookThrew>>

HookEnds(c) ==
  /\ stopping[c].at = "hook"
  /\ stopping' = [stopping EXCEPT ![c].at = "task"]
  /\ UNCHANGED <<storeVars, configured, running, manual, attempts, starting, restarts, raced,
                 hookThrew>>

\* stopAccount throws: stopChannel rejects there, with the mark of a stop set and the task
\* told to end, and does not wait for it; the health monitor leaves it at that.
HookFails(c) ==
  /\ stopping[c].at = "hook"
  /\ stopping' = [stopping EXCEPT ![c] = NotStopping]
  /\ hookThrew' = TRUE
  /\ UNCHANGED <<storeVars, configured, running, manual, attempts, starting, restarts, raced>>

\* The task is over: whatever is there is removed.  The health monitor starts it again.
StopEnds(c) ==
  /\ stopping[c].at = "task" /\ stopping[c].task = 0
  /\ stopping' = [stopping EXCEPT ![c] = NotStopping]
  /\ taskOf' = 0 /\ abortOf' = 0 /\ running' = FALSE /\ hookThrew' = FALSE
  /\ \/ /\ c = "monitor"
        /\ attempts' = 0 /\ restarts' = 0
        /\ starting' = [starting EXCEPT ![c] = TRUE]
        /\ raced' = (raced \/ Checking \/ \E d \in AllCallers \ {c} : stopping[d].at # "no")
     \/ /\ c # "monitor"
        /\ UNCHANGED <<attempts, starting, restarts, raced>>
  /\ UNCHANGED <<task, aborted, configured, manual>>

\* runCheck: an account that is not healthy is stopped if it is said to run, its attempts
\* are forgotten, and it is started.
MonitorActs ==
  /\ ~manual /\ ~starting["monitor"] /\ stopping["monitor"].at = "no"
  /\ \/ running /\ StopChannel("monitor")
     \/ /\ ~running
        /\ attempts' = 0 /\ restarts' = 0
        /\ starting' = [starting EXCEPT !["monitor"] = taskOf = 0]
        /\ raced' = (raced \/ (taskOf = 0 /\ (Checking \/ BeingStopped)))
        /\ UNCHANGED <<storeVars, configured, running, manual, stopping, hookThrew>>

ConfigChanges ==
  /\ configured' = ~configured
  /\ UNCHANGED <<storeVars, running, manual, attempts, starting, stopping, restarts, raced,
                 hookThrew>>

-----------------------------------------------------------------------------
TaskStep(k) == (k \in aborted /\ Exits(k)) \/ BackoffEnds(k) \/ Restarts(k)
CallStep(c) == Configured(c) \/ HookEnds(c) \/ HookFails(c) \/ StopEnds(c)

ChannelNext ==
  \/ \E c \in Callers : StartChannel(c) \/ StopChannel(c)
  \/ \E c \in AllCallers : CallStep(c)
  \/ \E k \in TaskSlots : TaskStep(k) \/ Exits(k)
  \/ MonitorActs \/ ConfigChanges

ChannelSpec == ChannelInit /\ [][ChannelNext]_channelVars

\* A task ends when it is aborted, timers fire, hooks and checks end or throw.
ChannelFairness ==
  /\ \A k \in TaskSlots : WF_channelVars(TaskStep(k))
  /\ \A c \in AllCallers : WF_channelVars(CallStep(c))

-----------------------------------------------------------------------------
(* Properties *)

\* The shapes of the state.
ChannelTypeOK ==
  /\ task \in [TaskSlots -> {"free", "running", "backoff", "restarting"}]
  /\ aborted \subseteq TaskSlots
  /\ {taskOf, abortOf} \subseteq TaskSlots \cup {0}
  /\ {configured, running, manual, raced, hookThrew} \subseteq BOOLEAN
  /\ attempts \in 0..MaxAttempts + Cardinality(TaskSlots) /\ restarts \in Nat
  /\ starting \in [AllCallers -> BOOLEAN]
  /\ stopping \in [AllCallers -> [at : {"no", "hook", "task"}, task : TaskSlots \cup {0}]]

\* A task that runs or waits to restart is the one the account is known by, so that it
\* can be stopped, and is the only one, unless a start has overlapped with another
\* start or with a stop (server-channels.ts:159 awaits between its check and its entry).
AliveTaskIsKnown ==
  ~raced => \A k \in TaskSlots : task[k] \in {"running", "backoff"} => taskOf = k /\ abortOf = k

\* An account that was stopped and not started since neither runs nor comes back by
\* itself, unless a start was under way (same place).  When the plug-in's stopAccount has
\* thrown, the stop has not waited for the task (server-channels.ts:299): what may be left
\* then is a task whose abort signal is set.
StoppedStaysDown ==
  manual /\ ~BeingStopped /\ ~Checking /\ ~raced =>
    \A k \in TaskSlots : task[k] = "free" \/ (hookThrew /\ k \in aborted)

\* What the account's status says is so: it is what the health monitor acts on.
StatusIsTrue == ~raced => (running <=> \E k \in TaskSlots : task[k] = "running")

\* Between two starts an account restarts by itself at most MaxAttempts times, and once
\* more when the health monitor forgets the attempts while a restart is under way.
RestartsAreBounded == ~raced => restarts <= MaxAttempts + 1

\* A task that has crashed comes back, unless its account is stopped, is no longer
\* configured or has used up its attempts, or a start has overlapped (as above).
CrashedTaskComesBack ==
  (\E k \in TaskSlots : task[k] = "backoff") ~>
    \/ \E k \in TaskSlots : task[k] = "running"
    \/ manual \/ ~configured \/ attempts > MaxAttempts \/ raced

\* Every stopChannel returns.
StopsEnd == \A c \in AllCallers : stopping[c].at # "no" ~> stopping[c].at = "no"

\* The tasks that run, the maps that know them and the status that is shown agree, and
\* an account that was stopped, or has failed too often, stays down.
ChannelInv ==
  ChannelTypeOK /\ AliveTaskIsKnown /\ StoppedStaysDown /\ StatusIsTrue /\ RestartsAreBounded

\* A crashed account is started again or given up, and every stop comes to its end.
ChannelsSettle == CrashedTaskComesBack /\ StopsEnd
=============================================================================
