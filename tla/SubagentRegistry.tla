-------------------------- MODULE SubagentRegistry --------------------------
(***************************************************************************)
(* The registry of subagent runs (Openclaw-Docker/src/agents/subagent-     *)
(* registry.ts): a run is registered, completed by a life-cycle event, by  *)
(* the wait for it or by a kill, announced to its requester when its own   *)
(* descendants have settled, retried when that fails, and given up.        *)
(*                                                                         *)
(* A run is one record: what is persisted of its entry, and what the       *)
(* process keeps beside it.  What is written to memory and disk in one go  *)
(* is one step; an await splits it.  The model's work is the agent run     *)
(* itself, which goes on or ends whatever the registry thinks of it.       *)
(***************************************************************************)
EXTENDS Naturals

CONSTANTS
  Subagents,     \* the runs
  Requester,     \* each run's requester: a run, or "main"
  Expecting,     \* runs that expect a completion message
  Deleting,      \* runs whose session is deleted with them (cleanup = "delete")
  Archived,      \* runs that are archived some time after they were registered
  HooksThrow,    \* the hook subagent_ended may fail
  Flaky,         \* runs an attempt of which may fail and be followed by another
  MaxRetries,    \* MAX_ANNOUNCE_RETRY_COUNT
  MaxSteers,     \* bound: steers
  MaxCrashes     \* bound: crashes of the process

ASSUME SubagentAssumption ==
  /\ Requester \in [Subagents -> Subagents \cup {"main"}] /\ "main" \notin Subagents
  /\ Expecting \subseteq Subagents /\ Deleting \subseteq Subagents
  /\ Archived \subseteq Subagents /\ Flaky \subseteq Subagents /\ HooksThrow \in BOOLEAN
  /\ MaxRetries \in Nat \ {0} /\ {MaxSteers, MaxCrashes} \subseteq Nat

VARIABLES
  entry,      \* the record of each run
  work,       \* the agent run: "new", "queued" in its lane, "runs", "failing" (an attempt has
              \* failed), "again", "over"
  session,    \* its session has an entry in the store
  steering,   \* the subagents tool is about to replace it
  announced,  \* how often it was announced (history)
  stranded,   \* a crash has cut short its clean-up or its steer (history)
  revived,    \* a run has gone on that was being announced or had been, was settled or swept:
              \* it has spawned another, or a steer has replaced it (history)
  steers, crashes   \* counters for the bounds

historyVars == <<announced, stranded, revived>>
subagentVars == <<entry, work, session, steering, historyVars, steers, crashes>>

\* outcome is "none" until endedAt is set, then "complete" (endedReason complete) or
\* "other".  tried: an announcement of a run that expects a message was deferred or has
\* failed, lately, or so long ago that the back-off is over when its timer fires.
NoEntry ==
  [st |-> "new", outcome |-> "none", handled |-> FALSE, done |-> FALSE, suppress |-> "no",
   retries |-> 0, tried |-> "no", old |-> FALSE, hooked |-> FALSE,
   resumed |-> FALSE, errorTimer |-> FALSE, waits |-> FALSE, retryTimers |-> 0,
   backoffTimers |-> 0, hook |-> FALSE, thenFlow |-> FALSE, flow |-> "no"]

\* What registerSubagentRun and replaceSubagentRunAfterSteer put in the registry.
Registered == [NoEntry EXCEPT !.st = "listed", !.waits = TRUE]

Dropped(e) == [NoEntry EXCEPT !.st = "gone", !.flow = e.flow, !.hook = e.hook /\ e.flow # "no"]

\* An entry whose clean-up is complete: of what is left of its timers and waits nothing
\* has an effect but on its outcome and its hook, which no longer matter.
Tidied(e) ==
  IF ~e.done THEN e
  ELSE [NoEntry EXCEPT !.st = "listed", !.outcome = "complete", !.handled = TRUE, !.done = TRUE,
                       !.suppress = e.suppress,
                       !.flow = e.flow, !.hook = e.hook /\ e.flow # "no"]

Listed(e) == e.st = "listed"
HasEnded(e) == e.outcome # "none"
Active(r) == work[r] \in {"queued", "runs", "failing", "again"}

\* isEmbeddedPiRunActive: an attempt is registered; none is while the run waits in its
\* lane, or between two attempts.
HasHandle(r) == work[r] \in {"runs", "again"}

\* Nobody will look at the run and its descendants any more: it is being announced or has
\* been, or its entry is settled or swept.
PastChecks(r) ==
  entry[r].flow = "delivers" \/ announced[r] > 0 \/ entry[r].done \/ ~Listed(entry[r])

Settled(e) == HasEnded(e) /\ e.done

\* countPendingDescendantRuns: descendants are found through the entries of their requesters;
\* what the search visits is the least set with the children of r and those of its members.
ChildrenOf(r) == {c \in Subagents : Requester[c] = r /\ Listed(entry[c])}
Descendants(r) ==
  {d \in Subagents :
     \A S \in SUBSET Subagents : (\A q \in S \cup {r} : ChildrenOf(q) \subseteq S) => d \in S}
PendingDescendants(r) == \E d \in Descendants(r) : ~Settled(entry[d])

\* Its requester has neither a session nor an entry that names another requester.
Bereft(r) ==
  LET p == Requester[r] IN p # "main" /\ ~session[p] /\ ~Listed(entry[p])

-----------------------------------------------------------------------------
(* What one call does to the record of run r *)

\* Mutants of StartFlow: a clean-up that does not see another one; one that leaves no mark.
StartFlowAgain(e) ==
  IF ~Listed(e) \/ e.done THEN e ELSE [e EXCEPT !.handled = TRUE, !.flow = "checks"]
StartFlowUnmarked(e) ==
  IF ~Listed(e) \/ e.done \/ e.handled THEN e ELSE [e EXCEPT !.flow = "checks"]

\* startSubagentAnnounceCleanupFlow, when beginSubagentCleanup lets it.
StartFlow(e) ==
  IF ~Listed(e) \/ e.done \/ e.handled THEN e
  ELSE [e EXCEPT !.handled = TRUE, !.flow = "checks"]

\* resumeSubagentRun; early: lastAnnounceRetryAt plus the back-off is still to come.
Resumed(r, e, early) ==
  CASE e.resumed \/ ~Listed(e) -> e
    [] ~e.resumed /\ Listed(e) /\ ~session[r] -> Dropped(e)
    [] ~e.resumed /\ Listed(e) /\ session[r] ->
       IF e.done THEN e
       ELSE IF e.retries >= MaxRetries \/ (r \notin Expecting /\ HasEnded(e) /\ e.old)
         THEN [e EXCEPT !.done = TRUE]
       ELSE IF r \in Expecting /\ early
         THEN [e EXCEPT !.backoffTimers = @ + 1, !.tried = "waited", !.resumed = TRUE]
       ELSE IF ~HasEnded(e) THEN [e EXCEPT !.waits = TRUE, !.resumed = TRUE]
       ELSE IF e.suppress = "steer" THEN [e EXCEPT !.resumed = TRUE]
       ELSE IF e.handled THEN e
       ELSE [StartFlow(e) EXCEPT !.resumed = TRUE]

\* Mutant of Completed: the suppression of a steer is not looked at.
CompletedUnsuppressed(r, e, how) ==
  LET c == [e EXCEPT !.errorTimer = FALSE, !.outcome = how] IN
  IF ~Listed(e) THEN e
  ELSE IF r \in Expecting \/ e.hooked \/ e.hook THEN StartFlow(c)
  ELSE [c EXCEPT !.hook = TRUE, !.thenFlow = TRUE]

\* completeSubagentRun up to its first await: the hook comes first for a run that expects
\* no completion message, and with the clean-up for one that does.
Completed(r, e, how) ==
  LET c == [e EXCEPT !.errorTimer = FALSE, !.outcome = how] IN
  IF ~Listed(e) THEN e
  ELSE IF e.suppress = "steer" THEN c
  ELSE IF r \in Expecting \/ e.hooked \/ e.hook THEN StartFlow(c)
  ELSE [c EXCEPT !.hook = TRUE, !.thenFlow = TRUE]

\* retryDeferredCompletedAnnounces
Retried(r, e, early) ==
  IF ~Listed(e) \/ ~HasEnded(e) \/ e.done \/ e.handled \/ e.suppress = "steer" THEN e
  ELSE IF r \notin Expecting /\ e.old THEN [e EXCEPT !.done = TRUE]
  ELSE Resumed(r, [e EXCEPT !.resumed = FALSE], early)

\* finalizeSubagentCleanup up to its first await.
Settling(r, e, how) ==
  [e EXCEPT !.flow = how, !.hook = @ \/ (r \in Expecting /\ ~e.hooked)]

\* Mutant of Deferred: the run stays among the resumed ones.
DeferredResumed(r, e) ==
  IF r \in Expecting
  THEN [e EXCEPT !.flow = "no", !.handled = FALSE, !.tried = "lately", !.retryTimers = @ + 1]
  ELSE [e EXCEPT !.flow = "no", !.handled = FALSE, !.resumed = FALSE]

Deferred(r, e) ==
  IF r \in Expecting
  THEN [e EXCEPT !.flow = "no", !.handled = FALSE, !.resumed = FALSE, !.tried = "lately",
                 !.retryTimers = @ + 1]
  ELSE [e EXCEPT !.flow = "no", !.handled = FALSE, !.resumed = FALSE]

Finalized(r, e, didAnnounce, pending) ==
  LET retries == e.retries + 1 IN
  CASE ~Listed(e) -> [e EXCEPT !.flow = "no"]
    [] Listed(e) /\ didAnnounce -> Settling(r, e, "announced")
    [] Listed(e) /\ ~didAnnounce /\ r \in Expecting /\ pending ->
       IF e.old THEN Settling(r, e, "givenUp") ELSE Deferred(r, e)
    [] OTHER ->
       IF retries >= MaxRetries \/ e.old
       THEN [Settling(r, e, "givenUp") EXCEPT !.retries = retries]
       ELSE [Deferred(r, e) EXCEPT !.retries = retries]

\* The entry of r becomes e; nothing else of the registry changes.
Becomes(r, e) == entry' = [entry EXCEPT ![r] = Tidied(e)]
RegistryOnly == UNCHANGED <<work, session, steering, historyVars, steers, crashes>>

-----------------------------------------------------------------------------
(* The agent run, its events and the wait for it *)

RegisterSubagentRun(r) ==
  /\ entry[r].st = "new"
  /\ Requester[r] # "main" => HasHandle(Requester[r])
  /\ Becomes(r, Registered)
  /\ work' = [work EXCEPT ![r] = "queued"]
  /\ session' = [session EXCEPT ![r] = TRUE]
  /\ revived' = (revived \/ (Requester[r] # "main" /\ PastChecks(Requester[r])))
  /\ UNCHANGED <<steering, announced, stranded, steers, crashes>>

\* The life-cycle event "error": its clean-up waits for another attempt to start.
ErrorEvent(r) ==
  /\ r \in Flaky /\ work[r] \in {"queued", "runs"}
  /\ work' = [work EXCEPT ![r] = "failing"]
  /\ Becomes(r, [entry[r] EXCEPT !.errorTimer = Listed(entry[r])])
  /\ UNCHANGED <<session, steering, historyVars, steers, crashes>>

\* An attempt begins, the first or another.
StartEvent(r) ==
  /\ work[r] \in {"queued", "failing"}
  /\ work' = [work EXCEPT ![r] = IF @ = "queued" THEN "runs" ELSE "again"]
  /\ Becomes(r, [entry[r] EXCEPT !.errorTimer = FALSE])
  /\ UNCHANGED <<session, steering, historyVars, steers, crashes>>

\* The life-cycle event "end": the run is over, or goes on after a compaction.
EndEvent(r) ==
  /\ HasHandle(r)
  /\ \E next \in {"over"} \cup (IF r \in Flaky THEN {"again"} ELSE {}) :
       work' = [work EXCEPT ![r] = next]
  /\ Becomes(r, Completed(r, entry[r], "complete"))
  /\ UNCHANGED <<session, steering, historyVars, steers, crashes>>

\* No attempt starts, or no other one.
FailedForGood(r) ==
  /\ work[r] \in {"queued", "failing"}
  /\ work' = [work EXCEPT ![r] = "over"]
  /\ UNCHANGED <<entry, session, steering, historyVars, steers, crashes>>

\* The grace period of an error event is over.
ErrorTimerFires(r) ==
  LET e == [entry[r] EXCEPT !.errorTimer = FALSE] IN
  /\ entry[r].errorTimer
  /\ Becomes(r, IF e.outcome = "complete" THEN e ELSE Completed(r, e, "other"))
  /\ RegistryOnly

\* waitForSubagentCompletion: agent.wait has waited for too long, or knows how the run has
\* ended.  When the call fails the wait is as good as one that never returns.
WaitReturns(r) ==
  LET e == [entry[r] EXCEPT !.waits = FALSE] IN
  /\ entry[r].waits
  /\ \/ Becomes(r, Completed(r, e, "complete"))
     \/ work[r] \in {"failing", "over"} /\ Becomes(r, Completed(r, e, "other"))
  /\ RegistryOnly

-----------------------------------------------------------------------------
(* Announcement and clean-up *)

\* The end of runSubagentAnnounceFlow, with the deletion of the session it was told to delete.
FlowReturns(r, didAnnounce, deletes) ==
  /\ Becomes(r, Finalized(r, entry[r], didAnnounce, PendingDescendants(r)))
  /\ session' = [session EXCEPT ![r] = @ /\ ~(deletes /\ r \in Deleting)]
  /\ UNCHANGED <<work, steering, stranded, revived, steers, crashes>>

\* runSubagentAnnounceFlow waits for a run whose attempt is registered; the time may be over
\* first.  From here on it is not looked at again, though another attempt may start.
FlowChecks(r) ==
  /\ entry[r].flow = "checks"
  /\ \/ /\ HasHandle(r) /\ session[r]
        /\ FlowReturns(r, FALSE, FALSE)
        /\ UNCHANGED announced
     \/ /\ ~HasHandle(r) \/ ~session[r]
        /\ Becomes(r, [entry[r] EXCEPT !.flow = "reads"])
        /\ UNCHANGED <<work, session, steering, historyVars, steers, crashes>>

\* Mutant of FlowReads: a run whose descendants are pending is announced.
FlowReadsAlone(r) ==
  /\ entry[r].flow = "reads"
  /\ Becomes(r, [entry[r] EXCEPT !.flow = "delivers"])
  /\ UNCHANGED <<work, session, steering, historyVars, steers, crashes>>

\* Then it reads the output, which may fail or say to be silent, and goes on to the
\* delivery unless descendants are pending or nobody is left to tell.
FlowReads(r) ==
  /\ entry[r].flow = "reads"
  /\ \/ /\ PendingDescendants(r) \/ Bereft(r) \/ (r \notin Expecting /\ HasHandle(r))
        /\ FlowReturns(r, FALSE, FALSE)
        /\ UNCHANGED announced
     \/ /\ \E didAnnounce \in BOOLEAN : FlowReturns(r, didAnnounce, TRUE)
        /\ UNCHANGED announced
     \/ /\ ~PendingDescendants(r) /\ ~Bereft(r)
        /\ Becomes(r, [entry[r] EXCEPT !.flow = "delivers"])
        /\ UNCHANGED <<work, session, steering, historyVars, steers, crashes>>

FlowDelivers(r) ==
  /\ entry[r].flow = "delivers"
  /\ \/ /\ announced' = [announced EXCEPT ![r] = @ + 1]
        /\ FlowReturns(r, TRUE, TRUE)
     \/ /\ FlowReturns(r, FALSE, TRUE)
        /\ UNCHANGED announced

\* The hook subagent_ended has run, or has thrown.
EndedHookEnds(r) ==
  LET e == [entry[r] EXCEPT !.hook = FALSE, !.thenFlow = FALSE] IN
  /\ entry[r].hook
  /\ \E hooked \in {TRUE, entry[r].hooked \/ ~HooksThrow} :
       LET h == [e EXCEPT !.hooked = hooked /\ Listed(e)] IN
       Becomes(r, IF entry[r].thenFlow THEN StartFlow(h) ELSE h)
  /\ RegistryOnly

\* completeCleanupBookkeeping and retryDeferredCompletedAnnounces.
Bookkeeping(r) ==
  LET e == [entry[r] EXCEPT !.flow = "no"]
      after == IF ~Listed(e) THEN e
               ELSE IF entry[r].flow = "announced" /\ r \in Deleting THEN Dropped(e)
               ELSE [e EXCEPT !.done = TRUE]
  IN
  /\ entry[r].flow \in {"announced", "givenUp"} /\ ~(entry[r].hook /\ r \in Expecting)
  /\ \E early \in SUBSET {c \in Subagents : entry[c].tried \in {"lately", "waited"}} :
       entry' = [c \in Subagents |->
                   Tidied(IF c = r THEN after ELSE Retried(c, entry[c], c \in early))]
  /\ RegistryOnly

\* The timer finalizeSubagentCleanup has set.
RetryTimerFires(r) ==
  LET e == [entry[r] EXCEPT !.retryTimers = @ - 1] IN
  /\ entry[r].retryTimers > 0
  /\ \E early \in {FALSE, e.tried \in {"lately", "waited"}} : Becomes(r, Resumed(r, e, early))
  /\ RegistryOnly

\* The timer resumeSubagentRun has set: nothing was tried since, or lately again.
BackoffTimerFires(r) ==
  LET e == [entry[r] EXCEPT !.backoffTimers = @ - 1, !.resumed = FALSE] IN
  /\ entry[r].backoffTimers > 0
  /\ \E early \in {FALSE, e.tried = "lately"} : Becomes(r, Resumed(r, e, early))
  /\ RegistryOnly

\* ANNOUNCE_EXPIRY_MS or ANNOUNCE_COMPLETION_HARD_EXPIRY_MS have passed since it ended.
Expires(r) ==
  /\ Listed(entry[r]) /\ HasEnded(entry[r]) /\ ~entry[r].done /\ ~entry[r].old
  /\ Becomes(r, [entry[r] EXCEPT !.old = TRUE])
  /\ RegistryOnly

\* sweepSubagentRuns: the time to archive the run has come, whatever it is doing.
Sweep(r) ==
  /\ r \in Archived /\ Listed(entry[r])
  /\ Becomes(r, Dropped(entry[r]))
  /\ session' = [session EXCEPT ![r] = FALSE]
  /\ UNCHANGED <<work, steering, historyVars, steers, crashes>>

-----------------------------------------------------------------------------
(* Kills and steers *)

\* markSubagentRunTerminated
Kill(r) ==
  /\ Listed(entry[r]) /\ ~HasEnded(entry[r])
  /\ Becomes(r, [entry[r] EXCEPT !.outcome = "other", !.handled = TRUE, !.done = TRUE,
                                 !.suppress = "killed"])
  /\ UNCHANGED <<work, session, steering, announced, stranded, revived, steers, crashes>>

\* The subagents tool steers the run: its announcement is suppressed, then it is aborted.
SteerBegins(r) ==
  /\ Listed(entry[r]) /\ ~HasEnded(entry[r]) /\ ~steering[r]
  /\ steers < MaxSteers /\ steers' = steers + 1
  /\ steering' = [steering EXCEPT ![r] = TRUE]
  /\ Becomes(r, [entry[r] EXCEPT !.suppress = "steer"])
  /\ UNCHANGED <<work, session, historyVars, crashes>>

\* The replacement could not be started: clearSubagentRunSteerRestart.
SteerFails(r) ==
  LET e == [entry[r] EXCEPT !.suppress = "no", !.resumed = FALSE] IN
  /\ steering[r]
  /\ steering' = [steering EXCEPT ![r] = FALSE]
  /\ IF entry[r].suppress # "steer" THEN UNCHANGED entry
     ELSE \E early \in {FALSE, e.tried = "lately"} :
            Becomes(r, IF HasEnded(e) /\ ~e.done THEN Resumed(r, e, early) ELSE e)
  /\ UNCHANGED <<work, session, historyVars, steers, crashes>>

\* replaceSubagentRunAfterSteer: the new run takes the place of the old one, whatever has
\* become of that meanwhile.
SteerReplaces(r) ==
  /\ steering[r]
  /\ steering' = [steering EXCEPT ![r] = FALSE]
  /\ Becomes(r, Registered)
  /\ work' = [work EXCEPT ![r] = "queued"]
  /\ session' = [session EXCEPT ![r] = TRUE]
  /\ announced' = [announced EXCEPT ![r] = 0]
  /\ stranded' = [stranded EXCEPT ![r] = FALSE]
  /\ revived' = (revived \/ ~Listed(entry[r]) \/ entry[r].done)
  /\ UNCHANGED <<steers, crashes>>

-----------------------------------------------------------------------------
(* A crash, and restoreSubagentRunsOnce in the next process *)

Persisted(e) ==
  IF ~Listed(e) THEN [e EXCEPT !.flow = "no", !.hook = FALSE]
  ELSE [e EXCEPT !.resumed = FALSE, !.errorTimer = FALSE, !.waits = FALSE, !.retryTimers = 0,
                 !.backoffTimers = 0, !.hook = FALSE, !.thenFlow = FALSE, !.flow = "no"]

CrashAndRestore ==
  /\ crashes < MaxCrashes /\ crashes' = crashes + 1
  /\ \E early \in SUBSET {r \in Subagents : entry[r].tried # "no"} :
       entry' = [r \in Subagents |-> Tidied(Resumed(r, Persisted(entry[r]), r \in early))]
  /\ work' = [r \in Subagents |-> IF Active(r) THEN "over" ELSE work[r]]
  /\ steering' = [r \in Subagents |-> FALSE]
  /\ stranded' = [r \in Subagents |->
                    stranded[r] \/ (entry[r].handled /\ ~entry[r].done) \/ entry[r].suppress = "steer"]
  /\ UNCHANGED <<session, announced, revived, steers>>

-----------------------------------------------------------------------------
SubagentInit ==
  /\ entry = [r \in Subagents |-> NoEntry]
  /\ work = [r \in Subagents |-> "new"]
  /\ session = [r \in Subagents |-> FALSE]
  /\ steering = [r \in Subagents |-> FALSE]
  /\ announced = [r \in Subagents |-> 0]
  /\ stranded = [r \in Subagents |-> FALSE]
  /\ revived = FALSE
  /\ steers = 0 /\ crashes = 0

FlowStep(r) ==
  FlowChecks(r) \/ FlowReads(r) \/ FlowDelivers(r) \/ EndedHookEnds(r) \/ Bookkeeping(r)
TimerStep(r) == RetryTimerFires(r) \/ BackoffTimerFires(r) \/ ErrorTimerFires(r)

SubagentNext ==
  \/ \E r \in Subagents :
       \/ RegisterSubagentRun(r) \/ ErrorEvent(r) \/ StartEvent(r) \/ EndEvent(r)
       \/ FailedForGood(r) \/ WaitReturns(r) \/ FlowStep(r) \/ TimerStep(r) \/ Expires(r) \/ Sweep(r)
       \/ Kill(r) \/ SteerBegins(r) \/ SteerFails(r) \/ SteerReplaces(r)
  \/ CrashAndRestore

SubagentSpec == SubagentInit /\ [][SubagentNext]_subagentVars

\* Calls and hooks return, timers fire, time passes.
SubagentFairness ==
  \A r \in Subagents :
    /\ WF_subagentVars(FlowStep(r))
    /\ WF_subagentVars(TimerStep(r))
    /\ WF_subagentVars(Expires(r))

-----------------------------------------------------------------------------
(* Properties *)

Idle(e) == e.flow = "no" /\ e.retryTimers = 0 /\ e.backoffTimers = 0 /\ ~e.thenFlow

\* The shapes of the state; a flow belongs to an entry that is marked as handled.
SubagentTypeOK ==
  /\ \A r \in Subagents :
       /\ entry[r].st \in {"new", "listed", "gone"}
       /\ entry[r].outcome \in {"none", "complete", "other"}
       /\ entry[r].retries \in 0..MaxRetries
       /\ entry[r].tried \in {"no", "lately", "waited"}
       /\ entry[r].flow \in {"no", "checks", "reads", "delivers", "announced", "givenUp"}
       /\ Listed(entry[r]) /\ entry[r].flow # "no" => entry[r].handled
       /\ Listed(entry[r]) /\ entry[r].flow \in {"checks", "reads", "delivers"} =>
            ~entry[r].done
       /\ work[r] \in {"new", "queued", "runs", "failing", "again", "over"}
  /\ {session, steering, stranded} \subseteq [Subagents -> BOOLEAN]
  /\ announced \in [Subagents -> Nat] /\ revived \in BOOLEAN

\* A run is announced once at most, whatever the order of its life-cycle events, the end
\* of the wait, kills, timers, wake-ups by other runs and crashes.
AnnouncedOnce == \A r \in Subagents : announced[r] <= 1

\* A run that was killed, or whose steer is in progress, is not announced.
QuietIfStopped ==
  \A r \in Subagents :
    /\ entry[r].suppress = "killed" => announced[r] = 0 /\ entry[r].flow = "no"
    /\ entry[r].suppress = "steer" => entry[r].flow = "no"

\* A run is announced after its descendants: when it has been, each run it has spawned has
\* settled or is out of the registry.  The exception is a run that goes on when nobody looks
\* at it any more: one that was killed or took too long, or that waited in its lane or
\* between two attempts, where isEmbeddedPiRunActive does not see it, while it was announced
\* (subagent-announce.ts:1142).  What it spawns then is pending, and so is its replacement
\* when a steer was under way (subagent-registry.ts:916).
DescendantsFirst ==
  ~revived => \A r \in Subagents : announced[r] > 0 => ~PendingDescendants(r)

\* A run that expects a completion message, has ended and is not settled is in somebody's
\* hands: a flow, a timer or a hook, unless a crash has taken them.
EndedIsInHand ==
  \A r \in Expecting :
    LET e == entry[r] IN
    Listed(e) /\ HasEnded(e) /\ ~e.done /\ e.suppress # "steer" /\ ~stranded[r] => ~Idle(e)

\* Such a run settles: it is announced or given up, though its descendants may never settle.
EndedSettles ==
  \A r \in Expecting :
    Listed(entry[r]) /\ HasEnded(entry[r]) ~>
      entry[r].done \/ ~Listed(entry[r]) \/ ~HasEnded(entry[r]) \/ stranded[r]
        \/ entry[r].suppress = "steer"

\* A run is announced when its descendants are, once at most, not while it is stopped,
\* and until then it is in somebody's hands.
SubagentInv ==
  SubagentTypeOK /\ AnnouncedOnce /\ QuietIfStopped /\ DescendantsFirst /\ EndedIsInHand
=============================================================================
