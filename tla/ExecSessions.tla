---------------------------- MODULE ExecSessions ----------------------------
(***************************************************************************)
(* A command run by the exec tool and managed by the process tool:         *)
(* src/agents/bash-tools.exec.ts, bash-tools.exec-runtime.ts,              *)
(* bash-tools.process.ts, bash-process-registry.ts, with                   *)
(* src/process/supervisor/ and src/process/kill-tree.ts.                   *)
(*                                                                         *)
(* The call spawns a process under the supervisor and returns when it      *)
(* ends, or sooner, when the command is put in the background.  A timeout, *)
(* an abort, and the process tool's kill and remove each have the process  *)
(* killed: a SIGTERM, and a SIGKILL after a grace period.  Other tool      *)
(* calls may poll, clear or remove the session at any of these moments.    *)
(* The operating system is external.                                       *)
(***************************************************************************)
EXTENDS Naturals

VARIABLES
  wish,    \* what the call asks for: a terminal, a window after which it is put in the background, a timeout
  tool,    \* the call: where it is, its answer, `yielded' and the signal that aborts it
  sess,    \* the ProcessSession and the two maps it may be in
  sup,     \* the supervised run: its record, `settled', `forcedReason' and its timers
  os,      \* the process, how it ended, the SIGKILL that is due, and whether others hold its pipes
  poll,    \* a poll: "none", or "waiting" with the session in its hands
  dropped  \* history: the session was removed or cleared: while it was being spawned, while its
           \* call waited, or later

execVars == <<wish, tool, sess, sup, os, poll, dropped>>

ExecStatuses == {"completed", "failed"}
Results == {"zero", "nonzero", "unusable", "signal"}  \* unusable: exit codes 126 and 127

ExecInit ==
  /\ wish \in [pty : BOOLEAN, window : {"now", "later", "never"}, timed : BOOLEAN]
  /\ tool = [at |-> "new", answer |-> "none", yielded |-> FALSE, aborted |-> FALSE]
  /\ sess = [listed |-> FALSE, finished |-> "none", backgrounded |-> FALSE, exited |-> FALSE,
             notified |-> FALSE]
  /\ sup = [record |-> "none", active |-> FALSE, forced |-> "none", settled |-> FALSE,
            timer |-> FALSE, fallback |-> FALSE, pty |-> FALSE]
  /\ os \in [proc : {"none"}, result : {"none"}, grace : {FALSE}, held : BOOLEAN]
  /\ poll = "none" /\ dropped = "none"

-----------------------------------------------------------------------------
(* Killing *)

\* Mutant: no SIGKILL follows the SIGTERM.
KillOnce(o) == o

\* killProcessTree: SIGTERM to the group, and SIGKILL when the grace period is over.
KillTree(o) == IF o.proc = "alive" THEN [o EXCEPT !.grace = TRUE] ELSE o

\* requestCancel: the first reason stays; a terminal that does not report its end is given
\* up 4 s after the kill.
Cancelled(reason, s) ==
  [s EXCEPT !.forced = IF @ = "none" THEN reason ELSE @,
            !.record = IF s.forced = "none" THEN "exiting" ELSE @,
            !.fallback = @ \/ (s.pty /\ ~s.settled)]

RequestCancel(reason) ==
  /\ sup' = Cancelled(reason, sup)
  /\ os' = IF sup.settled THEN os ELSE KillTree(os)

\* ProcessSupervisor.cancel does nothing of a run that has not started or has ended.
SupervisorCancel ==
  IF sup.active THEN /\ sup' = [Cancelled("cancel", sup) EXCEPT !.record = "exiting"]
                     /\ os' = KillTree(os)
  ELSE UNCHANGED <<sup, os>>

-----------------------------------------------------------------------------
(* The end of a session *)

\* Mutant: a session of the background stays among the running ones.
MarkExitedListed(status, s) ==
  [s EXCEPT !.exited = TRUE, !.listed = s.backgrounded,
            !.finished = IF s.backgrounded THEN status ELSE @]

\* markExited, moveToFinished: only what was in the background is kept.
MarkExited(status, s) ==
  [s EXCEPT !.exited = TRUE, !.listed = FALSE, !.finished = IF s.backgrounded THEN status ELSE @]

\* maybeNotifyOnExit enqueues a system event and asks for a heartbeat.
Ended(status, s) == [MarkExited(status, s) EXCEPT !.notified = @ \/ s.backgrounded]

\* The call is answered, unless it was when the command went to the background.
Answer(status, t) ==
  IF t.yielded \/ sess.backgrounded THEN t ELSE [t EXCEPT !.at = "over", !.answer = status]

\* adapter.wait() has resolved: the run is settled, the session is marked and the call is
\* answered before anything else happens.
RunSettles(result) ==
  LET status == IF sup.forced = "none" /\ result \in {"zero", "nonzero"}
                THEN "completed" ELSE "failed" IN
  /\ sup' = [sup EXCEPT !.settled = TRUE, !.active = FALSE, !.timer = FALSE, !.fallback = FALSE,
                        !.record = "exited"]
  /\ sess' = Ended(status, sess)
  /\ tool' = Answer(status, tool)
  /\ os' = [os EXCEPT !.result = result]
  /\ UNCHANGED <<wish, poll, dropped>>

-----------------------------------------------------------------------------
(* The exec tool *)

\* runExecProcess registers the session and asks the supervisor for a process.
Exec ==
  /\ tool.at = "new"
  /\ tool' = [tool EXCEPT !.at = "spawning"]
  /\ sess' = [sess EXCEPT !.listed = TRUE]
  /\ sup' = [sup EXCEPT !.record = "starting", !.pty = wish.pty]
  /\ UNCHANGED <<wish, os, poll, dropped>>

\* A command that is to be in the background at once is, unless the call was aborted: the
\* abort is looked at first, and kills it.
Spawned ==
  /\ tool.at = "spawning"
  /\ LET started == [sup EXCEPT !.record = "running", !.active = TRUE, !.timer = wish.timed]
         alive == [os EXCEPT !.proc = "alive"] IN
       IF tool.aborted THEN sup' = Cancelled("cancel", started) /\ os' = KillTree(alive)
       ELSE sup' = started /\ os' = alive
  /\ IF wish.window = "now"
     THEN /\ tool' = [tool EXCEPT !.at = "over", !.answer = "running", !.yielded = TRUE]
          /\ sess' = [sess EXCEPT !.backgrounded = TRUE]
     ELSE tool' = [tool EXCEPT !.at = "running"] /\ UNCHANGED sess
  /\ UNCHANGED <<wish, poll, dropped>>

\* Without a terminal it is tried again, once; the record is made anew.
SpawnFails ==
  /\ tool.at = "spawning"
  /\ IF sup.pty
     THEN /\ sup' = [sup EXCEPT !.pty = FALSE, !.record = "starting"]
          /\ UNCHANGED <<sess, tool>>
     ELSE /\ sup' = [sup EXCEPT !.record = "exited"]
          /\ sess' = Ended("failed", sess)
          /\ tool' = [tool EXCEPT !.at = "over", !.answer = "failed"]
  /\ UNCHANGED <<wish, os, poll, dropped>>

\* The yield window is over: the session goes to the background, and the call returns.
Yield ==
  /\ tool.at = "running" /\ wish.window = "later"
  /\ tool' = [tool EXCEPT !.at = "over", !.answer = "running", !.yielded = TRUE]
  /\ sess' = [sess EXCEPT !.backgrounded = TRUE]
  /\ UNCHANGED <<wish, sup, os, poll, dropped>>

\* The signal of the agent's run, also long after the call has returned: its listener stays.
Abort ==
  /\ ~tool.aborted /\ tool.at # "new"
  /\ tool' = [tool EXCEPT !.aborted = TRUE]
  /\ IF tool.at = "spawning" \/ tool.yielded \/ sess.backgrounded \/ ~(sup.active \/ sup.settled)
     THEN UNCHANGED <<sup, os>> ELSE RequestCancel("cancel")
  /\ UNCHANGED <<wish, sess, poll, dropped>>

\* The timeout of the command, in the background or not.
TimesOut ==
  /\ sup.timer
  /\ sup' = [Cancelled("timeout", sup) EXCEPT !.timer = FALSE]
  /\ os' = KillTree(os)
  /\ UNCHANGED <<wish, tool, sess, poll, dropped>>

-----------------------------------------------------------------------------
(* The operating system *)

\* The process ends by itself, or of a signal it was sent.
Exits ==
  /\ os.proc = "alive"
  /\ \E result \in Results :
       /\ result = "signal" => sup.forced # "none"
       /\ os' = [os EXCEPT !.proc = "dead", !.result = result]
  /\ UNCHANGED <<wish, tool, sess, sup, poll, dropped>>

\* SIGKILL, if it is still alive when the grace period is over.
GraceEnds ==
  /\ os.grace
  /\ os' = IF os.proc = "alive"
           THEN [os EXCEPT !.grace = FALSE, !.proc = "dead", !.result = "signal"]
           ELSE [os EXCEPT !.grace = FALSE]
  /\ UNCHANGED <<wish, tool, sess, sup, poll, dropped>>

\* `close' of a child comes when nobody holds its pipes any more; `onExit' of a terminal
\* comes, or, after a kill, may not.
EndReported ==
  /\ os.proc = "dead" /\ ~sup.settled
  /\ sup.pty \/ ~os.held
  /\ RunSettles(os.result)

\* Mutant: the fallback is not later than the grace period.
FallbackFiresEarly ==
  /\ sup.fallback
  /\ RunSettles("signal")

\* The fallback of a terminal is set with the kill and is later than the grace period.
FallbackFires ==
  /\ sup.fallback /\ ~os.grace
  /\ RunSettles("signal")

-----------------------------------------------------------------------------
(* The process tool *)

Cancelable == sup.record \notin {"none", "exited"}

Kill ==
  /\ sess.listed /\ sess.backgrounded /\ Cancelable
  /\ SupervisorCancel
  /\ UNCHANGED <<wish, tool, sess, poll, dropped>>

When == IF tool.at = "spawning" THEN "spawning"
        ELSE IF sess.backgrounded THEN "later" ELSE "waiting"

\* Mutant: a removed session stays marked as one of the background.
RemoveMarked ==
  /\ sess.listed /\ Cancelable
  /\ SupervisorCancel
  /\ sess' = [sess EXCEPT !.listed = FALSE, !.finished = "none"]
  /\ dropped' = When /\ UNCHANGED <<wish, tool, poll>>

\* A session may be removed before it is in the background, and before its process is there.
Remove ==
  /\ sess.listed /\ Cancelable
  /\ SupervisorCancel
  /\ sess' = [sess EXCEPT !.listed = FALSE, !.backgrounded = FALSE, !.finished = "none"]
  /\ dropped' = When /\ UNCHANGED <<wish, tool, poll>>

\* clear, remove of a finished session, and the sweeper when its time is over.
ClearSession ==
  /\ ~sess.listed /\ sess.finished # "none"
  /\ sess' = [sess EXCEPT !.finished = "none"]
  /\ dropped' = "later" /\ UNCHANGED <<wish, tool, sup, os, poll>>

\* A poll that has time to wait keeps the session in its hands.
Poll ==
  /\ poll = "none" /\ sess.listed /\ sess.backgrounded
  /\ poll' = "waiting"
  /\ UNCHANGED <<wish, tool, sess, sup, os, dropped>>

\* When it finds the session exited it marks it once more, with a status of its own.
PollReturns ==
  /\ poll = "waiting"
  /\ poll' = "none"
  /\ sess' = IF sess.exited
             THEN MarkExited(IF os.result = "zero" THEN "completed" ELSE "failed", sess)
             ELSE sess
  /\ UNCHANGED <<wish, tool, sup, os, dropped>>

-----------------------------------------------------------------------------
ExecNext ==
  \/ Exec \/ Spawned \/ SpawnFails \/ Yield \/ Abort \/ TimesOut
  \/ Exits \/ GraceEnds \/ EndReported \/ FallbackFires
  \/ Kill \/ Remove \/ ClearSession \/ Poll \/ PollReturns

ExecSpec == ExecInit /\ [][ExecNext]_execVars

\* A spawn settles, timers fire, and the end of a process is reported, but for a terminal
\* that has been killed.  Nothing makes a process end by itself.
ExecFairness ==
  /\ WF_execVars(Spawned \/ SpawnFails) /\ WF_execVars(Yield) /\ WF_execVars(TimesOut)
  /\ WF_execVars(GraceEnds) /\ WF_execVars(FallbackFires) /\ WF_execVars(PollReturns)
  /\ WF_execVars((~sup.pty \/ sup.forced = "none") /\ EndReported)

-----------------------------------------------------------------------------
(* Properties *)

ExecTypeOK ==
  /\ tool.at \in {"new", "spawning", "running", "over"}
  /\ tool.answer \in ExecStatuses \cup {"none", "running"}
  /\ sess.finished \in ExecStatuses \cup {"none"}
  /\ sup.record \in {"none", "starting", "running", "exiting", "exited"}
  /\ sup.forced \in {"none", "cancel", "timeout"}
  /\ os.proc \in {"none", "alive", "dead"} /\ os.result \in Results \cup {"none"}
  /\ poll \in {"none", "waiting"} /\ dropped \in {"none", "spawning", "waiting", "later"}
  /\ tool.answer = "none" <=> tool.at # "over"

\* What is reported as ended has ended: neither the fallback of a terminal nor a poll
\* reports a command whose process is alive (adapters/pty.ts:92).
EndedIsDead ==
  sup.settled \/ sess.exited \/ sess.finished # "none" => os.proc # "alive"

\* A process that is alive is in the list of running sessions, or is being killed; only a
\* session removed while its process was being spawned has left one behind
\* (bash-tools.process.ts:131: the run has a record already and is not active yet).
AliveIsInHand ==
  os.proc = "alive" => sess.listed \/ sup.forced # "none" \/ dropped = "spawning"

\* The tool never falls back on killing by process id: a session that is listed has a run
\* the supervisor knows and has not seen exit, whatever was aborted or timed out.
ListedIsSupervised == sess.listed => Cancelable

\* The end of a command in the background is kept for the agent and announced to it, and
\* the end of any other is the answer to the call.
EndIsKnown ==
  sess.exited =>
    IF sess.backgrounded THEN sess.notified /\ (sess.finished # "none" \/ dropped # "none")
    ELSE tool.at = "over"

\* A run that has settled has a record that says so, unless the call was aborted after
\* it: the late abort puts the record back to "exiting" for good (supervisor.ts:92).
RecordsEnd == sup.settled /\ sup.record # "exited" => tool.aborted

\* A command with a timeout has ended, and so has one that was cancelled, and its end has
\* been reported ([]<>), unless processes outside its group hold the pipes of a child.
CommandsHaveEnded ==
  /\ os.proc = "alive" => ~wish.timed /\ sup.forced = "none"
  /\ os.proc = "dead" /\ (sup.pty \/ ~os.held) => sup.settled

\* The list of commands tells what has become of them, and a session removed from the
\* background, or cleared, does not come back, but by a poll that has it in its hands
\* (bash-process-registry.ts:159).
CommandsAreKnown ==
  /\ [](/\ ExecTypeOK /\ EndedIsDead /\ AliveIsInHand /\ ListedIsSupervised
        /\ EndIsKnown /\ RecordsEnd)
  /\ [][dropped = "later" /\ sess.finished = "none" /\ sess'.finished # "none"
         => poll = "waiting"]_execVars
=============================================================================
