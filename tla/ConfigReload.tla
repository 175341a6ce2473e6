---------------------------- MODULE ConfigReload ----------------------------
(***************************************************************************)
(* The configuration reloader: src/gateway/config-reload.ts, with the      *)
(* handlers it calls, src/gateway/server-reload-handlers.ts and            *)
(* src/gateway/server.impl.ts.                                             *)
(*                                                                         *)
(* The watcher reports a change of the file some time after it, a debounce *)
(* timer waits for more, and one reload at a time reads the file, compares *)
(* it with the configuration recorded last and applies the difference: in  *)
(* place, by a restart, or not at all.  A configuration is what a restart  *)
(* is needed for (cold), the rest (hot) and the reload mode.  The module   *)
(* is one life of the gateway: a restart stops the reloader, and the next  *)
(* life begins in Init.                                                    *)
(***************************************************************************)
EXTENDS Naturals

CONSTANTS
  ReloadModes,      \* the modes an edit may choose
  MissingRetries,   \* MISSING_CONFIG_MAX_RETRIES
  MaxEdits          \* bound on the edits of the file

ASSUME ReloadAssumption ==
  /\ ReloadModes \subseteq {"off", "restart", "hot", "hybrid"} /\ ReloadModes # {}
  /\ MissingRetries \in Nat /\ MaxEdits \in Nat

Config == [cold : 0..MaxEdits, hot : 0..MaxEdits, mode : ReloadModes]
\* A file that is not there and one that does not pass the schema, in the same shape.
Missing == [cold |-> 0, hot |-> 0, mode |-> "missing"]
Invalid == [cold |-> 0, hot |-> 0, mode |-> "invalid"]
Unreadable == {Missing, Invalid}

VARIABLES
  conf,           \* what the file holds
  edits,          \* edits so far
  watcher,        \* "starting", "on", "failed" or "stopped"
  changed,        \* the file has changed and the watcher has not said so yet
  debounce,       \* the timer is set
  reloading,      \* runReload: "no", "reading", "read" or "applying"
  snapshot,       \* what it has read
  reloadPending,  \* the timer has fired during a reload
  missingTries,   \* missingConfigRetries
  currentConf,    \* currentConfig and, by its mode, settings
  restartQueued,  \* a restart was handed to onRestart
  restart,        \* onRestart: "no", "checking", "asked" or "skipped"
  live,           \* the configuration in effect
  unseen,         \* history: the file has changed while nobody watched
  passedOver      \* history: a difference was recorded and not applied

reloadVars == <<conf, edits, watcher, changed, debounce, reloading, snapshot, reloadPending,
                missingTries, currentConf, restartQueued, restart, live, unseen, passedOver>>
watched == <<conf, edits, changed, watcher, unseen>>
applied == <<currentConf, restartQueued, restart, live, passedOver>>

ReloadInit ==
  /\ conf \in [cold : {0}, hot : {0}, mode : ReloadModes]
  /\ currentConf = conf /\ live = conf /\ snapshot = conf
  /\ edits = 0 /\ missingTries = 0
  /\ watcher = "starting" /\ reloading = "no" /\ restart = "no"
  /\ changed = FALSE /\ debounce = FALSE /\ reloadPending = FALSE
  /\ restartQueued = FALSE /\ unseen = FALSE /\ passedOver = FALSE

-----------------------------------------------------------------------------
(* The file and its watcher *)

Edited ==
  (Unreadable \cup IF conf \in Config
   THEN {[conf EXCEPT !.cold = edits + 1], [conf EXCEPT !.hot = edits + 1],
         [conf EXCEPT !.cold = edits + 1, !.hot = edits + 1]}
          \cup {[conf EXCEPT !.mode = m] : m \in ReloadModes}
   ELSE {[currentConf EXCEPT !.hot = edits + 1], currentConf}) \ {conf}

\* ignoreInitial: what has changed before the watcher is up is not reported.
Edit ==
  /\ edits < MaxEdits /\ edits' = edits + 1
  /\ conf' \in Edited
  /\ changed' = (watcher = "on" \/ changed)
  /\ unseen' = (watcher # "on")
  /\ UNCHANGED <<watcher, debounce, reloading, snapshot, reloadPending, missingTries, applied>>

\* The reloader is created at the end of the start, with the configuration read at its
\* beginning (server.impl.ts:849).
Watch ==
  /\ watcher = "starting" /\ watcher' = "on"
  /\ UNCHANGED <<conf, edits, changed, unseen, debounce, reloading, snapshot, reloadPending,
                 missingTries, applied>>

\* schedule: a timer that is set already is set anew.
WatcherReports ==
  /\ changed /\ watcher = "on"
  /\ changed' = FALSE /\ debounce' = TRUE
  /\ UNCHANGED <<conf, edits, watcher, unseen, reloading, snapshot, reloadPending, missingTries,
                 applied>>

\* An error closes the watcher for good.
WatcherFails ==
  /\ watcher = "on" /\ watcher' = "failed"
  /\ unseen' = (unseen \/ changed) /\ changed' = FALSE
  /\ UNCHANGED <<conf, edits, debounce, reloading, snapshot, reloadPending, missingTries, applied>>

\* stop does not wait for a reload that is on its way.
StopReloader ==
  /\ watcher \in {"on", "failed"} /\ watcher' = "stopped"
  /\ debounce' = FALSE /\ changed' = FALSE
  /\ UNCHANGED <<conf, edits, unseen, reloading, snapshot, reloadPending, missingTries, applied>>

-----------------------------------------------------------------------------
(* runReload *)

\* Mutant: a timer that fires during a reload is not remembered.
RunReloadUnlessRunning ==
  /\ debounce /\ debounce' = FALSE
  /\ reloading' = IF reloading = "no" THEN "reading" ELSE reloading
  /\ UNCHANGED <<watched, snapshot, reloadPending, missingTries, applied>>

RunReload ==
  /\ debounce /\ debounce' = FALSE
  /\ IF reloading = "no"
     THEN reloading' = "reading" /\ UNCHANGED reloadPending
     ELSE reloadPending' = TRUE /\ UNCHANGED reloading
  /\ UNCHANGED <<watched, snapshot, missingTries, applied>>

ReadSnapshot ==
  /\ reloading = "reading" /\ reloading' = "read"
  /\ snapshot' = conf
  /\ UNCHANGED <<watched, debounce, reloadPending, missingTries, applied>>

\* The end of a reload; `again' when it has set the timer itself.
EndReload(again) ==
  /\ reloading' = "no" /\ reloadPending' = FALSE
  /\ debounce' = (debounce \/ (watcher # "stopped" /\ (reloadPending \/ again)))

\* The file is gone or cannot be used.  It is looked for again a few times when it is gone.
Skip ==
  /\ reloading = "read" /\ snapshot \in Unreadable
  /\ LET retry == snapshot = Missing /\ missingTries < MissingRetries IN
       /\ missingTries' = IF retry THEN missingTries + 1
                          ELSE IF snapshot = Missing THEN missingTries ELSE 0
       /\ EndReload(retry)
  /\ UNCHANGED <<watched, snapshot, applied>>

QueueRestart ==
  /\ restartQueued' = TRUE
  /\ restart' = IF restartQueued THEN restart ELSE "checking"

\* applySnapshot: the new configuration is recorded before it is known what comes of it.
Apply ==
  /\ reloading = "read" /\ snapshot \in Config
  /\ missingTries' = 0
  /\ currentConf' = snapshot
  /\ LET same == snapshot = currentConf
         needsRestart == snapshot.cold # currentConf.cold
         mode == snapshot.mode IN
       \/ /\ same \/ mode = "off" \/ (mode = "hot" /\ needsRestart)
          /\ passedOver' = (passedOver \/ ~same)
          /\ EndReload(FALSE)
          /\ UNCHANGED <<restartQueued, restart>>
       \/ /\ ~same /\ (mode = "restart" \/ (mode = "hybrid" /\ needsRestart))
          /\ QueueRestart
          /\ EndReload(FALSE)
          /\ UNCHANGED passedOver
       \/ /\ ~same /\ mode \in {"hot", "hybrid"} /\ ~needsRestart
          /\ reloading' = "applying"
          /\ UNCHANGED <<restartQueued, restart, debounce, reloadPending, passedOver>>
  /\ UNCHANGED <<watched, snapshot, live>>

\* onHotReload has ended, or has failed on its way.
Applied ==
  /\ reloading = "applying"
  /\ \/ live' = [live EXCEPT !.hot = snapshot.hot, !.mode = snapshot.mode] /\ UNCHANGED passedOver
     \/ passedOver' = TRUE /\ UNCHANGED live
  /\ EndReload(FALSE)
  /\ UNCHANGED <<watched, snapshot, missingTries, currentConf, restartQueued, restart>>

\* onRestart checks the secrets and asks for the restart, if somebody listens for it.
RestartChecked ==
  /\ restart = "checking"
  /\ \/ restart' = "asked" /\ UNCHANGED <<restartQueued, passedOver>>
     \/ restart' = "skipped" /\ passedOver' = TRUE /\ UNCHANGED restartQueued
     \/ restart' = "no" /\ restartQueued' = FALSE /\ passedOver' = TRUE
  /\ UNCHANGED <<watched, debounce, reloading, snapshot, reloadPending, missingTries, currentConf,
                 live>>

-----------------------------------------------------------------------------
ReloadStep ==
  RunReload \/ ReadSnapshot \/ Skip \/ Apply \/ Applied \/ RestartChecked

ReloadNext ==
  \/ Edit \/ Watch \/ WatcherReports \/ WatcherFails \/ StopReloader
  \/ RunReload \/ ReadSnapshot \/ Skip \/ Apply \/ Applied \/ RestartChecked

ReloadSpec == ReloadInit /\ [][ReloadNext]_reloadVars

\* The watcher reports, timers fire, reads and handlers end.
ReloadFairness == WF_reloadVars(WatcherReports) /\ WF_reloadVars(ReloadStep)

-----------------------------------------------------------------------------
(* Properties *)

\* The shapes of the state; a reload that waits for another one has one to wait for, and
\* nothing is set in motion any more by a reloader that was stopped.
ReloadTypeOK ==
  /\ {conf, snapshot} \subseteq Config \cup Unreadable /\ {currentConf, live} \subseteq Config
  /\ watcher \in {"starting", "on", "failed", "stopped"}
  /\ reloading \in {"no", "reading", "read", "applying"}
  /\ restart \in {"no", "checking", "asked", "skipped"} /\ (restart # "no" <=> restartQueued)
  /\ missingTries \in 0..MissingRetries
  /\ reloadPending => reloading # "no"
  /\ watcher = "stopped" => ~changed /\ ~debounce
  /\ {changed, debounce, reloadPending, restartQueued, unseen, passedOver} \subseteq BOOLEAN

Quiet == ~changed /\ ~debounce /\ reloading = "no" /\ restart # "checking"

\* What the file says is recorded or somebody is on the way to read it, however edits,
\* reports, timers and reloads overlap; the exceptions are changes before the watcher is
\* up and after it has failed (config-reload.ts:225).
ChangesAreNoticed ==
  watcher = "on" /\ ~unseen /\ conf \in Config /\ conf # currentConf => ~Quiet

\* What was recorded is in effect or a restart was asked for, unless the mode says
\* otherwise or a handler has failed: then only a later change of the same settings, or
\* a restart, brings it into effect (config-reload.ts:152).
RecordedIsApplied ==
  Quiet /\ ~passedOver => live = currentConf \/ restart = "asked"

ReloadInv == ReloadTypeOK /\ ChangesAreNoticed /\ RecordedIsApplied

\* The content of the file is recorded, if it can be used and the reloader watches: the
\* last change counts ([]<>).
FileIsRecorded ==
  conf = currentConf \/ conf \notin Config \/ unseen \/ watcher # "on"
=============================================================================
