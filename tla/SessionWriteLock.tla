-------------------------- MODULE SessionWriteLock --------------------------
(***************************************************************************)
(* The write lock of a session transcript                                  *)
(* (Openclaw-Docker/src/agents/session-write-lock.ts).                     *)
(*                                                                         *)
(* The lock is a file created exclusively.  It names the process that made *)
(* it and, on Linux, when that process was started; whoever finds the file *)
(* may remove it when its maker is gone or when it is too old.  Inside a   *)
(* process a record counts the holders and is given up by the last one, by *)
(* a watchdog, or on a signal.                                             *)
(*                                                                         *)
(* One session file.  A task makes at most one lock file, which is named   *)
(* after it.  A file system call takes effect in one step, and             *)
(* what the code does between two of them is part of the first.  Process   *)
(* ids are used again: a process that starts has the id of one that ended. *)
(* An attempt to remove a file succeeds.                                   *)
(***************************************************************************)
EXTENDS Naturals, FiniteSets

CONSTANTS
  Tasks,          \* calls of acquireSessionWriteLock
  Processes,
  ProcessOf,      \* task -> its process
  Reentrant,      \* the tasks that share a lock their process holds
  Gateways,       \* the processes that sweep stale locks when they start
  MaxStarts       \* bound: process -> how often it is started

NoLockFile == "no file"
Due == "due"          \* the start-up sweep has still to look

\* A lock file is named after its task, so these two name none.
ASSUME WriteLockAssumption ==
  /\ IsFiniteSet(Tasks) /\ {NoLockFile, Due} \cap Tasks = {}
  /\ ProcessOf \in [Tasks -> Processes]
  /\ Reentrant \subseteq Tasks /\ Gateways \subseteq Processes
  /\ MaxStarts \in [Processes -> Nat \ {0}]

VARIABLES
  linux,      \* the start time of a process can be read
  running,    \* process -> it is alive
  starts,     \* process -> how often it was started
  lockFile,   \* the file at the lock path, or NoLockFile
  madeIn,     \* file -> the start of the process that made it
  written,    \* its payload is on disk
  old,        \* it is older than staleMs
  held,       \* HELD_LOCKS: process -> the file its record is about, or NoLockFile
  count,      \* process -> holders counted in that record
  closing,    \* process -> files of released records that it is about to remove
  pc,         \* task -> where it is
  mine,       \* task -> the file its record is about
  judged,     \* task -> the file it has found stale
  sweep,      \* process -> the file its start-up sweep has found stale, if any
  lost        \* tasks whose lock file or record was taken from them (history)

processVars == <<linux, running, starts>>
fileVars == <<lockFile, madeIn, written, old>>
recordVars == <<held, count, closing>>
taskVars == <<pc, mine, judged>>
writeLockVars == <<processVars, fileVars, recordVars, taskVars, sweep, lost>>

\* The maker of file f is alive.
SameProcess(f) == running[ProcessOf[f]] /\ starts[ProcessOf[f]] = madeIn[f]

\* The tasks that hold the lock by file f or are about to.
Users(f) == {t \in Tasks : mine[t] = f /\ pc[t] \in {"writing", "written", "holds"}}

\* The file at the path is removed, whichever it is.
Rm ==
  /\ lockFile' = NoLockFile /\ written' = FALSE /\ old' = FALSE
  /\ lost' = lost \cup Users(lockFile)
  /\ UNCHANGED madeIn

Goto(t, place) == pc' = [pc EXCEPT ![t] = place]

\* The call is over: the task has no lock of its own any more.
Leave(t) ==
  /\ Goto(t, "over")
  /\ mine' = [mine EXCEPT ![t] = NoLockFile]

-----------------------------------------------------------------------------
(* acquireSessionWriteLock *)

\* The record of the process is looked at once, when the directory is known.
Acquire(t) ==
  LET p == ProcessOf[t] IN
  /\ pc[t] = "idle" /\ running[p]
  /\ \/ /\ t \in Reentrant /\ held[p] # NoLockFile
        /\ count' = [count EXCEPT ![p] = @ + 1]
        /\ mine' = [mine EXCEPT ![t] = held[p]]
        /\ lost' = IF Users(held[p]) \subseteq lost THEN lost \cup {t} ELSE lost
        /\ Goto(t, "holds")
     \/ /\ ~(t \in Reentrant /\ held[p] # NoLockFile)
        /\ Goto(t, "trying")
        /\ UNCHANGED <<count, mine, lost>>
  /\ UNCHANGED <<processVars, fileVars, held, closing, judged, sweep>>

\* Mutant: an existing file is opened for writing.
OpenOverwriting(t) ==
  /\ pc[t] = "trying"
  /\ lockFile' = t
  /\ madeIn' = [madeIn EXCEPT ![t] = starts[ProcessOf[t]]]
  /\ mine' = [mine EXCEPT ![t] = t]
  /\ Goto(t, "writing")
  /\ UNCHANGED <<processVars, written, old, recordVars, judged, sweep, lost>>

\* open(lockPath, "wx")
Open(t) ==
  /\ pc[t] = "trying"
  /\ \/ /\ lockFile = NoLockFile
        /\ lockFile' = t
        /\ madeIn' = [madeIn EXCEPT ![t] = starts[ProcessOf[t]]]
        /\ mine' = [mine EXCEPT ![t] = t]
        /\ Goto(t, "writing")
     \/ /\ lockFile # NoLockFile
        /\ Goto(t, "inspecting")
        /\ UNCHANGED <<lockFile, madeIn, mine>>
  /\ UNCHANGED <<processVars, written, old, recordVars, judged, sweep, lost>>

\* The bytes are on disk; the record is made when the call returns.
WritePayload(t) ==
  /\ pc[t] = "writing"
  /\ written' = (written \/ lockFile = t)
  /\ Goto(t, "written")
  /\ UNCHANGED <<processVars, lockFile, madeIn, old, recordVars, mine, judged, sweep, lost>>

\* Whatever record the process has is replaced.
Record(t) ==
  LET p == ProcessOf[t] IN
  /\ pc[t] = "written"
  /\ held' = [held EXCEPT ![p] = mine[t]]
  /\ count' = [count EXCEPT ![p] = 1]
  /\ Goto(t, "holds")
  /\ lost' = lost \cup (Users(held[p]) \ {t})
  /\ UNCHANGED <<processVars, fileVars, closing, mine, judged, sweep>>

\* The payload could not be written: the path is removed, and the call fails.
WriteFails(t) ==
  /\ pc[t] = "writing"
  /\ Goto(t, "undoing")
  /\ UNCHANGED <<processVars, fileVars, recordVars, mine, judged, sweep, lost>>

Undo(t) ==
  /\ pc[t] = "undoing"
  /\ Rm
  /\ Leave(t)
  /\ UNCHANGED <<processVars, recordVars, judged, sweep>>

GiveUp(t) ==
  /\ pc[t] = "trying"
  /\ Leave(t)
  /\ UNCHANGED <<processVars, fileVars, recordVars, judged, sweep, lost>>

-----------------------------------------------------------------------------
(* Stale files *)

\* inspectLockPayload: the pid names no process, or one started at another time.
DeadOrRecycled(f) ==
  \/ ~running[ProcessOf[f]]
  \/ linux /\ starts[ProcessOf[f]] # madeIn[f]

\* shouldTreatAsOrphanSelfLock: this pid, no start time, no record.
OrphanSelf(t, f) ==
  /\ ProcessOf[f] = ProcessOf[t]
  /\ ~linux
  /\ held[ProcessOf[t]] = NoLockFile

\* Mutant: a file without a payload is stale at any age.
ReclaimableUnwritten(t, f) ==
  old \/ ~written \/ DeadOrRecycled(f) \/ OrphanSelf(t, f)

\* shouldReclaimContendedLockFile: a file without a payload has only its age.
Reclaimable(t, f) ==
  old \/ (written /\ (DeadOrRecycled(f) \/ OrphanSelf(t, f)))

Inspect(t) ==
  /\ pc[t] = "inspecting"
  /\ \/ /\ lockFile # NoLockFile /\ Reclaimable(t, lockFile)
        /\ judged' = [judged EXCEPT ![t] = lockFile]
        /\ Goto(t, "removing")
     \/ /\ lockFile = NoLockFile \/ ~Reclaimable(t, lockFile)
        /\ Goto(t, "trying")
        /\ UNCHANGED judged
  /\ UNCHANGED <<processVars, fileVars, recordVars, mine, sweep, lost>>

Reclaim(t) ==
  /\ pc[t] = "removing"
  /\ Rm
  /\ judged' = [judged EXCEPT ![t] = NoLockFile]
  /\ Goto(t, "trying")
  /\ UNCHANGED <<processVars, recordVars, mine, sweep>>

\* cleanStaleLockFiles, when a gateway starts: a file without a payload is stale.
SweepInspect(p) ==
  /\ running[p] /\ sweep[p] = Due
  /\ sweep' = [sweep EXCEPT ![p] =
       IF lockFile # NoLockFile /\ (~written \/ old \/ DeadOrRecycled(lockFile))
       THEN lockFile ELSE NoLockFile]
  /\ UNCHANGED <<processVars, fileVars, recordVars, taskVars, lost>>

SweepRemove(p) ==
  /\ running[p] /\ sweep[p] \notin {NoLockFile, Due}
  /\ Rm
  /\ sweep' = [sweep EXCEPT ![p] = NoLockFile]
  /\ UNCHANGED <<processVars, recordVars, taskVars>>

FileAges ==
  /\ lockFile # NoLockFile /\ ~old
  /\ old' = TRUE
  /\ UNCHANGED <<processVars, lockFile, madeIn, written, recordVars, taskVars, sweep, lost>>

-----------------------------------------------------------------------------
(* releaseHeldLock *)

\* The record is deleted at once, the file after it has been closed.
GiveUpRecord(p) ==
  /\ held' = [held EXCEPT ![p] = NoLockFile]
  /\ count' = [count EXCEPT ![p] = 0]
  /\ closing' = [closing EXCEPT ![p] = @ \cup {held[p]}]

\* Mutant: whatever record the process has is counted down.
ReleaseOfAny(t) ==
  LET p == ProcessOf[t] IN
  /\ pc[t] = "holds"
  /\ Leave(t)
  /\ \/ count[p] = 1 /\ GiveUpRecord(p)
     \/ /\ count[p] # 1
        /\ count' = [count EXCEPT ![p] = @ - 1]
        /\ UNCHANGED <<held, closing>>
  /\ UNCHANGED <<processVars, fileVars, judged, sweep, lost>>

ReleaseLock(t) ==
  LET p == ProcessOf[t] IN
  /\ pc[t] = "holds"
  /\ Leave(t)
  /\ \/ /\ held[p] = mine[t] /\ count[p] = 1 /\ GiveUpRecord(p)
     \/ /\ held[p] = mine[t] /\ count[p] > 1
        /\ count' = [count EXCEPT ![p] = @ - 1]
        /\ UNCHANGED <<held, closing>>
     \/ held[p] # mine[t] /\ UNCHANGED recordVars
  /\ UNCHANGED <<processVars, fileVars, judged, sweep, lost>>

CloseEndsWithRm(p, f) ==
  /\ f \in closing[p]
  /\ Rm
  /\ closing' = [closing EXCEPT ![p] = @ \ {f}]
  /\ UNCHANGED <<processVars, held, count, taskVars, sweep>>

\* Mutant: the record is dropped and the file stays.
WatchdogKeepingFile(p) ==
  /\ held[p] # NoLockFile
  /\ held' = [held EXCEPT ![p] = NoLockFile]
  /\ count' = [count EXCEPT ![p] = 0]
  /\ lost' = lost \cup Users(held[p])
  /\ UNCHANGED <<processVars, fileVars, closing, taskVars, sweep>>

\* runLockWatchdogCheck: the lock has been held for longer than maxHoldMs.
Watchdog(p) ==
  /\ held[p] # NoLockFile
  /\ GiveUpRecord(p)
  /\ lost' = lost \cup Users(held[p])
  /\ UNCHANGED <<processVars, fileVars, taskVars, sweep>>

\* releaseAllLocksSync: record and file go in one step.
ReleaseAllLocksSync(p) ==
  /\ \/ /\ held[p] # NoLockFile
        /\ lockFile' = NoLockFile /\ written' = FALSE /\ old' = FALSE
        /\ lost' = lost \cup Users(held[p]) \cup Users(lockFile)
     \/ held[p] = NoLockFile /\ UNCHANGED <<lockFile, written, old, lost>>
  /\ held' = [held EXCEPT ![p] = NoLockFile]
  /\ count' = [count EXCEPT ![p] = 0]
  /\ UNCHANGED madeIn

\* Others listen for the signal too: the process goes on, and shuts down later.
Signal(p) ==
  /\ held[p] # NoLockFile
  /\ ReleaseAllLocksSync(p)
  /\ UNCHANGED <<processVars, closing, taskVars, sweep>>

-----------------------------------------------------------------------------
(* Processes *)

Gone(p) ==
  /\ running[p]
  /\ running' = [running EXCEPT ![p] = FALSE]
  /\ closing' = [closing EXCEPT ![p] = {}]
  /\ LET ended == {t \in Tasks : ProcessOf[t] = p /\ pc[t] # "idle"} IN
     /\ pc' = [t \in Tasks |-> IF t \in ended THEN "over" ELSE pc[t]]
     /\ mine' = [t \in Tasks |-> IF t \in ended THEN NoLockFile ELSE mine[t]]
     /\ judged' = [t \in Tasks |-> IF t \in ended THEN NoLockFile ELSE judged[t]]
  /\ sweep' = [sweep EXCEPT ![p] = NoLockFile]
  /\ UNCHANGED <<linux, starts>>

Exit(p) ==
  /\ Gone(p)
  /\ ReleaseAllLocksSync(p)

Killed(p) ==
  /\ Gone(p)
  /\ held' = [held EXCEPT ![p] = NoLockFile]
  /\ count' = [count EXCEPT ![p] = 0]
  /\ UNCHANGED <<fileVars, lost>>

Start(p) ==
  /\ ~running[p] /\ starts[p] < MaxStarts[p]
  /\ running' = [running EXCEPT ![p] = TRUE]
  /\ starts' = [starts EXCEPT ![p] = @ + 1]
  /\ sweep' = [sweep EXCEPT ![p] = IF p \in Gateways THEN Due ELSE NoLockFile]
  /\ UNCHANGED <<linux, fileVars, recordVars, taskVars, lost>>

-----------------------------------------------------------------------------
WriteLockInit ==
  /\ linux \in BOOLEAN
  /\ running = [p \in Processes |-> TRUE]
  /\ starts = [p \in Processes |-> 1]
  /\ lockFile = NoLockFile /\ written = FALSE /\ old = FALSE
  /\ madeIn = [t \in Tasks |-> 0]
  /\ held = [p \in Processes |-> NoLockFile]
  /\ count = [p \in Processes |-> 0]
  /\ closing = [p \in Processes |-> {}]
  /\ pc = [t \in Tasks |-> "idle"]
  /\ mine = [t \in Tasks |-> NoLockFile]
  /\ judged = [t \in Tasks |-> NoLockFile]
  /\ sweep = [p \in Processes |-> IF p \in Gateways THEN Due ELSE NoLockFile]
  /\ lost = {}

WriteLockNext ==
  \/ \E t \in Tasks :
       \/ Acquire(t) \/ Open(t) \/ WritePayload(t) \/ Record(t) \/ WriteFails(t) \/ Undo(t)
       \/ GiveUp(t) \/ Inspect(t) \/ Reclaim(t) \/ ReleaseLock(t)
  \/ \E p \in Processes :
       \/ SweepInspect(p) \/ SweepRemove(p) \/ Watchdog(p) \/ Signal(p)
       \/ Exit(p) \/ Killed(p) \/ Start(p)
       \/ \E f \in Tasks : CloseEndsWithRm(p, f)
  \/ FileAges

WriteLockSpec == WriteLockInit /\ [][WriteLockNext]_writeLockVars

-----------------------------------------------------------------------------
(* Properties *)

\* The shapes of the state.
WriteLockTypeOK ==
  /\ {linux, written, old} \subseteq BOOLEAN
  /\ running \in [Processes -> BOOLEAN]
  /\ \A p \in Processes : starts[p] \in 1..MaxStarts[p]
  /\ lockFile \in Tasks \cup {NoLockFile}
  /\ madeIn \in [Tasks -> Nat]
  /\ held \in [Processes -> Tasks \cup {NoLockFile}]
  /\ count \in [Processes -> 0..Cardinality(Tasks)]
  /\ closing \in [Processes -> SUBSET Tasks]
  /\ pc \in [Tasks -> {"idle", "trying", "writing", "written", "undoing",
                       "inspecting", "removing", "holds", "over"}]
  /\ mine \in [Tasks -> Tasks \cup {NoLockFile}]
  /\ judged \in [Tasks -> Tasks \cup {NoLockFile}]
  /\ sweep \in [Processes -> Tasks \cup {NoLockFile, Due}]
  /\ lost \subseteq Tasks

\* A record counts the tasks that hold through it: the lock is given up with the last
\* of them, not before, and a task whose record the watchdog has given up does not
\* release the record that came after it (session-write-lock.ts:126).
RecordCountsHolders ==
  \A p \in Processes :
    LET holders == {t \in Tasks : ProcessOf[t] = p /\ pc[t] = "holds"} IN
    /\ held[p] # NoLockFile => count[p] = Cardinality({t \in holders : mine[t] = held[p]})
    /\ \A t \in holders \ lost : mine[t] = held[p]

\* A lock file on disk is of a process that is gone, or something in the process that
\* made it has still to remove the path: no failed write, forced release or signal
\* leaves a file that keeps everybody out until it is too old.
LockFileHasOwner ==
  lockFile # NoLockFile =>
    LET p == ProcessOf[lockFile] IN
    \/ ~SameProcess(lockFile)
    \/ held[p] # NoLockFile \/ closing[p] # {}
    \/ \E t \in Tasks : ProcessOf[t] = p /\ pc[t] \in {"writing", "written", "undoing"}

\* Tasks that hold the lock at once hold it by one record, but for those whose process
\* has given the lock up under them or whose lock file has been removed.
OneWriterUnlessLost ==
  \A t, u \in Tasks \ lost : pc[t] = "holds" /\ pc[u] = "holds" => mine[t] = mine[u]

\* A waiter removes a lock in use only when it is too old, when it is not the file
\* the waiter has inspected, or, where start times cannot be read, in the process
\* that uses it: a file whose payload is still being written is safe.
FreshLocksStay ==
  [][\A t \in Tasks :
       /\ pc[t] = "removing" /\ pc'[t] = "trying"
       /\ judged[t] = lockFile /\ Users(lockFile) # {} /\ ~old
       => ~linux /\ ProcessOf[lockFile] = ProcessOf[t]]_writeLockVars

\* The three views of the lock agree, the record of a process, the tasks that hold
\* through it and the file on disk, and one record at a time is held.
WriteLockInv ==
  WriteLockTypeOK /\ RecordCountsHolders /\ LockFileHasOwner /\ OneWriterUnlessLost
=============================================================================
