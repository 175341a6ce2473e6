--------------------------- MODULE SharedFilesProofs ---------------------------
(***************************************************************************)
(* Proofs about the two components that share a file, for any values of    *)
(* their constants.                                                        *)
(*                                                                         *)
(* SessionWriteLock: the record of a process, the tasks that hold through  *)
(* it and the file on disk agree, and a waiter takes no lock that is in    *)
(* use and fresh.                                                          *)
(*                                                                         *)
(* CronService: while one service works on the store, the markers in the   *)
(* file and in memory cover its executions, a next run in the file has     *)
(* something that wakes the service, and a due job is not put off.         *)
(***************************************************************************)
EXTENDS SessionWriteLock, CronService, FiniteSetTheorems, TLAPS

-----------------------------------------------------------------------------
(* The session write lock: the inductive invariant *)

\* Tasks that have a lock file or are about to have its record.
Uses(t) == pc[t] \in {"writing", "written", "holds"}

\* A task that has made its lock file makes no other.
Opened(t) == pc[t] \in {"writing", "written", "undoing", "holds", "over"}
HasRecord(t) == pc[t] \in {"holds", "over"}

Holders(p, f) == {t \in Tasks : ProcessOf[t] = p /\ pc[t] = "holds" /\ mine[t] = f}

LockTypes ==
  /\ linux \in BOOLEAN /\ written \in BOOLEAN /\ old \in BOOLEAN
  /\ running \in [Processes -> BOOLEAN] /\ starts \in [Processes -> Nat]
  /\ \A p \in Processes : starts[p] \in 1..MaxStarts[p]
  /\ lockFile \in Tasks \cup {NoLockFile} /\ madeIn \in [Tasks -> Nat]
  /\ held \in [Processes -> Tasks \cup {NoLockFile}] /\ count \in [Processes -> Nat]
  /\ closing \in [Processes -> SUBSET Tasks]
  /\ pc \in [Tasks -> {"idle", "trying", "writing", "written", "undoing",
                       "inspecting", "removing", "holds", "over"}]
  /\ mine \in [Tasks -> Tasks \cup {NoLockFile}] /\ judged \in [Tasks -> Tasks \cup {NoLockFile}]
  /\ sweep \in [Processes -> Tasks \cup {NoLockFile, Due}]
  /\ lost \in SUBSET Tasks

\* What a task is at: it has a process, and until its record is made its own file.
TasksAreAlive == \A t \in Tasks : pc[t] \notin {"idle", "over"} => running[ProcessOf[t]]
OwnFile == \A t \in Tasks : pc[t] \in {"writing", "written", "undoing"} => mine[t] = t

\* A file in use was made by the process that uses it, since it has started; so it was
\* in the record, when there is one.
UsedFilesAreOwn ==
  \A t \in Tasks : Uses(t) =>
    mine[t] \in Tasks /\ ProcessOf[mine[t]] = ProcessOf[t] /\ SameProcess(mine[t])
HeldFilesAreRecorded == \A t \in Tasks : pc[t] = "holds" => HasRecord(mine[t])
RecordsAreOwn ==
  \A p \in Processes :
    IF held[p] = NoLockFile THEN count[p] = 0
    ELSE ProcessOf[held[p]] = p /\ HasRecord(held[p]) /\ SameProcess(held[p])

\* Files are made once, in the past.
MadeBefore == \A f \in Tasks : madeIn[f] <= starts[ProcessOf[f]]
LockFileWasOpened == lockFile # NoLockFile => Opened(lockFile)
JudgedWasOpened == \A t \in Tasks : judged[t] # NoLockFile => Opened(judged[t])

\* The file of whoever has lost nothing is the one at the path.
UnlostFileIsThere == \A t \in Tasks \ lost : Uses(t) => lockFile = mine[t]

\* A file about to be reclaimed that is still the one at the path is too old, or the
\* process that made it is gone, or it was made in this process.
JudgedIsStale ==
  \A t \in Tasks : pc[t] = "removing" /\ judged[t] = lockFile /\ lockFile # NoLockFile =>
    old \/ ~SameProcess(lockFile) \/ (~linux /\ ProcessOf[lockFile] = ProcessOf[t])

CountIsHolders ==
  \A p \in Processes : held[p] # NoLockFile => count[p] = Cardinality(Holders(p, held[p]))
HoldersHoldByRecord ==
  \A t \in Tasks \ lost : pc[t] = "holds" => mine[t] = held[ProcessOf[t]]

WriteLockIInv ==
  /\ LockTypes /\ TasksAreAlive /\ OwnFile /\ UsedFilesAreOwn /\ HeldFilesAreRecorded
  /\ RecordsAreOwn /\ MadeBefore /\ LockFileWasOpened /\ JudgedWasOpened
  /\ UnlostFileIsThere /\ JudgedIsStale
  /\ CountIsHolders /\ HoldersHoldByRecord /\ LockFileHasOwner
-----------------------------------------------------------------------------
(* The steps *)

USE DEF Goto, Leave, Rm, processVars, fileVars, recordVars, taskVars

\* Holders can be counted.
LEMMA HoldersAreFinite ==
  ASSUME NEW p, NEW f
  PROVE  /\ IsFiniteSet(Holders(p, f)) /\ Cardinality(Holders(p, f)) \in Nat
         /\ Cardinality(Holders(p, f)) <= Cardinality(Tasks) /\ Cardinality(Tasks) \in Nat
<1>1. Holders(p, f) \subseteq Tasks /\ IsFiniteSet(Tasks)
  BY WriteLockAssumption DEF Holders
<1> QED
  BY <1>1, FS_Subset, FS_CardinalityType

LEMMA WriteLockInitInv == WriteLockInit => WriteLockIInv
<1> SUFFICES ASSUME WriteLockInit PROVE WriteLockIInv
  OBVIOUS
<1>1. LockTypes
  <2>1. /\ starts \in [Processes -> Nat]
        /\ \A p \in Processes : starts[p] \in 1..MaxStarts[p]
    <3>1. \A p \in Processes : starts[p] = 1 /\ MaxStarts[p] \in Nat \ {0}
      BY WriteLockAssumption DEF WriteLockInit
    <3> QED
      BY <3>1 DEF WriteLockInit
  <2> QED
    BY <2>1 DEF WriteLockInit, LockTypes
<1>2. (TasksAreAlive /\ OwnFile /\ UsedFilesAreOwn /\ HeldFilesAreRecorded /\ RecordsAreOwn)
  BY DEF WriteLockInit, TasksAreAlive, OwnFile, UsedFilesAreOwn, HeldFilesAreRecorded,
         RecordsAreOwn, Uses
<1>3. MadeBefore /\ LockFileWasOpened /\ JudgedWasOpened
  BY WriteLockAssumption DEF WriteLockInit, MadeBefore, LockFileWasOpened, JudgedWasOpened
<1>4. UnlostFileIsThere /\ JudgedIsStale /\ CountIsHolders /\ HoldersHoldByRecord
  BY WriteLockAssumption DEF WriteLockInit, UnlostFileIsThere, JudgedIsStale, CountIsHolders,
     HoldersHoldByRecord, Uses
<1>5. LockFileHasOwner
  BY DEF WriteLockInit, LockFileHasOwner
<1> QED
  BY <1>1, <1>2, <1>3, <1>4, <1>5 DEF WriteLockIInv

\* A task that joins holds by a file of its own process, which is recorded and counted.
LEMMA AcquireStep ==
  ASSUME WriteLockIInv, NEW t \in Tasks, Acquire(t)
  PROVE  WriteLockIInv'
<1> DEFINE p == ProcessOf[t]
<1>1. /\ pc[t] = "idle" /\ running[p] /\ p \in Processes
      /\ UNCHANGED <<processVars, fileVars, held, closing, judged, sweep>>
  BY WriteLockAssumption DEF Acquire
<1>2. CASE t \in Reentrant /\ held[p] # NoLockFile
  <2> DEFINE f == held[p]
  <2>1. /\ count' = [count EXCEPT ![p] = @ + 1]
        /\ mine' = [mine EXCEPT ![t] = f]
        /\ lost' = IF Users(f) \subseteq lost THEN lost \cup {t} ELSE lost
        /\ pc' = [pc EXCEPT ![t] = "holds"]
    BY <1>2 DEF Acquire
  <2>2. LockTypes
    BY DEF WriteLockIInv
  <2>3. /\ f \in Tasks /\ f # t /\ ProcessOf[f] = p /\ HasRecord(f) /\ SameProcess(f)
    BY <1>1, <1>2, <2>2 DEF WriteLockIInv, LockTypes, RecordsAreOwn, HasRecord
  <2>4. /\ pc'[t] = "holds" /\ mine'[t] = f
        /\ \A u \in Tasks \ {t} : pc'[u] = pc[u] /\ mine'[u] = mine[u]
    BY <2>1, <2>2 DEF LockTypes
  <2> HIDE DEF f
  <2>5. LockTypes'
    <3>1. count' \in [Processes -> Nat]
      BY <1>1, <2>1, <2>2 DEF LockTypes
    <3>2. pc' \in [Tasks -> {"idle", "trying", "writing", "written", "undoing",
                             "inspecting", "removing", "holds", "over"}]
      BY <2>1, <2>2 DEF LockTypes
    <3>3. mine' \in [Tasks -> Tasks \cup {NoLockFile}] /\ lost' \in SUBSET Tasks
      BY <2>1, <2>2, <2>3 DEF LockTypes
    <3> QED
      BY <1>1, <2>2, <3>1, <3>2, <3>3 DEF LockTypes
  <2>6. (TasksAreAlive /\ OwnFile /\ UsedFilesAreOwn)'
    BY <1>1, <2>3, <2>4 DEF WriteLockIInv, TasksAreAlive, OwnFile, UsedFilesAreOwn, Uses, SameProcess
  <2>7. \A u \in Tasks : /\ HasRecord(u) => HasRecord(u)'
                         /\ Opened(u) => Opened(u)'
                         /\ SameProcess(u)' = SameProcess(u)
    BY <1>1, <2>4 DEF HasRecord, Opened, SameProcess
  <2>8. HeldFilesAreRecorded'
    <3> SUFFICES ASSUME NEW u \in Tasks, NEW g, pc'[u] = "holds", mine'[u] = g PROVE HasRecord(g)'
      BY DEF HeldFilesAreRecorded, HasRecord
    <3>1. CASE u = t
      BY <2>3, <2>4, <2>7, <3>1
    <3>2. CASE u # t
      <4>1. mine[u] = g /\ pc[u] = "holds" /\ g \in Tasks /\ HasRecord(g)
        BY <2>4, <3>2 DEF WriteLockIInv, HeldFilesAreRecorded, UsedFilesAreOwn, Uses
      <4> QED
        BY <2>7, <4>1
    <3> QED
      BY <3>1, <3>2
  <2>9. RecordsAreOwn'
    <3> SUFFICES ASSUME NEW q \in Processes, NEW g, held[q] = g
                 PROVE  IF g = NoLockFile THEN count'[q] = 0
                        ELSE ProcessOf[g] = q /\ HasRecord(g)' /\ SameProcess(g)'
      BY <1>1 DEF RecordsAreOwn, HasRecord, SameProcess
    <3>1. CASE q = p
      BY <1>2, <2>3, <2>7, <3>1 DEF f
    <3>2. CASE q # p
      <4>1. count'[q] = count[q] /\ g \in Tasks \cup {NoLockFile}
        BY <2>1, <2>2, <3>2 DEF LockTypes
      <4>2. IF g = NoLockFile THEN count[q] = 0
            ELSE ProcessOf[g] = q /\ HasRecord(g) /\ SameProcess(g)
        BY DEF WriteLockIInv, RecordsAreOwn
      <4> QED
        BY <2>7, <4>1, <4>2
    <3> QED
      BY <3>1, <3>2
  <2>10. (MadeBefore /\ LockFileWasOpened /\ JudgedWasOpened)'
    BY <1>1, <2>2, <2>7 DEF WriteLockIInv, LockTypes, MadeBefore, LockFileWasOpened, JudgedWasOpened,
       Opened
  <2>11. (UnlostFileIsThere /\ HoldersHoldByRecord)'
    <3>1. lost \subseteq lost' /\ (t \notin lost' => \E u \in Users(f) : u \notin lost)
      BY <2>1
    <3>2. t \notin lost' => lockFile = f
      BY <3>1 DEF WriteLockIInv, UnlostFileIsThere, Users, Uses
    <3> QED
      BY <1>1, <2>4, <3>1, <3>2 DEF WriteLockIInv, UnlostFileIsThere, HoldersHoldByRecord, Uses, f
  <2>12. JudgedIsStale'
    BY <1>1, <2>4 DEF WriteLockIInv, JudgedIsStale, SameProcess
  <2>13. CountIsHolders'
    <3> SUFFICES ASSUME NEW q \in Processes, NEW g, held[q] = g, g # NoLockFile
                 PROVE  count'[q] = Cardinality(Holders(q, g)')
      BY <1>1 DEF CountIsHolders, Holders
    <3>1. count[q] = Cardinality(Holders(q, g)) /\ count[q] \in Nat
      BY <2>2 DEF WriteLockIInv, CountIsHolders, LockTypes
    <3>2. CASE q = p
      <4>0. g = f
        BY <3>2 DEF f
      <4>1. Holders(p, g)' = Holders(p, g) \cup {t} /\ t \notin Holders(p, g)
        BY <1>1, <2>4, <4>0 DEF Holders
      <4>2. Cardinality(Holders(p, g)') = Cardinality(Holders(p, g)) + 1
        BY <4>1, HoldersAreFinite, FS_AddElement
      <4>3. count'[p] = count[p] + 1
        BY <1>1, <2>1, <2>2 DEF LockTypes
      <4> QED
        BY <3>1, <3>2, <4>2, <4>3
    <3>3. CASE q # p
      <4>1. Holders(q, g)' = Holders(q, g)
        BY <1>1, <2>4, <3>3 DEF Holders
      <4> QED
        BY <2>1, <2>2, <3>1, <3>3, <4>1 DEF LockTypes
    <3> QED
      BY <3>2, <3>3
  <2>14. LockFileHasOwner'
    BY <1>1, <2>4 DEF WriteLockIInv, LockFileHasOwner, SameProcess
  <2> QED
    BY <2>5, <2>6, <2>8, <2>9, <2>10, <2>11, <2>12, <2>13, <2>14 DEF WriteLockIInv
<1>3. CASE ~(t \in Reentrant /\ held[p] # NoLockFile)
  <2>1. pc' = [pc EXCEPT ![t] = "trying"] /\ UNCHANGED <<count, mine, lost>>
    BY <1>3 DEF Acquire
  <2>2. LockTypes'
    BY <1>1, <2>1 DEF WriteLockIInv, LockTypes
  <2>3. \A u \in Tasks : pc'[u] = IF u = t THEN "trying" ELSE pc[u]
    BY <2>1 DEF WriteLockIInv, LockTypes
  <2>4. (TasksAreAlive /\ OwnFile /\ UsedFilesAreOwn /\ HeldFilesAreRecorded /\ RecordsAreOwn)'
    BY <1>1, <2>1, <2>3 DEF WriteLockIInv, LockTypes, TasksAreAlive, OwnFile, UsedFilesAreOwn,
       HeldFilesAreRecorded, RecordsAreOwn, Uses, SameProcess, HasRecord
  <2>5. (MadeBefore /\ LockFileWasOpened /\ JudgedWasOpened)'
    BY <1>1, <2>1, <2>3 DEF WriteLockIInv, LockTypes, MadeBefore, LockFileWasOpened, JudgedWasOpened,
       Opened
  <2>6. (UnlostFileIsThere /\ JudgedIsStale /\ HoldersHoldByRecord /\ LockFileHasOwner)'
    BY <1>1, <2>1, <2>3 DEF WriteLockIInv, UnlostFileIsThere, JudgedIsStale, HoldersHoldByRecord,
       LockFileHasOwner, Uses, SameProcess
  <2>7. \A q, f : Holders(q, f)' = Holders(q, f)
    BY <1>1, <2>1, <2>3 DEF Holders
  <2>8. CountIsHolders'
    BY <1>1, <2>1, <2>7 DEF WriteLockIInv, CountIsHolders
  <2> QED
    BY <2>2, <2>4, <2>5, <2>6, <2>8 DEF WriteLockIInv
<1> QED
  BY <1>2, <1>3

\* The file is new: nothing on disk, in a record or judged stale was made by this task.
LEMMA OpenStep ==
  ASSUME WriteLockIInv, NEW t \in Tasks, Open(t)
  PROVE  WriteLockIInv'
<1>1. LockTypes'
  BY WriteLockAssumption DEF WriteLockIInv, LockTypes, Users, Open
<1>2. (TasksAreAlive /\ OwnFile /\ UsedFilesAreOwn)'
  BY WriteLockAssumption DEF WriteLockIInv, LockTypes, TasksAreAlive, OwnFile,
       UsedFilesAreOwn, Uses, SameProcess, Open
<1>3. (HeldFilesAreRecorded /\ RecordsAreOwn)'
  BY WriteLockAssumption DEF WriteLockIInv, LockTypes, HeldFilesAreRecorded, RecordsAreOwn,
       HasRecord, SameProcess, Uses, UsedFilesAreOwn, OwnFile, TasksAreAlive, Open
<1>4. (MadeBefore /\ LockFileWasOpened /\ JudgedWasOpened)'
  BY WriteLockAssumption DEF WriteLockIInv, LockTypes, MadeBefore, LockFileWasOpened,
       JudgedWasOpened, Opened, UsedFilesAreOwn, OwnFile, SameProcess, Open
<1>5. (UnlostFileIsThere /\ JudgedIsStale)'
  BY WriteLockAssumption DEF WriteLockIInv, LockTypes, UnlostFileIsThere, JudgedIsStale,
       Uses, Users, SameProcess, UsedFilesAreOwn, LockFileWasOpened, JudgedWasOpened,
       Opened, MadeBefore, OwnFile, Open
<1>6. CountIsHolders'
  BY WriteLockAssumption DEF WriteLockIInv, LockTypes, CountIsHolders, Holders, Open
<1>7. (HoldersHoldByRecord /\ LockFileHasOwner)'
  BY WriteLockAssumption DEF WriteLockIInv, LockTypes, HoldersHoldByRecord,
       LockFileHasOwner, SameProcess, Users, Uses, UsedFilesAreOwn, OwnFile, Open
<1> QED
  BY <1>1, <1>2, <1>3, <1>4, <1>5, <1>6, <1>7 DEF WriteLockIInv

LEMMA WritePayloadStep ==
  ASSUME WriteLockIInv, NEW t \in Tasks, WritePayload(t)
  PROVE  WriteLockIInv'
<1>1. LockTypes'
  BY WriteLockAssumption DEF WriteLockIInv, LockTypes, Users, WritePayload
<1>2. (TasksAreAlive /\ OwnFile /\ UsedFilesAreOwn)'
  BY WriteLockAssumption DEF WriteLockIInv, LockTypes, TasksAreAlive, OwnFile,
       UsedFilesAreOwn, Uses, SameProcess, WritePayload
<1>3. (HeldFilesAreRecorded /\ RecordsAreOwn)'
  BY WriteLockAssumption DEF WriteLockIInv, LockTypes, HeldFilesAreRecorded, RecordsAreOwn,
       HasRecord, SameProcess, Uses, UsedFilesAreOwn, OwnFile, TasksAreAlive, WritePayload
<1>4. (MadeBefore /\ LockFileWasOpened /\ JudgedWasOpened)'
  BY WriteLockAssumption DEF WriteLockIInv, LockTypes, MadeBefore, LockFileWasOpened,
       JudgedWasOpened, Opened, UsedFilesAreOwn, OwnFile, SameProcess, WritePayload
<1>5. (UnlostFileIsThere /\ JudgedIsStale)'
  BY WriteLockAssumption DEF WriteLockIInv, LockTypes, UnlostFileIsThere, JudgedIsStale,
       Uses, Users, SameProcess, UsedFilesAreOwn, LockFileWasOpened, JudgedWasOpened,
       Opened, MadeBefore, OwnFile, WritePayload
<1>6. CountIsHolders'
  BY WriteLockAssumption DEF WriteLockIInv, LockTypes, CountIsHolders, Holders,
       WritePayload
<1>7. (HoldersHoldByRecord /\ LockFileHasOwner)'
  BY WriteLockAssumption DEF WriteLockIInv, LockTypes, HoldersHoldByRecord,
       LockFileHasOwner, SameProcess, Users, Uses, UsedFilesAreOwn, OwnFile, WritePayload
<1> QED
  BY <1>1, <1>2, <1>3, <1>4, <1>5, <1>6, <1>7 DEF WriteLockIInv

\* Nobody holds by a file whose record was not made; who held by the record that is
\* replaced has lost it.
LEMMA RecordStep ==
  ASSUME WriteLockIInv, NEW t \in Tasks, Record(t)
  PROVE  WriteLockIInv'
<1>1. LockTypes'
  BY WriteLockAssumption DEF WriteLockIInv, LockTypes, Users, Record
<1>2. (TasksAreAlive /\ OwnFile /\ UsedFilesAreOwn)'
  BY WriteLockAssumption DEF WriteLockIInv, LockTypes, TasksAreAlive, OwnFile,
       UsedFilesAreOwn, Uses, SameProcess, Record
<1>3. (HeldFilesAreRecorded /\ RecordsAreOwn)'
  BY WriteLockAssumption DEF WriteLockIInv, LockTypes, HeldFilesAreRecorded, RecordsAreOwn,
       HasRecord, SameProcess, Uses, UsedFilesAreOwn, OwnFile, TasksAreAlive, Record
<1>4. (MadeBefore /\ LockFileWasOpened /\ JudgedWasOpened)'
  BY WriteLockAssumption DEF WriteLockIInv, LockTypes, MadeBefore, LockFileWasOpened,
       JudgedWasOpened, Opened, UsedFilesAreOwn, OwnFile, SameProcess, Record
<1>5. (UnlostFileIsThere /\ JudgedIsStale)'
  BY WriteLockAssumption DEF WriteLockIInv, LockTypes, UnlostFileIsThere, JudgedIsStale,
       Uses, Users, SameProcess, UsedFilesAreOwn, LockFileWasOpened, JudgedWasOpened,
       Opened, MadeBefore, OwnFile, Record
<1>6. CountIsHolders'
  <2> DEFINE p == ProcessOf[t]
  <2>1. LockTypes /\ p \in Processes
    BY WriteLockAssumption DEF WriteLockIInv
  <2>2. /\ mine[t] = t /\ mine' = mine
        /\ \A u \in Tasks : pc'[u] = IF u = t THEN "holds" ELSE pc[u]
        /\ held' = [held EXCEPT ![p] = t] /\ count' = [count EXCEPT ![p] = 1]
    BY <2>1 DEF WriteLockIInv, LockTypes, OwnFile, Record
  <2> SUFFICES ASSUME NEW q \in Processes, NEW g, held'[q] = g, g # NoLockFile
               PROVE  count'[q] = Cardinality(Holders(q, g)')
    BY DEF CountIsHolders, Holders
  <2>3. CASE q = p
    <3>1. g = t /\ count'[q] = 1
      BY <2>1, <2>2, <2>3 DEF LockTypes
    <3>2. \A u \in Tasks : pc[u] = "holds" => mine[u] # t
      BY DEF WriteLockIInv, HeldFilesAreRecorded, HasRecord, Record
    <3>3. Holders(p, t)' = {t}
      BY <2>2, <3>2 DEF Holders
    <3> QED
      BY <2>3, <3>1, <3>3, FS_Singleton
  <2>4. CASE q # p
    <3>1. held[q] = g /\ count'[q] = count[q]
      BY <2>1, <2>2, <2>4 DEF LockTypes
    <3>2. Holders(q, g)' = Holders(q, g)
      BY <2>2, <2>4 DEF Holders
    <3> QED
      BY <3>1, <3>2 DEF WriteLockIInv, CountIsHolders
  <2> QED
    BY <2>3, <2>4
<1>7. (HoldersHoldByRecord /\ LockFileHasOwner)'
  <2> DEFINE p == ProcessOf[t]
  <2>1. LockTypes /\ p \in Processes
    BY WriteLockAssumption DEF WriteLockIInv
  <2>2. /\ t \in Tasks /\ mine[t] = t /\ mine' = mine
        /\ \A u \in Tasks : pc'[u] = IF u = t THEN "holds" ELSE pc[u]
        /\ \A q \in Processes : held'[q] = IF q = p THEN t ELSE held[q]
        /\ lost' = lost \cup (Users(held[p]) \ {t})
        /\ UNCHANGED <<processVars, fileVars, closing>>
    BY <2>1 DEF WriteLockIInv, LockTypes, OwnFile, Record
  <2>3. HoldersHoldByRecord'
    <3> SUFFICES ASSUME NEW u \in Tasks \ lost', pc'[u] = "holds"
                 PROVE  mine[u] = held'[ProcessOf[u]]
      BY <2>2 DEF HoldersHoldByRecord
    <3>1. CASE u = t
      BY <2>1, <2>2, <3>1
    <3>2. CASE u # t
      <4>1. u \in Tasks \ lost /\ pc[u] = "holds" /\ u \notin Users(held[p])
        BY <2>2, <3>2
      <4>2. mine[u] = held[ProcessOf[u]] /\ ProcessOf[u] \in Processes
        BY <4>1, WriteLockAssumption DEF WriteLockIInv, HoldersHoldByRecord
      <4>3. ProcessOf[u] # p
        BY <4>1, <4>2 DEF Users
      <4> QED
        BY <2>2, <4>2, <4>3
    <3> QED
      BY <3>1, <3>2
  <2>4. LockFileHasOwner'
    <3> SUFFICES ASSUME lockFile # NoLockFile, SameProcess(lockFile)
                 PROVE  \/ held'[ProcessOf[lockFile]] # NoLockFile \/ closing[ProcessOf[lockFile]] # {}
                        \/ \E u \in Tasks : /\ ProcessOf[u] = ProcessOf[lockFile]
                                            /\ pc'[u] \in {"writing", "written", "undoing"}
      BY <2>2 DEF LockFileHasOwner, SameProcess
    <3>1. ProcessOf[lockFile] \in Processes /\ t # NoLockFile
      BY <2>1, WriteLockAssumption DEF LockTypes
    <3>2. CASE ProcessOf[lockFile] = p
      BY <2>2, <3>1, <3>2
    <3>3. CASE ProcessOf[lockFile] # p
      BY <2>2, <3>1, <3>3 DEF WriteLockIInv, LockFileHasOwner
    <3> QED
      BY <3>2, <3>3
  <2> QED
    BY <2>3, <2>4
<1> QED
  BY <1>1, <1>2, <1>3, <1>4, <1>5, <1>6, <1>7 DEF WriteLockIInv

LEMMA WriteFailsStep ==
  ASSUME WriteLockIInv, NEW t \in Tasks, WriteFails(t)
  PROVE  WriteLockIInv'
<1>1. LockTypes'
  BY WriteLockAssumption DEF WriteLockIInv, LockTypes, Users, WriteFails
<1>2. (TasksAreAlive /\ OwnFile /\ UsedFilesAreOwn)'
  BY WriteLockAssumption DEF WriteLockIInv, LockTypes, TasksAreAlive, OwnFile,
       UsedFilesAreOwn, Uses, SameProcess, WriteFails
<1>3. (HeldFilesAreRecorded /\ RecordsAreOwn)'
  BY WriteLockAssumption DEF WriteLockIInv, LockTypes, HeldFilesAreRecorded, RecordsAreOwn,
       HasRecord, SameProcess, Uses, UsedFilesAreOwn, OwnFile, TasksAreAlive, WriteFails
<1>4. (MadeBefore /\ LockFileWasOpened /\ JudgedWasOpened)'
  BY WriteLockAssumption DEF WriteLockIInv, LockTypes, MadeBefore, LockFileWasOpened,
       JudgedWasOpened, Opened, UsedFilesAreOwn, OwnFile, SameProcess, WriteFails
<1>5. (UnlostFileIsThere /\ JudgedIsStale)'
  BY WriteLockAssumption DEF WriteLockIInv, LockTypes, UnlostFileIsThere, JudgedIsStale,
       Uses, Users, SameProcess, UsedFilesAreOwn, LockFileWasOpened, JudgedWasOpened,
       Opened, MadeBefore, OwnFile, WriteFails
<1>6. CountIsHolders'
  BY WriteLockAssumption DEF WriteLockIInv, LockTypes, CountIsHolders, Holders, WriteFails
<1>7. (HoldersHoldByRecord /\ LockFileHasOwner)'
  BY WriteLockAssumption DEF WriteLockIInv, LockTypes, HoldersHoldByRecord,
       LockFileHasOwner, SameProcess, Users, Uses, UsedFilesAreOwn, OwnFile, WriteFails
<1> QED
  BY <1>1, <1>2, <1>3, <1>4, <1>5, <1>6, <1>7 DEF WriteLockIInv

LEMMA UndoStep ==
  ASSUME WriteLockIInv, NEW t \in Tasks, Undo(t)
  PROVE  WriteLockIInv'
<1>1. LockTypes'
  BY WriteLockAssumption DEF WriteLockIInv, LockTypes, Users, Undo
<1>2. (TasksAreAlive /\ OwnFile /\ UsedFilesAreOwn)'
  BY WriteLockAssumption DEF WriteLockIInv, LockTypes, TasksAreAlive, OwnFile,
       UsedFilesAreOwn, Uses, SameProcess, Undo
<1>3. (HeldFilesAreRecorded /\ RecordsAreOwn)'
  BY WriteLockAssumption DEF WriteLockIInv, LockTypes, HeldFilesAreRecorded, RecordsAreOwn,
       HasRecord, SameProcess, Uses, UsedFilesAreOwn, OwnFile, TasksAreAlive, Undo
<1>4. (MadeBefore /\ LockFileWasOpened /\ JudgedWasOpened)'
  BY WriteLockAssumption DEF WriteLockIInv, LockTypes, MadeBefore, LockFileWasOpened,
       JudgedWasOpened, Opened, UsedFilesAreOwn, OwnFile, SameProcess, Undo
<1>5. (UnlostFileIsThere /\ JudgedIsStale)'
  BY WriteLockAssumption DEF WriteLockIInv, LockTypes, UnlostFileIsThere, JudgedIsStale,
       Uses, Users, SameProcess, UsedFilesAreOwn, LockFileWasOpened, JudgedWasOpened,
       Opened, MadeBefore, OwnFile, Undo
<1>6. CountIsHolders'
  BY WriteLockAssumption DEF WriteLockIInv, LockTypes, CountIsHolders, Holders, Undo
<1>7. (HoldersHoldByRecord /\ LockFileHasOwner)'
  BY WriteLockAssumption DEF WriteLockIInv, LockTypes, HoldersHoldByRecord,
       LockFileHasOwner, SameProcess, Users, Uses, UsedFilesAreOwn, OwnFile, Undo
<1> QED
  BY <1>1, <1>2, <1>3, <1>4, <1>5, <1>6, <1>7 DEF WriteLockIInv

LEMMA GiveUpStep ==
  ASSUME WriteLockIInv, NEW t \in Tasks, GiveUp(t)
  PROVE  WriteLockIInv'
<1>1. LockTypes'
  BY WriteLockAssumption DEF WriteLockIInv, LockTypes, Users, GiveUp
<1>2. (TasksAreAlive /\ OwnFile /\ UsedFilesAreOwn)'
  BY WriteLockAssumption DEF WriteLockIInv, LockTypes, TasksAreAlive, OwnFile,
       UsedFilesAreOwn, Uses, SameProcess, GiveUp
<1>3. (HeldFilesAreRecorded /\ RecordsAreOwn)'
  BY WriteLockAssumption DEF WriteLockIInv, LockTypes, HeldFilesAreRecorded, RecordsAreOwn,
       HasRecord, SameProcess, Uses, UsedFilesAreOwn, OwnFile, TasksAreAlive, GiveUp
<1>4. (MadeBefore /\ LockFileWasOpened /\ JudgedWasOpened)'
  BY WriteLockAssumption DEF WriteLockIInv, LockTypes, MadeBefore, LockFileWasOpened,
       JudgedWasOpened, Opened, UsedFilesAreOwn, OwnFile, SameProcess, GiveUp
<1>5. (UnlostFileIsThere /\ JudgedIsStale)'
  BY WriteLockAssumption DEF WriteLockIInv, LockTypes, UnlostFileIsThere, JudgedIsStale,
       Uses, Users, SameProcess, UsedFilesAreOwn, LockFileWasOpened, JudgedWasOpened,
       Opened, MadeBefore, OwnFile, GiveUp
<1>6. CountIsHolders'
  BY WriteLockAssumption DEF WriteLockIInv, LockTypes, CountIsHolders, Holders, GiveUp
<1>7. (HoldersHoldByRecord /\ LockFileHasOwner)'
  BY WriteLockAssumption DEF WriteLockIInv, LockTypes, HoldersHoldByRecord,
       LockFileHasOwner, SameProcess, Users, Uses, UsedFilesAreOwn, OwnFile, GiveUp
<1> QED
  BY <1>1, <1>2, <1>3, <1>4, <1>5, <1>6, <1>7 DEF WriteLockIInv

\* What makes a file stale lasts: its process is gone for good, or it was made in this one.
LEMMA InspectStep ==
  ASSUME WriteLockIInv, NEW t \in Tasks, Inspect(t)
  PROVE  WriteLockIInv'
<1>1. LockTypes'
  BY WriteLockAssumption DEF WriteLockIInv, LockTypes, Users, Inspect, Reclaimable,
       DeadOrRecycled, OrphanSelf
<1>2. (TasksAreAlive /\ OwnFile /\ UsedFilesAreOwn)'
  BY WriteLockAssumption DEF WriteLockIInv, LockTypes, TasksAreAlive, OwnFile,
       UsedFilesAreOwn, Uses, SameProcess, Inspect, Reclaimable, DeadOrRecycled, OrphanSelf
<1>3. (HeldFilesAreRecorded /\ RecordsAreOwn)'
  BY WriteLockAssumption DEF WriteLockIInv, LockTypes, HeldFilesAreRecorded, RecordsAreOwn,
       HasRecord, SameProcess, Uses, UsedFilesAreOwn, OwnFile, TasksAreAlive, Inspect,
       Reclaimable, DeadOrRecycled, OrphanSelf
<1>4. (MadeBefore /\ LockFileWasOpened /\ JudgedWasOpened)'
  BY WriteLockAssumption DEF WriteLockIInv, LockTypes, MadeBefore, LockFileWasOpened,
       JudgedWasOpened, Opened, UsedFilesAreOwn, OwnFile, SameProcess, Inspect,
       Reclaimable, DeadOrRecycled, OrphanSelf
<1>5. (UnlostFileIsThere /\ JudgedIsStale)'
  BY WriteLockAssumption DEF WriteLockIInv, LockTypes, UnlostFileIsThere, JudgedIsStale,
       Uses, Users, SameProcess, UsedFilesAreOwn, LockFileWasOpened, JudgedWasOpened,
       Opened, MadeBefore, OwnFile, Inspect, Reclaimable, DeadOrRecycled, OrphanSelf
<1>6. CountIsHolders'
  BY WriteLockAssumption DEF WriteLockIInv, LockTypes, CountIsHolders, Holders, Inspect,
       Reclaimable, DeadOrRecycled, OrphanSelf
<1>7. (HoldersHoldByRecord /\ LockFileHasOwner)'
  BY WriteLockAssumption DEF WriteLockIInv, LockTypes, HoldersHoldByRecord,
       LockFileHasOwner, SameProcess, Users, Uses, UsedFilesAreOwn, OwnFile, Inspect,
       Reclaimable, DeadOrRecycled, OrphanSelf
<1> QED
  BY <1>1, <1>2, <1>3, <1>4, <1>5, <1>6, <1>7 DEF WriteLockIInv

LEMMA ReclaimStep ==
  ASSUME WriteLockIInv, NEW t \in Tasks, Reclaim(t)
  PROVE  WriteLockIInv'
<1>1. LockTypes'
  BY WriteLockAssumption DEF WriteLockIInv, LockTypes, Users, Reclaim
<1>2. (TasksAreAlive /\ OwnFile /\ UsedFilesAreOwn)'
  BY WriteLockAssumption DEF WriteLockIInv, LockTypes, TasksAreAlive, OwnFile,
       UsedFilesAreOwn, Uses, SameProcess, Reclaim
<1>3. (HeldFilesAreRecorded /\ RecordsAreOwn)'
  BY WriteLockAssumption DEF WriteLockIInv, LockTypes, HeldFilesAreRecorded, RecordsAreOwn,
       HasRecord, SameProcess, Uses, UsedFilesAreOwn, OwnFile, TasksAreAlive, Reclaim
<1>4. (MadeBefore /\ LockFileWasOpened /\ JudgedWasOpened)'
  BY WriteLockAssumption DEF WriteLockIInv, LockTypes, MadeBefore, LockFileWasOpened,
       JudgedWasOpened, Opened, UsedFilesAreOwn, OwnFile, SameProcess, Reclaim
<1>5. (UnlostFileIsThere /\ JudgedIsStale)'
  BY WriteLockAssumption DEF WriteLockIInv, LockTypes, UnlostFileIsThere, JudgedIsStale,
       Uses, Users, SameProcess, UsedFilesAreOwn, LockFileWasOpened, JudgedWasOpened,
       Opened, MadeBefore, OwnFile, Reclaim
<1>6. CountIsHolders'
  BY WriteLockAssumption DEF WriteLockIInv, LockTypes, CountIsHolders, Holders, Reclaim
<1>7. (HoldersHoldByRecord /\ LockFileHasOwner)'
  BY WriteLockAssumption DEF WriteLockIInv, LockTypes, HoldersHoldByRecord,
       LockFileHasOwner, SameProcess, Users, Uses, UsedFilesAreOwn, OwnFile, Reclaim
<1> QED
  BY <1>1, <1>2, <1>3, <1>4, <1>5, <1>6, <1>7 DEF WriteLockIInv

\* The last holder gives the record up, and nobody is left who holds by it.
LEMMA ReleaseLockStep ==
  ASSUME WriteLockIInv, NEW t \in Tasks, ReleaseLock(t)
  PROVE  WriteLockIInv'
<1>1. LockTypes'
  <2>1. /\ pc' \in [Tasks -> {"idle", "trying", "writing", "written", "undoing",
                              "inspecting", "removing", "holds", "over"}]
        /\ mine' \in [Tasks -> Tasks \cup {NoLockFile}]
    BY DEF WriteLockIInv, LockTypes, ReleaseLock
  <2>2. /\ held' \in [Processes -> Tasks \cup {NoLockFile}] /\ count' \in [Processes -> Nat]
        /\ closing' \in [Processes -> SUBSET Tasks]
    <3>1. CASE UNCHANGED recordVars
      BY <3>1 DEF WriteLockIInv, LockTypes
    <3>2. CASE /\ count[ProcessOf[t]] > 1 /\ UNCHANGED <<held, closing>>
               /\ count' = [count EXCEPT ![ProcessOf[t]] = @ - 1]
      BY <3>2, WriteLockAssumption DEF WriteLockIInv, LockTypes
    <3>3. CASE held[ProcessOf[t]] = mine[t] /\ GiveUpRecord(ProcessOf[t])
      <4>1. mine[t] \in Tasks /\ ProcessOf[t] \in Processes
        BY WriteLockAssumption DEF WriteLockIInv, UsedFilesAreOwn, Uses, ReleaseLock
      <4> QED
        BY <3>3, <4>1 DEF WriteLockIInv, LockTypes, GiveUpRecord
    <3> QED
      BY <3>1, <3>2, <3>3 DEF ReleaseLock
  <2> QED
    BY <2>1, <2>2 DEF WriteLockIInv, LockTypes, ReleaseLock
<1>2. (TasksAreAlive /\ OwnFile /\ UsedFilesAreOwn)'
  BY WriteLockAssumption DEF WriteLockIInv, LockTypes, TasksAreAlive, OwnFile,
       UsedFilesAreOwn, Uses, SameProcess, ReleaseLock, GiveUpRecord
<1>3. (HeldFilesAreRecorded /\ RecordsAreOwn)'
  BY WriteLockAssumption DEF WriteLockIInv, LockTypes, HeldFilesAreRecorded, RecordsAreOwn,
       HasRecord, SameProcess, Uses, UsedFilesAreOwn, OwnFile, TasksAreAlive, ReleaseLock,
       GiveUpRecord
<1>4. (MadeBefore /\ LockFileWasOpened /\ JudgedWasOpened)'
  BY WriteLockAssumption DEF WriteLockIInv, LockTypes, MadeBefore, LockFileWasOpened,
       JudgedWasOpened, Opened, UsedFilesAreOwn, OwnFile, SameProcess, ReleaseLock,
       GiveUpRecord
<1>5. (UnlostFileIsThere /\ JudgedIsStale)'
  BY WriteLockAssumption DEF WriteLockIInv, LockTypes, UnlostFileIsThere, JudgedIsStale,
       Uses, Users, SameProcess, UsedFilesAreOwn, LockFileWasOpened, JudgedWasOpened,
       Opened, MadeBefore, OwnFile, ReleaseLock, GiveUpRecord
<1>6. CountIsHolders'
  <2> DEFINE p == ProcessOf[t]
             f == held[p]
  <2>1. LockTypes /\ p \in Processes
    BY WriteLockAssumption DEF WriteLockIInv
  <2>2. /\ pc[t] = "holds"
        /\ \A u \in Tasks : u # t => pc'[u] = pc[u] /\ mine'[u] = mine[u]
        /\ pc'[t] = "over" /\ t \in Tasks /\ ProcessOf[t] = p
    BY <2>1 DEF ReleaseLock, LockTypes
  <2> SUFFICES ASSUME NEW q \in Processes, NEW g, held'[q] = g, g # NoLockFile
               PROVE  count'[q] = Cardinality(Holders(q, g)')
    BY DEF CountIsHolders, Holders
  <2>3. CASE q = p /\ mine[t] = f
    <3>1. /\ count[p] > 1 /\ g = f /\ f # NoLockFile
          /\ count'[p] = count[p] - 1 /\ count[p] \in Nat
      BY <2>1, <2>3 DEF ReleaseLock, GiveUpRecord, LockTypes
    <3>2. Holders(p, g)' = Holders(p, g) \ {t} /\ t \in Holders(p, g)
      BY <2>2, <2>3, <3>1 DEF Holders
    <3>3. Cardinality(Holders(p, g)') = Cardinality(Holders(p, g)) - 1
      <4>1. IsFiniteSet(Holders(p, g))
        BY HoldersAreFinite
      <4> QED
        BY <3>2, <4>1, FS_RemoveElement
    <3>4. count[p] = Cardinality(Holders(p, g))
      BY <2>1, <3>1 DEF WriteLockIInv, CountIsHolders
    <3> QED
      BY <2>3, <3>1, <3>3, <3>4
  <2>4. CASE ~(q = p /\ mine[t] = f)
    <3>1. held[q] = g /\ count'[q] = count[q]
      BY <2>1, <2>4 DEF ReleaseLock, GiveUpRecord, LockTypes
    <3>2. ~(ProcessOf[t] = q /\ mine[t] = g)
      BY <2>4, <3>1
    <3>3. Holders(q, g)' = Holders(q, g)
      BY <2>2, <3>2 DEF Holders
    <3> QED
      BY <3>1, <3>3 DEF WriteLockIInv, CountIsHolders
  <2> QED
    BY <2>3, <2>4
<1>7. (HoldersHoldByRecord /\ LockFileHasOwner)'
  <2> DEFINE p == ProcessOf[t]
             f == held[p]
  <2>1. LockTypes /\ p \in Processes /\ pc[t] = "holds" /\ mine[t] \in Tasks /\ t \in Tasks
    BY WriteLockAssumption DEF WriteLockIInv, ReleaseLock, UsedFilesAreOwn, Uses
  <2>2. /\ \A u \in Tasks : u # t => pc'[u] = pc[u] /\ mine'[u] = mine[u]
        /\ pc'[t] = "over" /\ UNCHANGED <<processVars, fileVars, lost>>
    BY <2>1 DEF ReleaseLock, LockTypes
  <2>3. \/ UNCHANGED <<held, closing>>
        \/ /\ f = mine[t] /\ count[p] = 1 /\ f \in closing'[p]
           /\ \A q \in Processes : q # p => held'[q] = held[q] /\ closing'[q] = closing[q]
    BY <2>1 DEF ReleaseLock, GiveUpRecord, LockTypes
  <2>4. CASE UNCHANGED <<held, closing>>
    <3>1. HoldersHoldByRecord'
      BY <2>2, <2>4 DEF WriteLockIInv, HoldersHoldByRecord
    <3>2. LockFileHasOwner'
      BY <2>1, <2>2, <2>4 DEF WriteLockIInv, LockFileHasOwner, SameProcess
    <3> QED
      BY <3>1, <3>2
  <2>5. CASE /\ f = mine[t] /\ count[p] = 1 /\ f \in closing'[p]
             /\ \A q \in Processes : q # p => held'[q] = held[q] /\ closing'[q] = closing[q]
    <3>1. \A u \in Tasks : pc[u] = "holds" /\ ProcessOf[u] = p /\ mine[u] = f => u = t
      <4>1. Cardinality(Holders(p, f)) = 1 /\ IsFiniteSet(Holders(p, f)) /\ f # NoLockFile
        BY <2>1, <2>5, HoldersAreFinite, WriteLockAssumption DEF WriteLockIInv, CountIsHolders
      <4>2. PICK x : Holders(p, f) = {x}
        BY <4>1, FS_Singleton
      <4> QED
        BY <2>1, <2>5, <4>2 DEF Holders
    <3>2. HoldersHoldByRecord'
      <4> SUFFICES ASSUME NEW u \in Tasks \ lost, pc'[u] = "holds"
                   PROVE  mine'[u] = held'[ProcessOf[u]]
        BY <2>2 DEF HoldersHoldByRecord
      <4>1. u # t /\ pc[u] = "holds" /\ mine'[u] = mine[u] /\ ProcessOf[u] \in Processes
        BY <2>2, WriteLockAssumption
      <4>2. mine[u] = held[ProcessOf[u]]
        BY <4>1 DEF WriteLockIInv, HoldersHoldByRecord
      <4>3. ProcessOf[u] # p
        BY <3>1, <4>1, <4>2
      <4> QED
        BY <2>5, <4>1, <4>2, <4>3
    <3>3. LockFileHasOwner'
      <4> SUFFICES ASSUME lockFile # NoLockFile, SameProcess(lockFile)
                   PROVE  LET q == ProcessOf[lockFile] IN
                          \/ held'[q] # NoLockFile \/ closing'[q] # {}
                          \/ \E u \in Tasks : /\ ProcessOf[u] = q
                                              /\ pc'[u] \in {"writing", "written", "undoing"}
        BY <2>2 DEF LockFileHasOwner, SameProcess
      <4>1. ProcessOf[lockFile] \in Processes
        BY <2>1, WriteLockAssumption DEF LockTypes
      <4>2. CASE ProcessOf[lockFile] = p
        BY <2>5, <4>2
      <4>3. CASE ProcessOf[lockFile] # p
        BY <2>1, <2>2, <2>5, <4>1, <4>3 DEF WriteLockIInv, LockFileHasOwner
      <4> QED
        BY <4>2, <4>3
    <3> QED
      BY <3>2, <3>3
  <2> QED
    BY <2>3, <2>4, <2>5
<1> QED
  BY <1>1, <1>2, <1>3, <1>4, <1>5, <1>6, <1>7 DEF WriteLockIInv

LEMMA SweepInspectStep ==
  ASSUME WriteLockIInv, NEW p \in Processes, SweepInspect(p)
  PROVE  WriteLockIInv'
<1>1. LockTypes'
  BY WriteLockAssumption DEF WriteLockIInv, LockTypes, Users, SweepInspect
<1>2. (TasksAreAlive /\ OwnFile /\ UsedFilesAreOwn)'
  BY WriteLockAssumption DEF WriteLockIInv, LockTypes, TasksAreAlive, OwnFile,
       UsedFilesAreOwn, Uses, SameProcess, SweepInspect
<1>3. (HeldFilesAreRecorded /\ RecordsAreOwn)'
  BY WriteLockAssumption DEF WriteLockIInv, LockTypes, HeldFilesAreRecorded, RecordsAreOwn,
       HasRecord, SameProcess, Uses, UsedFilesAreOwn, OwnFile, TasksAreAlive, SweepInspect
<1>4. (MadeBefore /\ LockFileWasOpened /\ JudgedWasOpened)'
  BY WriteLockAssumption DEF WriteLockIInv, LockTypes, MadeBefore, LockFileWasOpened,
       JudgedWasOpened, Opened, UsedFilesAreOwn, OwnFile, SameProcess, SweepInspect
<1>5. (UnlostFileIsThere /\ JudgedIsStale)'
  BY WriteLockAssumption DEF WriteLockIInv, LockTypes, UnlostFileIsThere, JudgedIsStale,
       Uses, Users, SameProcess, UsedFilesAreOwn, LockFileWasOpened, JudgedWasOpened,
       Opened, MadeBefore, OwnFile, SweepInspect
<1>6. CountIsHolders'
  BY WriteLockAssumption DEF WriteLockIInv, LockTypes, CountIsHolders, Holders,
       SweepInspect
<1>7. (HoldersHoldByRecord /\ LockFileHasOwner)'
  BY WriteLockAssumption DEF WriteLockIInv, LockTypes, HoldersHoldByRecord,
       LockFileHasOwner, SameProcess, Users, Uses, UsedFilesAreOwn, OwnFile, SweepInspect
<1> QED
  BY <1>1, <1>2, <1>3, <1>4, <1>5, <1>6, <1>7 DEF WriteLockIInv

LEMMA SweepRemoveStep ==
  ASSUME WriteLockIInv, NEW p \in Processes, SweepRemove(p)
  PROVE  WriteLockIInv'
<1>1. LockTypes'
  BY WriteLockAssumption DEF WriteLockIInv, LockTypes, Users, SweepRemove
<1>2. (TasksAreAlive /\ OwnFile /\ UsedFilesAreOwn)'
  BY WriteLockAssumption DEF WriteLockIInv, LockTypes, TasksAreAlive, OwnFile,
       UsedFilesAreOwn, Uses, SameProcess, SweepRemove
<1>3. (HeldFilesAreRecorded /\ RecordsAreOwn)'
  BY WriteLockAssumption DEF WriteLockIInv, LockTypes, HeldFilesAreRecorded, RecordsAreOwn,
       HasRecord, SameProcess, Uses, UsedFilesAreOwn, OwnFile, TasksAreAlive, SweepRemove
<1>4. (MadeBefore /\ LockFileWasOpened /\ JudgedWasOpened)'
  BY WriteLockAssumption DEF WriteLockIInv, LockTypes, MadeBefore, LockFileWasOpened,
       JudgedWasOpened, Opened, UsedFilesAreOwn, OwnFile, SameProcess, SweepRemove
<1>5. (UnlostFileIsThere /\ JudgedIsStale)'
  BY WriteLockAssumption DEF WriteLockIInv, LockTypes, UnlostFileIsThere, JudgedIsStale,
       Uses, Users, SameProcess, UsedFilesAreOwn, LockFileWasOpened, JudgedWasOpened,
       Opened, MadeBefore, OwnFile, SweepRemove
<1>6. CountIsHolders'
  BY WriteLockAssumption DEF WriteLockIInv, LockTypes, CountIsHolders, Holders, SweepRemove
<1>7. (HoldersHoldByRecord /\ LockFileHasOwner)'
  BY WriteLockAssumption DEF WriteLockIInv, LockTypes, HoldersHoldByRecord,
       LockFileHasOwner, SameProcess, Users, Uses, UsedFilesAreOwn, OwnFile, SweepRemove
<1> QED
  BY <1>1, <1>2, <1>3, <1>4, <1>5, <1>6, <1>7 DEF WriteLockIInv

LEMMA WatchdogStep ==
  ASSUME WriteLockIInv, NEW p \in Processes, Watchdog(p)
  PROVE  WriteLockIInv'
<1>1. LockTypes'
  BY WriteLockAssumption DEF WriteLockIInv, LockTypes, Users, Watchdog, GiveUpRecord
<1>2. (TasksAreAlive /\ OwnFile /\ UsedFilesAreOwn)'
  BY WriteLockAssumption DEF WriteLockIInv, LockTypes, TasksAreAlive, OwnFile,
       UsedFilesAreOwn, Uses, SameProcess, Watchdog, GiveUpRecord
<1>3. (HeldFilesAreRecorded /\ RecordsAreOwn)'
  BY WriteLockAssumption DEF WriteLockIInv, LockTypes, HeldFilesAreRecorded, RecordsAreOwn,
       HasRecord, SameProcess, Uses, UsedFilesAreOwn, OwnFile, TasksAreAlive, Watchdog,
       GiveUpRecord
<1>4. (MadeBefore /\ LockFileWasOpened /\ JudgedWasOpened)'
  BY WriteLockAssumption DEF WriteLockIInv, LockTypes, MadeBefore, LockFileWasOpened,
       JudgedWasOpened, Opened, UsedFilesAreOwn, OwnFile, SameProcess, Watchdog,
       GiveUpRecord
<1>5. (UnlostFileIsThere /\ JudgedIsStale)'
  BY WriteLockAssumption DEF WriteLockIInv, LockTypes, UnlostFileIsThere, JudgedIsStale,
       Uses, Users, SameProcess, UsedFilesAreOwn, LockFileWasOpened, JudgedWasOpened,
       Opened, MadeBefore, OwnFile, Watchdog, GiveUpRecord
<1>6. CountIsHolders'
  BY WriteLockAssumption DEF WriteLockIInv, LockTypes, CountIsHolders, Holders, Watchdog,
       GiveUpRecord
<1>7. (HoldersHoldByRecord /\ LockFileHasOwner)'
  BY WriteLockAssumption, ZenonT(30) DEF WriteLockIInv, LockTypes, HoldersHoldByRecord,
       LockFileHasOwner, SameProcess, Users, Uses, UsedFilesAreOwn, OwnFile, Watchdog,
       GiveUpRecord
<1> QED
  BY <1>1, <1>2, <1>3, <1>4, <1>5, <1>6, <1>7 DEF WriteLockIInv

LEMMA SignalStep ==
  ASSUME WriteLockIInv, NEW p \in Processes, Signal(p)
  PROVE  WriteLockIInv'
<1>1. LockTypes'
  BY WriteLockAssumption DEF WriteLockIInv, LockTypes, Users, Signal, ReleaseAllLocksSync
<1>2. (TasksAreAlive /\ OwnFile /\ UsedFilesAreOwn)'
  BY WriteLockAssumption DEF WriteLockIInv, LockTypes, TasksAreAlive, OwnFile,
       UsedFilesAreOwn, Uses, SameProcess, Signal, ReleaseAllLocksSync
<1>3. (HeldFilesAreRecorded /\ RecordsAreOwn)'
  BY WriteLockAssumption DEF WriteLockIInv, LockTypes, HeldFilesAreRecorded, RecordsAreOwn,
       HasRecord, SameProcess, Uses, UsedFilesAreOwn, OwnFile, TasksAreAlive, Signal,
       ReleaseAllLocksSync
<1>4. (MadeBefore /\ LockFileWasOpened /\ JudgedWasOpened)'
  BY WriteLockAssumption DEF WriteLockIInv, LockTypes, MadeBefore, LockFileWasOpened,
       JudgedWasOpened, Opened, UsedFilesAreOwn, OwnFile, SameProcess, Signal,
       ReleaseAllLocksSync
<1>5. (UnlostFileIsThere /\ JudgedIsStale)'
  BY WriteLockAssumption DEF WriteLockIInv, LockTypes, UnlostFileIsThere, JudgedIsStale,
       Uses, Users, SameProcess, UsedFilesAreOwn, LockFileWasOpened, JudgedWasOpened,
       Opened, MadeBefore, OwnFile, Signal, ReleaseAllLocksSync
<1>6. CountIsHolders'
  BY WriteLockAssumption DEF WriteLockIInv, LockTypes, CountIsHolders, Holders, Signal,
       ReleaseAllLocksSync
<1>7. (HoldersHoldByRecord /\ LockFileHasOwner)'
  BY WriteLockAssumption DEF WriteLockIInv, LockTypes, HoldersHoldByRecord,
       LockFileHasOwner, SameProcess, Users, Uses, UsedFilesAreOwn, OwnFile, Signal,
       ReleaseAllLocksSync
<1> QED
  BY <1>1, <1>2, <1>3, <1>4, <1>5, <1>6, <1>7 DEF WriteLockIInv

\* A process that ends takes its tasks and its record with it.
LEMMA ExitStep ==
  ASSUME WriteLockIInv, NEW p \in Processes, Exit(p)
  PROVE  WriteLockIInv'
<1>1. LockTypes'
  BY WriteLockAssumption DEF WriteLockIInv, LockTypes, Users, Exit, ReleaseAllLocksSync,
       Gone
<1>2. (TasksAreAlive /\ OwnFile /\ UsedFilesAreOwn)'
  BY WriteLockAssumption DEF WriteLockIInv, LockTypes, TasksAreAlive, OwnFile,
       UsedFilesAreOwn, Uses, SameProcess, Exit, ReleaseAllLocksSync, Gone
<1>3. (HeldFilesAreRecorded /\ RecordsAreOwn)'
  BY WriteLockAssumption DEF WriteLockIInv, LockTypes, HeldFilesAreRecorded, RecordsAreOwn,
       HasRecord, SameProcess, Uses, UsedFilesAreOwn, OwnFile, TasksAreAlive, Exit,
       ReleaseAllLocksSync, Gone
<1>4. (MadeBefore /\ LockFileWasOpened /\ JudgedWasOpened)'
  BY WriteLockAssumption DEF WriteLockIInv, LockTypes, MadeBefore, LockFileWasOpened,
       JudgedWasOpened, Opened, UsedFilesAreOwn, OwnFile, SameProcess, Exit,
       ReleaseAllLocksSync, Gone
<1>5. (UnlostFileIsThere /\ JudgedIsStale)'
  BY WriteLockAssumption DEF WriteLockIInv, LockTypes, UnlostFileIsThere, JudgedIsStale,
       Uses, Users, SameProcess, UsedFilesAreOwn, LockFileWasOpened, JudgedWasOpened,
       Opened, MadeBefore, OwnFile, Exit, ReleaseAllLocksSync, Gone
<1>6. CountIsHolders'
  <2>1. /\ \A q \in Processes : held'[q] = IF q = p THEN NoLockFile ELSE held[q]
        /\ \A q \in Processes : q # p => count'[q] = count[q]
        /\ \A u \in Tasks : ProcessOf[u] # p => pc'[u] = pc[u] /\ mine'[u] = mine[u]
    BY DEF WriteLockIInv, LockTypes, Exit, ReleaseAllLocksSync, Gone
  <2> SUFFICES ASSUME NEW q \in Processes, NEW g, held'[q] = g, g # NoLockFile
               PROVE  count'[q] = Cardinality(Holders(q, g)')
    BY DEF CountIsHolders, Holders
  <2>2. q # p /\ held[q] = g /\ count'[q] = count[q]
    BY <2>1
  <2>3. Holders(q, g)' = Holders(q, g)
    BY <2>1, <2>2 DEF Holders
  <2> QED
    BY <2>2, <2>3 DEF WriteLockIInv, CountIsHolders
<1>7. (HoldersHoldByRecord /\ LockFileHasOwner)'
  BY WriteLockAssumption DEF WriteLockIInv, LockTypes, HoldersHoldByRecord,
       LockFileHasOwner, SameProcess, Users, Uses, UsedFilesAreOwn, OwnFile, Exit,
       ReleaseAllLocksSync, Gone
<1> QED
  BY <1>1, <1>2, <1>3, <1>4, <1>5, <1>6, <1>7 DEF WriteLockIInv

LEMMA KilledStep ==
  ASSUME WriteLockIInv, NEW p \in Processes, Killed(p)
  PROVE  WriteLockIInv'
<1>1. LockTypes'
  BY WriteLockAssumption DEF WriteLockIInv, LockTypes, Users, Killed, Gone
<1>2. (TasksAreAlive /\ OwnFile /\ UsedFilesAreOwn)'
  BY WriteLockAssumption DEF WriteLockIInv, LockTypes, TasksAreAlive, OwnFile,
       UsedFilesAreOwn, Uses, SameProcess, Killed, Gone
<1>3. (HeldFilesAreRecorded /\ RecordsAreOwn)'
  BY WriteLockAssumption DEF WriteLockIInv, LockTypes, HeldFilesAreRecorded, RecordsAreOwn,
       HasRecord, SameProcess, Uses, UsedFilesAreOwn, OwnFile, TasksAreAlive, Killed, Gone
<1>4. (MadeBefore /\ LockFileWasOpened /\ JudgedWasOpened)'
  BY WriteLockAssumption DEF WriteLockIInv, LockTypes, MadeBefore, LockFileWasOpened,
       JudgedWasOpened, Opened, UsedFilesAreOwn, OwnFile, SameProcess, Killed, Gone
<1>5. (UnlostFileIsThere /\ JudgedIsStale)'
  BY WriteLockAssumption DEF WriteLockIInv, LockTypes, UnlostFileIsThere, JudgedIsStale,
       Uses, Users, SameProcess, UsedFilesAreOwn, LockFileWasOpened, JudgedWasOpened,
       Opened, MadeBefore, OwnFile, Killed, Gone
<1>6. CountIsHolders'
  <2>1. /\ \A q \in Processes : held'[q] = IF q = p THEN NoLockFile ELSE held[q]
        /\ \A q \in Processes : q # p => count'[q] = count[q]
        /\ \A u \in Tasks : ProcessOf[u] # p => pc'[u] = pc[u] /\ mine'[u] = mine[u]
    BY DEF WriteLockIInv, LockTypes, Killed, Gone
  <2> SUFFICES ASSUME NEW q \in Processes, NEW g, held'[q] = g, g # NoLockFile
               PROVE  count'[q] = Cardinality(Holders(q, g)')
    BY DEF CountIsHolders, Holders
  <2>2. q # p /\ held[q] = g /\ count'[q] = count[q]
    BY <2>1
  <2>3. Holders(q, g)' = Holders(q, g)
    BY <2>1, <2>2 DEF Holders
  <2> QED
    BY <2>2, <2>3 DEF WriteLockIInv, CountIsHolders
<1>7. (HoldersHoldByRecord /\ LockFileHasOwner)'
  BY WriteLockAssumption DEF WriteLockIInv, LockTypes, HoldersHoldByRecord,
       LockFileHasOwner, SameProcess, Users, Uses, UsedFilesAreOwn, OwnFile, Killed, Gone
<1> QED
  BY <1>1, <1>2, <1>3, <1>4, <1>5, <1>6, <1>7 DEF WriteLockIInv

\* A process that starts has made none of the files there are.
LEMMA ProcessStartStep ==
  ASSUME WriteLockIInv, NEW p \in Processes, Start(p)
  PROVE  WriteLockIInv'
<1>a. /\ running' = [running EXCEPT ![p] = TRUE] /\ starts' = [starts EXCEPT ![p] = @ + 1]
      /\ ~running[p] /\ starts[p] < MaxStarts[p]
      /\ UNCHANGED <<linux, fileVars, recordVars, taskVars, lost>>
  BY DEF Start
<1>b. /\ running \in [Processes -> BOOLEAN] /\ starts \in [Processes -> Nat]
      /\ lockFile \in Tasks \cup {NoLockFile} /\ madeIn \in [Tasks -> Nat]
      /\ \A q \in Processes : starts[q] \in 1..MaxStarts[q] /\ MaxStarts[q] \in Nat
  BY WriteLockAssumption DEF WriteLockIInv, LockTypes
<1>c. \A f \in Tasks : SameProcess(f)' <=> SameProcess(f)
  <2> SUFFICES ASSUME NEW f \in Tasks PROVE SameProcess(f)' <=> SameProcess(f)
    OBVIOUS
  <2>1. ProcessOf[f] \in Processes /\ madeIn[f] <= starts[ProcessOf[f]]
    BY WriteLockAssumption DEF WriteLockIInv, MadeBefore
  <2>2. CASE ProcessOf[f] = p
    <3>1. starts'[p] = starts[p] + 1 /\ starts[p] \in Nat /\ madeIn[f] \in Nat
      BY <1>a, <1>b
    <3>2. starts'[p] # madeIn[f]
      BY <2>1, <2>2, <3>1
    <3> QED
      BY <1>a, <2>2, <3>2 DEF SameProcess
  <2>3. CASE ProcessOf[f] # p
    BY <1>a, <1>b, <2>1, <2>3 DEF SameProcess
  <2> QED
    BY <2>2, <2>3
<1>1. LockTypes'
  <2>1. /\ running' \in [Processes -> BOOLEAN] /\ starts' \in [Processes -> Nat]
        /\ \A q \in Processes : starts'[q] \in 1..MaxStarts[q]
    <3>1. \A q \in Processes : starts'[q] = IF q = p THEN starts[q] + 1 ELSE starts[q]
      BY <1>a, <1>b
    <3> QED
      BY <1>a, <1>b, <3>1
  <2>2. sweep' \in [Processes -> Tasks \cup {NoLockFile, Due}]
    BY DEF WriteLockIInv, LockTypes, Start
  <2> QED
    BY <1>a, <2>1, <2>2 DEF WriteLockIInv, LockTypes
<1>2. (TasksAreAlive /\ OwnFile /\ UsedFilesAreOwn)'
  BY WriteLockAssumption DEF WriteLockIInv, LockTypes, TasksAreAlive, OwnFile,
       UsedFilesAreOwn, Uses, SameProcess, Start
<1>3. (HeldFilesAreRecorded /\ RecordsAreOwn)'
  BY WriteLockAssumption DEF WriteLockIInv, LockTypes, HeldFilesAreRecorded, RecordsAreOwn,
       HasRecord, SameProcess, Uses, UsedFilesAreOwn, OwnFile, TasksAreAlive, Start
<1>4. (MadeBefore /\ LockFileWasOpened /\ JudgedWasOpened)'
  BY WriteLockAssumption DEF WriteLockIInv, LockTypes, MadeBefore, LockFileWasOpened,
       JudgedWasOpened, Opened, UsedFilesAreOwn, OwnFile, SameProcess, Start
<1>5. (UnlostFileIsThere /\ JudgedIsStale)'
  BY <1>a, <1>b, <1>c DEF WriteLockIInv, UnlostFileIsThere, JudgedIsStale, Uses
<1>6. CountIsHolders'
  BY WriteLockAssumption DEF WriteLockIInv, LockTypes, CountIsHolders, Holders, Start
<1>7. (HoldersHoldByRecord /\ LockFileHasOwner)'
  BY <1>a, <1>b, <1>c DEF WriteLockIInv, HoldersHoldByRecord, LockFileHasOwner
<1> QED
  BY <1>1, <1>2, <1>3, <1>4, <1>5, <1>6, <1>7 DEF WriteLockIInv

LEMMA CloseEndsWithRmStep ==
  ASSUME WriteLockIInv, NEW p \in Processes, NEW f \in Tasks, CloseEndsWithRm(p, f)
  PROVE  WriteLockIInv'
<1>1. LockTypes'
  BY WriteLockAssumption DEF WriteLockIInv, LockTypes, Users, CloseEndsWithRm
<1>2. (TasksAreAlive /\ OwnFile /\ UsedFilesAreOwn)'
  BY WriteLockAssumption DEF WriteLockIInv, LockTypes, TasksAreAlive, OwnFile,
       UsedFilesAreOwn, Uses, SameProcess, CloseEndsWithRm
<1>3. (HeldFilesAreRecorded /\ RecordsAreOwn)'
  BY WriteLockAssumption DEF WriteLockIInv, LockTypes, HeldFilesAreRecorded, RecordsAreOwn,
       HasRecord, SameProcess, Uses, UsedFilesAreOwn, OwnFile, TasksAreAlive,
       CloseEndsWithRm
<1>4. (MadeBefore /\ LockFileWasOpened /\ JudgedWasOpened)'
  BY WriteLockAssumption DEF WriteLockIInv, LockTypes, MadeBefore, LockFileWasOpened,
       JudgedWasOpened, Opened, UsedFilesAreOwn, OwnFile, SameProcess, CloseEndsWithRm
<1>5. (UnlostFileIsThere /\ JudgedIsStale)'
  BY WriteLockAssumption DEF WriteLockIInv, LockTypes, UnlostFileIsThere, JudgedIsStale,
       Uses, Users, SameProcess, UsedFilesAreOwn, LockFileWasOpened, JudgedWasOpened,
       Opened, MadeBefore, OwnFile, CloseEndsWithRm
<1>6. CountIsHolders'
  BY WriteLockAssumption DEF WriteLockIInv, LockTypes, CountIsHolders, Holders,
       CloseEndsWithRm
<1>7. (HoldersHoldByRecord /\ LockFileHasOwner)'
  BY WriteLockAssumption DEF WriteLockIInv, LockTypes, HoldersHoldByRecord,
       LockFileHasOwner, SameProcess, Users, Uses, UsedFilesAreOwn, OwnFile,
       CloseEndsWithRm
<1> QED
  BY <1>1, <1>2, <1>3, <1>4, <1>5, <1>6, <1>7 DEF WriteLockIInv

LEMMA FileAgesStep ==
  ASSUME WriteLockIInv, FileAges
  PROVE  WriteLockIInv'
<1>1. LockTypes'
  BY WriteLockAssumption DEF WriteLockIInv, LockTypes, Users, FileAges
<1>2. (TasksAreAlive /\ OwnFile /\ UsedFilesAreOwn)'
  BY WriteLockAssumption DEF WriteLockIInv, LockTypes, TasksAreAlive, OwnFile,
       UsedFilesAreOwn, Uses, SameProcess, FileAges
<1>3. (HeldFilesAreRecorded /\ RecordsAreOwn)'
  BY WriteLockAssumption DEF WriteLockIInv, LockTypes, HeldFilesAreRecorded, RecordsAreOwn,
       HasRecord, SameProcess, Uses, UsedFilesAreOwn, OwnFile, TasksAreAlive, FileAges
<1>4. (MadeBefore /\ LockFileWasOpened /\ JudgedWasOpened)'
  BY WriteLockAssumption DEF WriteLockIInv, LockTypes, MadeBefore, LockFileWasOpened,
       JudgedWasOpened, Opened, UsedFilesAreOwn, OwnFile, SameProcess, FileAges
<1>5. (UnlostFileIsThere /\ JudgedIsStale)'
  BY WriteLockAssumption DEF WriteLockIInv, LockTypes, UnlostFileIsThere, JudgedIsStale,
       Uses, Users, SameProcess, UsedFilesAreOwn, LockFileWasOpened, JudgedWasOpened,
       Opened, MadeBefore, OwnFile, FileAges
<1>6. CountIsHolders'
  BY WriteLockAssumption DEF WriteLockIInv, LockTypes, CountIsHolders, Holders, FileAges
<1>7. (HoldersHoldByRecord /\ LockFileHasOwner)'
  BY WriteLockAssumption DEF WriteLockIInv, LockTypes, HoldersHoldByRecord,
       LockFileHasOwner, SameProcess, Users, Uses, UsedFilesAreOwn, OwnFile, FileAges
<1> QED
  BY <1>1, <1>2, <1>3, <1>4, <1>5, <1>6, <1>7 DEF WriteLockIInv

LEMMA WriteLockNextInv == WriteLockIInv /\ [WriteLockNext]_writeLockVars => WriteLockIInv'
<1> SUFFICES ASSUME WriteLockIInv, [WriteLockNext]_writeLockVars PROVE WriteLockIInv'
  OBVIOUS
<1>1. ASSUME NEW t \in Tasks,
             \/ Acquire(t) \/ Open(t) \/ WritePayload(t) \/ Record(t) \/ WriteFails(t) \/ Undo(t)
             \/ GiveUp(t) \/ Inspect(t) \/ Reclaim(t) \/ ReleaseLock(t)
      PROVE  WriteLockIInv'
  BY <1>1, AcquireStep, OpenStep, WritePayloadStep, RecordStep, WriteFailsStep, UndoStep,
     GiveUpStep, InspectStep, ReclaimStep, ReleaseLockStep
<1>2. ASSUME NEW p \in Processes,
             \/ SweepInspect(p) \/ SweepRemove(p) \/ Watchdog(p) \/ Signal(p)
             \/ Exit(p) \/ Killed(p) \/ Start(p)
             \/ \E f \in Tasks : CloseEndsWithRm(p, f)
      PROVE  WriteLockIInv'
  BY <1>2, SweepInspectStep, SweepRemoveStep, WatchdogStep, SignalStep, ExitStep, KilledStep,
     ProcessStartStep, CloseEndsWithRmStep
<1>3. CASE FileAges
  BY <1>3, FileAgesStep
<1>4. CASE UNCHANGED writeLockVars
  BY <1>4 DEF writeLockVars, WriteLockIInv, LockTypes, TasksAreAlive, OwnFile, UsedFilesAreOwn,
     HeldFilesAreRecorded, RecordsAreOwn, MadeBefore, LockFileWasOpened, JudgedWasOpened,
     UnlostFileIsThere, JudgedIsStale, CountIsHolders, HoldersHoldByRecord, LockFileHasOwner,
     Uses, Opened, HasRecord, SameProcess, Holders
<1> QED
  BY <1>1, <1>2, <1>3, <1>4 DEF WriteLockNext

LEMMA WriteLockInvariance == WriteLockSpec => []WriteLockIInv
BY WriteLockInitInv, WriteLockNextInv, PTL DEF WriteLockSpec

-----------------------------------------------------------------------------
(* What follows *)

LEMMA WriteLockIInvImplies == WriteLockIInv => WriteLockInv
<1> SUFFICES ASSUME WriteLockIInv PROVE WriteLockInv
  OBVIOUS
<1>1. \A p \in Processes : count[p] \in 0..Cardinality(Tasks)
  <2> SUFFICES ASSUME NEW p \in Processes PROVE count[p] \in 0..Cardinality(Tasks)
    OBVIOUS
  <2>1. Cardinality(Tasks) \in Nat
    BY HoldersAreFinite
  <2>2. CASE held[p] = NoLockFile
    BY <2>1, <2>2 DEF WriteLockIInv, RecordsAreOwn
  <2>3. CASE held[p] # NoLockFile
    BY <2>3, HoldersAreFinite DEF WriteLockIInv, CountIsHolders
  <2> QED
    BY <2>2, <2>3
<1>2. WriteLockTypeOK
  BY <1>1 DEF WriteLockIInv, LockTypes, WriteLockTypeOK
<1>3. RecordCountsHolders
  <2> SUFFICES ASSUME NEW p \in Processes
               PROVE  LET holders == {t \in Tasks : ProcessOf[t] = p /\ pc[t] = "holds"} IN
                      /\ held[p] # NoLockFile =>
                           count[p] = Cardinality({t \in holders : mine[t] = held[p]})
                      /\ \A t \in holders \ lost : mine[t] = held[p]
    BY DEF RecordCountsHolders
  <2> DEFINE holders == {t \in Tasks : ProcessOf[t] = p /\ pc[t] = "holds"}
  <2>1. {t \in holders : mine[t] = held[p]} = Holders(p, held[p])
    BY DEF Holders
  <2>2. held[p] # NoLockFile => count[p] = Cardinality({t \in holders : mine[t] = held[p]})
    BY <2>1 DEF WriteLockIInv, CountIsHolders
  <2>3. \A t \in holders \ lost : mine[t] = held[p]
    BY DEF WriteLockIInv, HoldersHoldByRecord
  <2> QED
    BY <2>2, <2>3
<1>4. OneWriterUnlessLost
  BY DEF WriteLockIInv, UnlostFileIsThere, OneWriterUnlessLost, Uses
<1> QED
  BY <1>2, <1>3, <1>4 DEF WriteLockIInv, WriteLockInv

\* Whatever the tasks, the watchdogs, the signals and the ends of processes do and in
\* whichever order: a record counts the tasks that hold through it, the file on disk has
\* somebody to remove it or a maker that is gone, and of the tasks that have not had the
\* lock taken from them no two hold it by different files (session-write-lock.ts).
THEOREM WriteLockIsSafe == WriteLockSpec => []WriteLockInv
BY WriteLockInvariance, WriteLockIInvImplies, PTL

\* No waiter removes a file that is in use, fresh and the one it has inspected, except in
\* the process that has made it and where start times cannot be read
\* (shouldReclaimContendedLockFile, shouldTreatAsOrphanSelfLock).
THEOREM FreshLocksAreSafe == WriteLockSpec => FreshLocksStay
<1>1. ASSUME WriteLockIInv
      PROVE  \A t \in Tasks :
               /\ pc[t] = "removing" /\ pc'[t] = "trying"
               /\ judged[t] = lockFile /\ Users(lockFile) # {} /\ ~old
               => ~linux /\ ProcessOf[lockFile] = ProcessOf[t]
  <2> SUFFICES ASSUME NEW t \in Tasks, pc[t] = "removing", judged[t] = lockFile,
                      Users(lockFile) # {}, ~old
               PROVE  ~linux /\ ProcessOf[lockFile] = ProcessOf[t]
    OBVIOUS
  <2>1. PICK u \in Tasks : mine[u] = lockFile /\ Uses(u)
    BY DEF Users, Uses
  <2>2. lockFile # NoLockFile /\ SameProcess(lockFile)
    BY <1>1, <2>1, WriteLockAssumption DEF WriteLockIInv, UsedFilesAreOwn
  <2> QED
    BY <1>1, <2>2 DEF WriteLockIInv, JudgedIsStale
<1> QED
  BY <1>1, WriteLockInvariance, PTL DEF FreshLocksStay

-----------------------------------------------------------------------------
(* Cron: the inductive invariant *)

Stores == UNION {[J -> Records] : J \in SUBSET Jobs}
Claims == [st : {"pending", "running", "done"}, claimed : Times, started : MaybeTimes,
           ended : MaybeTimes, result : Results \cup {"none"}, released : BOOLEAN]
Batches == UNION {[J -> Claims] : J \in SUBSET Jobs}
Service == [phase : {"off", "clear", "collect", "catchup", "recompute", "up"},
            store : Stores, timer : BOOLEAN, tick : {"idle", "collect", "run", "finally"},
            owns : BOOLEAN, interrupted : SUBSET Jobs, kept : SUBSET Jobs]

\* An execution has the times and the result of what it has been through.
ClaimOK(c, t) ==
  /\ c.claimed <= t
  /\ c.st # "pending" => c.started # NoTime
  /\ c.st = "done" => c.ended # NoTime /\ c.result # "none"

\* A service v and the executions b it has begun, fr being the ids not used yet.
ServiceOK(v, b, fr, t) ==
  /\ \A by \in Sources : \A j \in DOMAIN b[by] : ClaimOK(b[by][j], t) /\ j \notin fr
  /\ v.tick = "run" <=> b["timer"] # Nothing
  /\ v.phase = "catchup" <=> b["startup"] # Nothing
  /\ v.phase = "off" => v = Off
  /\ v.phase \in {"off", "clear"} => b = NoRuns /\ ~v.timer /\ v.tick = "idle"
  /\ DOMAIN v.store \cap fr = {}

\* A one-shot that has succeeded at its time.
Succeeded(j, r) == Kind[j] = "at" /\ r.status = "ok" /\ r.at <= r.last

\* A job has a next run unless it is disabled or has succeeded for good.
WellTimed(S) ==
  \A j \in DOMAIN S : S[j].next = NoTime <=> ~S[j].enabled \/ Succeeded(j, S[j])

\* The same records, but for the markers.
SameRecord(r, q) ==
  /\ r.at = q.at /\ r.enabled = q.enabled /\ r.next = q.next
  /\ r.last = q.last /\ r.status = q.status /\ r.errors = q.errors
SameRecords(S, T) ==
  DOMAIN S = DOMAIN T /\ \A j \in DOMAIN S : SameRecord(S[j], T[j])

HasMarker(c, t) == ~c.released /\ t - c.claimed <= StuckAfter

\* The job of an execution in b that has its marker is enabled and marked in the store S,
\* no earlier than it was claimed.
MarkedIn(S, b, t) ==
  \A by \in Sources : \A j \in DOMAIN b[by] :
    HasMarker(b[by][j], t) /\ j \in DOMAIN S =>
      S[j].enabled /\ S[j].running # NoTime /\ S[j].running >= b[by][j].claimed
ClaimedOnceIn(b, t) ==
  \A by1, by2 \in Sources : \A j \in DOMAIN b[by1] \cap DOMAIN b[by2] :
    HasMarker(b[by1][j], t) /\ HasMarker(b[by2][j], t) => by1 = by2

Loaded(v) == v.phase \notin {"off", "clear"}

\* The only service that works on the store file D.
SoleService(v, D, b, t) ==
  /\ WellTimed(D) /\ MarkedIn(D, b, t) /\ ClaimedOnceIn(b, t)
  /\ Loaded(v) => SameRecords(v.store, D) /\ MarkedIn(v.store, b, t)
  /\ v.phase = "up" /\ v.tick = "idle" /\ ~v.timer => ~Wakes(D)

CronIInv ==
  /\ now \in Times /\ fresh \subseteq Jobs
  /\ disk \in Stores /\ DOMAIN disk \cap fresh = {}
  /\ api \in Services /\ scheduler \in Services /\ replacements \in Nat
  /\ svc \in [Services -> Service] /\ batch \in [Services -> [Sources -> Batches]]
  /\ \A s \in Services : ServiceOK(svc[s], batch[s], fresh, now)
  /\ replacements = 0 =>
       /\ scheduler = api /\ \A s \in Services : s # api => svc[s].phase = "off"
       /\ SoleService(svc[api], disk, batch[api], now)

LEMMA CronBounds ==
  /\ Period \in Nat /\ Period >= 1 /\ MinGap \in Nat /\ Backoff \in Nat /\ StuckAfter \in Nat
  /\ MaxRetries \in Nat /\ MaxTime \in Nat /\ MaxTime >= 1
  /\ Results \subseteq {"ok", "skipped", "transient", "permanent"} /\ "none" \notin Results
  /\ \A j \in Jobs : Kind[j] \in {"at", "every", "cron"}
  /\ Stored \subseteq Jobs
<1>1. /\ Period \in Nat \ {0} /\ MinGap \in Nat \ {0} /\ MaxTime \in Nat \ {0}
      /\ Backoff \in Nat /\ StuckAfter \in Nat /\ MaxRetries \in Nat
  BY CronAssumption
<1>2. Results \subseteq {"ok", "skipped", "transient", "permanent"}
  BY CronAssumption
<1>3. Kind \in [Jobs -> {"at", "every", "cron"}] /\ Stored \subseteq Jobs
  BY CronAssumption
<1> QED
  BY <1>1, <1>2, <1>3

LEMMA TimeFacts ==
  /\ NoTime \in Int /\ NoTime = -1
  /\ \A t \in Times : t \in Nat /\ t >= 1 /\ t # NoTime /\ t \in MaybeTimes
  /\ \A t \in MaybeTimes : t \in Int /\ (t # NoTime => t \in Times)
<1>1. MaxTime \in Nat
  BY CronBounds
<1> QED
  BY <1>1 DEF Times, MaybeTimes, NoTime

LEMMA RecordFacts ==
  ASSUME NEW r \in Records
  PROVE  /\ r.at \in Times /\ r.enabled \in BOOLEAN /\ r.next \in Int /\ r.running \in MaybeTimes
         /\ r.last \in MaybeTimes /\ r.status \in {"none", "ok", "skipped", "error"}
         /\ r.errors \in 0..MaxRetries + 1
         /\ r.at \in Int /\ r.running \in Int /\ r.last \in Int /\ r.errors \in Nat
<1>1. /\ r.at \in Times /\ r.enabled \in BOOLEAN /\ r.next \in Int /\ r.running \in MaybeTimes
      /\ r.last \in MaybeTimes /\ r.status \in {"none", "ok", "skipped", "error"}
      /\ r.errors \in 0..MaxRetries + 1
  BY DEF Records
<1>2. r.errors \in Nat
  BY <1>1, CronBounds
<1>3. r.at \in Int /\ r.running \in Int /\ r.last \in Int
  BY <1>1, TimeFacts
<1> QED
  BY <1>1, <1>2, <1>3

LEMMA StoreFacts ==
  ASSUME NEW S \in Stores
  PROVE  /\ DOMAIN S \subseteq Jobs /\ S = [j \in DOMAIN S |-> S[j]]
         /\ \A j \in DOMAIN S : S[j] \in Records
BY DEF Stores

LEMMA StoreIntro ==
  ASSUME NEW J \in SUBSET Jobs, NEW F \in [J -> Records] PROVE F \in Stores
BY DEF Stores

LEMMA BatchFacts ==
  ASSUME NEW B \in Batches
  PROVE  /\ DOMAIN B \subseteq Jobs /\ B = [j \in DOMAIN B |-> B[j]]
         /\ \A j \in DOMAIN B : B[j] \in Claims
         /\ (B = Nothing) <=> (DOMAIN B = {})
<1>1. /\ DOMAIN B \subseteq Jobs /\ B = [j \in DOMAIN B |-> B[j]]
      /\ \A j \in DOMAIN B : B[j] \in Claims
  BY DEF Batches
<1>2. ASSUME DOMAIN B = {} PROVE B = Nothing
  BY <1>1, <1>2 DEF Nothing
<1>3. DOMAIN Nothing = {}
  BY DEF Nothing
<1> QED
  BY <1>1, <1>2, <1>3

LEMMA NothingFacts ==
  /\ Nothing \in Stores /\ Nothing \in Batches /\ DOMAIN Nothing = {}
  /\ Off \in Service /\ NoRuns \in [Sources -> Batches]
  /\ \A by \in Sources : NoRuns[by] = Nothing
<1>1. Nothing \in [{} -> Records] /\ Nothing \in [{} -> Claims] /\ DOMAIN Nothing = {}
  BY DEF Nothing
<1>2. Nothing \in Stores /\ Nothing \in Batches
  BY <1>1 DEF Stores, Batches
<1> HIDE DEF Nothing
<1>3. Off \in Service
  BY <1>2 DEF Off, Service
<1>4. NoRuns \in [Sources -> Batches] /\ \A by \in Sources : NoRuns[by] = Nothing
  BY <1>2 DEF NoRuns
<1> QED
  BY <1>1, <1>2, <1>3, <1>4

LEMMA ServiceFacts ==
  ASSUME NEW v \in Service
  PROVE  /\ v.phase \in {"off", "clear", "collect", "catchup", "recompute", "up"}
         /\ v.store \in Stores /\ v.timer \in BOOLEAN
         /\ v.tick \in {"idle", "collect", "run", "finally"} /\ v.owns \in BOOLEAN
         /\ v.interrupted \in SUBSET Jobs /\ v.kept \in SUBSET Jobs
BY DEF Service

-----------------------------------------------------------------------------
(* Cron: schedules and records *)

LEMMA PositiveProduct ==
  ASSUME NEW a \in Int, NEW b \in Int, a >= 1, b >= 1 PROVE a * b \in Int /\ a * b >= 1
OBVIOUS

LEMMA PositiveQuotient ==
  ASSUME NEW t \in Nat PROVE t \div Period \in Int /\ t \div Period >= 0
<1>1. Period \in Nat /\ Period >= 1
  BY CronBounds
<1> QED
  BY <1>1

\* A schedule gives a time unless the job is a one-shot that has succeeded.
LEMMA NextRunFacts ==
  ASSUME NEW j \in Jobs, NEW r \in Records, NEW t \in Times
  PROVE  /\ NextRun(j, r, t) \in Int
         /\ (NextRun(j, r, t) = NoTime) <=> Succeeded(j, r)
<1>1. /\ Period \in Nat /\ Period >= 1 /\ t \in Nat /\ t >= 1
      /\ r.at \in Nat /\ r.at >= 1 /\ r.last \in Int /\ NoTime = -1 /\ r.at # NoTime
  BY CronBounds, RecordFacts, TimeFacts
<1>2. CASE Kind[j] = "every"
  <2>1. NextOfEvery(r.at, t) \in Int /\ NextOfEvery(r.at, t) >= 1
    <3>1. CASE t < r.at
      BY <1>1, <3>1 DEF NextOfEvery
    <3>2. CASE ~(t < r.at)
      <4> DEFINE q == (t - r.at + Period - 1) \div Period
                 n == Larger(1, q)
      <4>1. q \in Int
        <5>1. t - r.at + Period - 1 \in Nat
          BY <1>1, <3>2
        <5> QED
          BY <5>1, PositiveQuotient
      <4>2. n \in Int /\ n >= 1
        <5> HIDE DEF q
        <5> QED
          BY <4>1 DEF Larger
      <4>3. NextOfEvery(r.at, t) = r.at + n * Period
        BY <3>2 DEF NextOfEvery
      <4> HIDE DEF n
      <4>4. n * Period \in Int /\ n * Period >= 1
        BY <1>1, <4>2, PositiveProduct
      <4> QED
        BY <1>1, <4>3, <4>4
    <3> QED
      BY <3>1, <3>2
  <2>2. NextRun(j, r, t) = IF r.last # NoTime /\ r.last + Period > t THEN r.last + Period
                           ELSE NextOfEvery(r.at, t)
    BY <1>2 DEF NextRun
  <2>3. ~Succeeded(j, r)
    BY <1>2 DEF Succeeded
  <2>4. NextRun(j, r, t) \in Int /\ NextRun(j, r, t) >= 1
    BY <1>1, <2>1, <2>2
  <2> QED
    BY <1>1, <2>3, <2>4
<1>3. CASE Kind[j] = "at"
  <2>1. NextRun(j, r, t) = IF r.status = "ok" /\ r.at <= r.last THEN NoTime ELSE r.at
    BY <1>3 DEF NextRun
  <2> QED
    BY <1>1, <1>3, <2>1 DEF Succeeded
<1>4. CASE Kind[j] = "cron"
  <2>1. NextRun(j, r, t) = (t \div Period + 1) * Period
    BY <1>4 DEF NextRun, NextOfCron
  <2>2. t \div Period \in Int /\ t \div Period >= 0
    BY <1>1, PositiveQuotient
  <2>3. (t \div Period + 1) * Period \in Int /\ (t \div Period + 1) * Period >= 1
    <3> DEFINE n == t \div Period + 1
    <3>1. n \in Int /\ n >= 1
      BY <2>2
    <3> HIDE DEF n
    <3>2. n * Period \in Int /\ n * Period >= 1
      BY <1>1, <3>1, PositiveProduct
    <3> QED
      BY <3>2 DEF n
  <2>4. ~Succeeded(j, r)
    BY <1>4 DEF Succeeded
  <2> QED
    BY <1>1, <2>1, <2>3, <2>4
<1> QED
  BY <1>2, <1>3, <1>4, CronBounds

LEMMA ComputeNextFacts ==
  ASSUME NEW j \in Jobs, NEW r \in Records, NEW t \in Times
  PROVE  /\ ComputeNext(j, r, t) \in Int
         /\ (ComputeNext(j, r, t) = NoTime) <=> (~r.enabled \/ Succeeded(j, r))
BY NextRunFacts, TimeFacts DEF ComputeNext

\* What a walk over the jobs may make of the record r: no schedule or outcome changes, and
\* a marker goes only if it is too old or the job is disabled.
Walks(n, r) ==
  /\ n.at = r.at /\ n.enabled = r.enabled /\ n.last = r.last
  /\ n.status = r.status /\ n.errors = r.errors
  /\ r.enabled /\ r.running # NoTime /\ now - r.running <= StuckAfter => n.running = r.running

LEMMA NormalizedFacts ==
  ASSUME now \in Times, NEW r \in Records, NEW n, n = Normalized(r)
  PROVE  /\ n \in Records /\ Walks(n, r)
         /\ r.enabled => n.next = r.next
         /\ ~r.enabled => n.next = NoTime
<1>1. NoTime \in MaybeTimes /\ NoTime \in Int
  BY DEF MaybeTimes, NoTime
<1>2. now \in Int /\ StuckAfter \in Int /\ r.running \in Int
  BY CronBounds, RecordFacts, TimeFacts
<1> HIDE DEF NoTime
<1>3. CASE ~r.enabled
  <2>1. n = [r EXCEPT !.next = NoTime, !.running = NoTime]
    BY <1>3 DEF Normalized
  <2> QED
    BY <1>1, <1>3, <2>1 DEF Records, Walks
<1>4. CASE r.enabled /\ (r.running # NoTime /\ now - r.running > StuckAfter)
  <2>1. n = [r EXCEPT !.running = NoTime]
    BY <1>4 DEF Normalized
  <2>2. ~(now - r.running <= StuckAfter)
    BY <1>2, <1>4
  <2> QED
    BY <1>1, <1>4, <2>1, <2>2 DEF Records, Walks
<1>5. CASE r.enabled /\ ~(r.running # NoTime /\ now - r.running > StuckAfter)
  <2>1. n = r
    BY <1>5 DEF Normalized
  <2> QED
    BY <1>5, <2>1 DEF Walks
<1> QED
  BY <1>3, <1>4, <1>5

\* No record that is enabled has a next run although the job has succeeded.
Timely(S) == \A j \in DOMAIN S : S[j].enabled /\ S[j].next # NoTime => ~Succeeded(j, S[j])

\* R is the store S after a walk that has computed next runs.
Refreshed(R, S) ==
  /\ R \in Stores /\ DOMAIN R = DOMAIN S
  /\ \A j \in DOMAIN S : Walks(R[j], S[j])
  /\ Timely(S) => WellTimed(R)

LEMMA RecomputedFacts ==
  ASSUME now \in Times, NEW S \in Stores, NEW J, NEW R, R = Recomputed(Walked(S), J),
         \A j \in DOMAIN S : Normalized(S[j]).next = NoTime => j \in J
  PROVE  /\ Refreshed(R, S)
         /\ \A j \in DOMAIN S \ J : R[j].next = Normalized(S[j]).next
<1>1. DOMAIN S \subseteq Jobs /\ \A j \in DOMAIN S : S[j] \in Records
  BY StoreFacts
<1>2. DOMAIN Walked(S) = DOMAIN S /\ \A j \in DOMAIN S : Walked(S)[j] = Normalized(S[j])
  BY DEF Walked
<1>3. R = [j \in DOMAIN S |-> IF j \in J
                              THEN [Normalized(S[j]) EXCEPT
                                      !.next = ComputeNext(j, Normalized(S[j]), now)]
                              ELSE Normalized(S[j])]
  BY <1>2 DEF Recomputed
<1> HIDE DEF Walks, Succeeded
<1>4. ASSUME NEW j \in DOMAIN S
      PROVE  /\ R[j] \in Records /\ Walks(R[j], S[j])
             /\ Timely(S) => (R[j].next = NoTime <=> ~R[j].enabled \/ Succeeded(j, R[j]))
             /\ j \notin J => R[j].next = Normalized(S[j]).next
  <2> DEFINE n == Normalized(S[j])
  <2>1. j \in Jobs /\ S[j] \in Records
    BY <1>1
  <2>2. /\ n \in Records /\ Walks(n, S[j])
        /\ (S[j].enabled => n.next = S[j].next) /\ (~S[j].enabled => n.next = NoTime)
    BY <2>1, NormalizedFacts
  <2>3. /\ j \in J => R[j] = [n EXCEPT !.next = ComputeNext(j, n, now)]
        /\ j \notin J => R[j] = n /\ n.next # NoTime
    BY <1>3
  <2> HIDE DEF n
  <2>4. CASE j \in J
    <3>1. /\ ComputeNext(j, n, now) \in Int
          /\ (ComputeNext(j, n, now) = NoTime) <=> (~n.enabled \/ Succeeded(j, n))
      BY <2>1, <2>2, ComputeNextFacts
    <3>2. /\ R[j] \in Records /\ R[j].next = ComputeNext(j, n, now)
          /\ R[j].at = n.at /\ R[j].enabled = n.enabled /\ R[j].running = n.running
          /\ R[j].last = n.last /\ R[j].status = n.status /\ R[j].errors = n.errors
      BY <2>2, <2>3, <2>4, <3>1 DEF Records
    <3>3. Walks(R[j], S[j])
      BY <2>2, <3>2 DEF Walks
    <3>4. Succeeded(j, R[j]) <=> Succeeded(j, n)
      BY <3>2 DEF Succeeded
    <3> QED
      BY <2>4, <3>1, <3>2, <3>3, <3>4
  <2>5. CASE j \notin J
    <3>1. n.enabled = S[j].enabled /\ n.next # NoTime /\ R[j] = n
      BY <2>2, <2>3, <2>5 DEF Walks
    <3>2. S[j].enabled /\ S[j].next # NoTime
      <4>1. S[j].enabled \in BOOLEAN
        BY <2>1, RecordFacts
      <4> QED
        BY <2>2, <3>1, <4>1
    <3>3. Succeeded(j, n) <=> Succeeded(j, S[j])
      BY <2>2 DEF Succeeded, Walks
    <3>4. Timely(S) => ~Succeeded(j, S[j])
      BY <3>2 DEF Timely
    <3> QED
      BY <2>2, <2>5, <3>1, <3>2, <3>3, <3>4 DEF n
  <2> QED
    BY <2>4, <2>5
<1>5. R \in Stores /\ DOMAIN R = DOMAIN S
  <2>1. R \in [DOMAIN S -> Records]
    <3>1. R = [j \in DOMAIN S |-> R[j]]
      BY <1>3
    <3> QED
      BY <1>4, <3>1
  <2> QED
    BY <1>1, <2>1, StoreIntro
<1> QED
  BY <1>4, <1>5 DEF Refreshed, WellTimed

LEMMA MaintenanceFacts ==
  ASSUME now \in Times, NEW S \in Stores, NEW R, R = RecomputeForMaintenance(S)
  PROVE  /\ Refreshed(R, S)
         /\ \A j \in DOMAIN S : S[j].enabled /\ S[j].next # NoTime => R[j].next = S[j].next
         /\ WellTimed(S) => SameRecords(R, S)
<1> DEFINE J == {j \in DOMAIN S : Missing(Normalized(S[j]))}
<1>1. R = Recomputed(Walked(S), J)
  <2>1. DOMAIN Walked(S) = DOMAIN S /\ \A j \in DOMAIN S : Walked(S)[j] = Normalized(S[j])
    BY DEF Walked
  <2>2. {j \in DOMAIN Walked(S) : Missing(Walked(S)[j])} = J
    BY <2>1
  <2> QED
    BY <2>2 DEF RecomputeForMaintenance
<1>2. \A j \in DOMAIN S : Normalized(S[j]).next = NoTime <=> j \in J
  BY DEF Missing
<1> HIDE DEF J
<1>3. /\ Refreshed(R, S)
      /\ \A j \in DOMAIN S \ J : R[j].next = Normalized(S[j]).next
  BY <1>1, <1>2, RecomputedFacts
<1>4. ASSUME WellTimed(S), NEW j \in DOMAIN S PROVE SameRecord(R[j], S[j])
  <2>1. S[j] \in Records /\ S[j].enabled \in BOOLEAN /\ Walks(R[j], S[j]) /\ j \in DOMAIN R
    BY <1>3, StoreFacts, RecordFacts DEF Refreshed
  <2>2. Timely(S)
    BY <1>4 DEF WellTimed, Timely
  <2>3. R[j].next = NoTime <=> ~R[j].enabled \/ Succeeded(j, R[j])
    BY <1>3, <2>1, <2>2 DEF Refreshed, WellTimed
  <2>4. S[j].next = NoTime <=> ~S[j].enabled \/ Succeeded(j, S[j])
    BY <1>4 DEF WellTimed
  <2>5. R[j].enabled = S[j].enabled /\ (Succeeded(j, R[j]) <=> Succeeded(j, S[j]))
    BY <2>1 DEF Walks, Succeeded
  <2>6. R[j].next = S[j].next
    <3>1. CASE S[j].next = NoTime
      BY <2>3, <2>4, <2>5, <3>1
    <3>2. CASE S[j].next # NoTime
      <4>1. S[j].enabled /\ Normalized(S[j]).next = S[j].next
        BY <2>1, <2>4, <3>2, NormalizedFacts
      <4> QED
        BY <1>2, <1>3, <3>2, <4>1
    <3> QED
      BY <3>1, <3>2
  <2> QED
    BY <2>1, <2>6 DEF SameRecord, Walks
<1>5. ASSUME NEW j \in DOMAIN S, S[j].enabled, S[j].next # NoTime PROVE R[j].next = S[j].next
  <2>1. S[j] \in Records
    BY StoreFacts
  <2>2. Normalized(S[j]).next = S[j].next
    BY <1>5, <2>1, NormalizedFacts
  <2> QED
    BY <1>2, <1>3, <1>5, <2>2
<1> QED
  BY <1>3, <1>4, <1>5 DEF SameRecords, Refreshed

LEMMA RecomputeFacts ==
  ASSUME now \in Times, NEW S \in Stores, NEW R, R = RecomputeNextRuns(S)
  PROVE  Refreshed(R, S)
<1> DEFINE J == {j \in DOMAIN S : Normalized(S[j]).next <= now}
<1>1. R = Recomputed(Walked(S), J)
  <2>1. DOMAIN Walked(S) = DOMAIN S /\ \A j \in DOMAIN S : Walked(S)[j] = Normalized(S[j])
    BY DEF Walked
  <2>2. {j \in DOMAIN Walked(S) : Walked(S)[j].next <= now} = J
    BY <2>1
  <2> QED
    BY <2>2 DEF RecomputeNextRuns
<1>2. \A j \in DOMAIN S : Normalized(S[j]).next = NoTime => j \in J
  BY TimeFacts
<1> HIDE DEF J
<1> QED
  BY <1>1, <1>2, RecomputedFacts

-----------------------------------------------------------------------------
(* Cron: outcomes *)

\* What has been executed, and is to be recorded.
Done(X, t) == \A j \in DOMAIN X : X[j].st = "done" /\ ClaimOK(X[j], t)

LEMMA OutcomeFacts ==
  ASSUME NEW j \in Jobs, NEW r \in Records, NEW x \in Claims, NEW t,
         x.st = "done", ClaimOK(x, t), NEW n, n = ApplyJobResult(j, r, x)
  PROVE  /\ n \in Records /\ n.at = r.at
         /\ n.enabled /\ n.next # NoTime => ~Succeeded(j, n)
<1> DEFINE status == Status(x.result)
           errors == IF status = "error" THEN r.errors + 1 ELSE 0
           ran == [r EXCEPT !.running = NoTime, !.last = x.started, !.status = status,
                            !.errors = IF errors > MaxRetries THEN MaxRetries + 1 ELSE errors]
<1>1. /\ x.started \in Times /\ x.ended \in Times /\ x.result \in Results
      /\ x.started \in MaybeTimes /\ x.ended \in Nat /\ x.ended >= 1
  <2>1. x.started \in MaybeTimes /\ x.ended \in MaybeTimes /\ x.result \in Results \cup {"none"}
    BY DEF Claims
  <2>2. x.started # NoTime /\ x.ended # NoTime /\ x.result # "none"
    BY DEF ClaimOK
  <2> QED
    BY <2>1, <2>2, TimeFacts
<1>2. status \in {"ok", "skipped", "error"} /\ (x.result = "transient" => status = "error")
  BY <1>1, CronBounds DEF Status
<1>3. errors \in Nat
  BY RecordFacts
<1> HIDE DEF status, errors
<1>4. (IF errors > MaxRetries THEN MaxRetries + 1 ELSE errors) \in 0..MaxRetries + 1
  BY <1>3, CronBounds
<1>5. /\ ran \in Records /\ ran.at = r.at /\ ran.enabled = r.enabled /\ ran.status = status
      /\ NoTime \in MaybeTimes /\ NoTime \in Int
  <2>1. NoTime \in MaybeTimes /\ NoTime \in Int
    BY DEF MaybeTimes, NoTime
  <2> QED
    BY <1>1, <1>2, <1>4, <2>1 DEF Records
<1> DEFINE retry == Kind[j] = "at" /\ x.result = "transient" /\ errors <= MaxRetries
<1>6. CASE retry
  <2>1. n = [ran EXCEPT !.next = x.ended + Backoff]
    BY <1>6 DEF ApplyJobResult, status, errors
  <2>2. x.ended + Backoff \in Int
    BY <1>1, CronBounds
  <2> HIDE DEF ran
  <2>3. n \in Records /\ n.at = r.at /\ n.status = "error"
    BY <1>2, <1>5, <1>6, <2>1, <2>2 DEF Records
  <2> QED
    BY <2>3 DEF Succeeded
<1>7. CASE Kind[j] = "at" /\ ~retry
  <2>1. n = [ran EXCEPT !.enabled = FALSE, !.next = NoTime]
    BY <1>7 DEF ApplyJobResult, status, errors
  <2> HIDE DEF ran
  <2> QED
    BY <1>5, <2>1 DEF Records
<1>8. CASE Kind[j] # "at"
  <2> DEFINE next == IF r.enabled THEN NextAfter(j, ran, x.ended) ELSE NoTime
  <2>1. n = [ran EXCEPT !.next = next]
    BY <1>8 DEF ApplyJobResult, status, errors
  <2> HIDE DEF ran
  <2>2. next \in Int
    <3>1. NextRun(j, ran, x.ended) \in Int
      BY <1>1, <1>5, NextRunFacts
    <3>2. x.ended + Backoff \in Int /\ x.ended + MinGap \in Int
      BY <1>1, CronBounds
    <3> HIDE DEF NextRun
    <3>3. NextAfter(j, ran, x.ended) \in Int
      <4>1. CASE ran.status = "error"
        BY <3>1, <3>2, <4>1 DEF NextAfter, Larger
      <4>2. CASE ran.status # "error" /\ Kind[j] = "cron"
        BY <3>1, <3>2, <4>2 DEF NextAfter, Larger
      <4>3. CASE ran.status # "error" /\ Kind[j] # "cron"
        BY <3>1, <4>3 DEF NextAfter
      <4> QED
        BY <4>1, <4>2, <4>3
    <3> QED
      BY <1>5, <3>3
  <2> HIDE DEF next
  <2> QED
    BY <1>5, <1>8, <2>1, <2>2 DEF Records, Succeeded
<1> QED
  BY <1>6, <1>7, <1>8

LEMMA RecordedFacts ==
  ASSUME NEW S \in Stores, NEW X \in Batches, NEW t, Done(X, t), NEW R, R = Recorded(S, X)
  PROVE  /\ R \in Stores /\ DOMAIN R \subseteq DOMAIN S
         /\ \A j \in DOMAIN S \ DOMAIN X : j \in DOMAIN R /\ R[j] = S[j]
         /\ \A j \in DOMAIN R : R[j].at = S[j].at
         /\ Timely(S) => Timely(R)
<1> DEFINE D == {i \in DOMAIN S : i \in DOMAIN X => ~Deleted(i, X[i])}
<1>1. /\ DOMAIN S \subseteq Jobs /\ \A j \in DOMAIN S : S[j] \in Records
      /\ \A j \in DOMAIN X : X[j] \in Claims
  BY StoreFacts, BatchFacts
<1>2. R = [j \in D |-> IF j \in DOMAIN X THEN ApplyJobResult(j, S[j], X[j]) ELSE S[j]]
  BY DEF Recorded
<1>3. D \subseteq DOMAIN S /\ DOMAIN S \ DOMAIN X \subseteq D
  OBVIOUS
<1> HIDE DEF D
<1>4. ASSUME NEW j \in D
      PROVE  /\ R[j] \in Records /\ R[j].at = S[j].at
             /\ Timely(S) => (R[j].enabled /\ R[j].next # NoTime => ~Succeeded(j, R[j]))
  <2>1. j \in DOMAIN S /\ j \in Jobs /\ S[j] \in Records
    BY <1>1, <1>3
  <2>2. CASE j \in DOMAIN X
    <3>1. R[j] = ApplyJobResult(j, S[j], X[j]) /\ X[j] \in Claims
          /\ X[j].st = "done" /\ ClaimOK(X[j], t)
      BY <1>1, <1>2, <2>2 DEF Done
    <3> QED
      BY <2>1, <3>1, OutcomeFacts
  <2>3. CASE j \notin DOMAIN X
    <3>1. R[j] = S[j]
      BY <1>2, <2>3
    <3> QED
      BY <2>1, <3>1 DEF Timely
  <2> QED
    BY <2>2, <2>3
<1>5. R \in Stores /\ DOMAIN R = D
  <2>1. R = [j \in D |-> R[j]]
    BY <1>2
  <2>2. R \in [D -> Records]
    BY <1>4, <2>1
  <2> QED
    BY <1>1, <1>3, <2>2, StoreIntro
<1>6. \A j \in DOMAIN S \ DOMAIN X : j \in DOMAIN R /\ R[j] = S[j]
  BY <1>2, <1>3, <1>5
<1> QED
  BY <1>3, <1>4, <1>5, <1>6 DEF Timely

-----------------------------------------------------------------------------
(* Cron: markers and claims *)

\* F keeps the markers of S that are not too old, but for those of the jobs J.
KeepsMarks(F, S, J, t) ==
  \A j \in DOMAIN F \ J :
    /\ j \in DOMAIN S
    /\ S[j].enabled /\ S[j].running # NoTime /\ t - S[j].running <= StuckAfter =>
         F[j].enabled /\ F[j].running # NoTime /\ F[j].running >= S[j].running

\* The executions b2 are those of b1 or fewer, and none has got its marker back.
Follows(b2, b1) ==
  \A by \in Sources :
    /\ DOMAIN b2[by] \subseteq DOMAIN b1[by]
    /\ \A j \in DOMAIN b2[by] : /\ b2[by][j].claimed = b1[by][j].claimed
                                /\ b1[by][j].released => b2[by][j].released
Unmarked(b, J) == \A by \in Sources : \A j \in DOMAIN b[by] \cap J : b[by][j].released

LEMMA ClaimFacts ==
  ASSUME NEW b \in [Sources -> Batches]
  PROVE  \A by \in Sources : \A j \in DOMAIN b[by] :
           /\ b[by][j] \in Claims /\ b[by][j].claimed \in Times /\ b[by][j].claimed \in Int
           /\ b[by][j].claimed # NoTime /\ b[by][j].released \in BOOLEAN /\ j \in Jobs
<1> TAKE by \in Sources
<1> TAKE j \in DOMAIN b[by]
<1>1. b[by] \in Batches
  OBVIOUS
<1>2. b[by][j] \in Claims /\ j \in Jobs
  BY <1>1, BatchFacts
<1>3. b[by][j].claimed \in Times /\ b[by][j].released \in BOOLEAN
  BY <1>2 DEF Claims
<1> QED
  BY <1>2, <1>3, TimeFacts

LEMMA MarksAreKept ==
  ASSUME NEW S \in Stores, NEW F \in Stores, NEW b1 \in [Sources -> Batches],
         NEW b2 \in [Sources -> Batches], NEW t1 \in Int, NEW t2 \in Int, t1 <= t2, NEW J,
         MarkedIn(S, b1, t1), Follows(b2, b1), Unmarked(b2, J), KeepsMarks(F, S, J, t2)
  PROVE  MarkedIn(F, b2, t2)
<1> SUFFICES ASSUME NEW by \in Sources, NEW j \in DOMAIN b2[by],
                    HasMarker(b2[by][j], t2), j \in DOMAIN F
             PROVE  F[j].enabled /\ F[j].running # NoTime /\ F[j].running >= b2[by][j].claimed
  BY DEF MarkedIn
<1>1. /\ j \in DOMAIN b1[by] /\ b2[by][j].claimed = b1[by][j].claimed
      /\ ~b1[by][j].released /\ t2 - b1[by][j].claimed <= StuckAfter
      /\ b1[by][j].claimed \in Int
  BY ClaimFacts DEF Follows, HasMarker
<1>2. j \notin J /\ j \in DOMAIN S
  BY DEF Unmarked, HasMarker, KeepsMarks
<1>3. HasMarker(b1[by][j], t1)
  BY <1>1, CronBounds DEF HasMarker
<1>4. S[j].enabled /\ S[j].running # NoTime /\ S[j].running >= b1[by][j].claimed
  BY <1>1, <1>2, <1>3 DEF MarkedIn
<1>5. S[j].running \in Int /\ F[j].running \in Int
  BY <1>2, StoreFacts, RecordFacts
<1>6. t2 - S[j].running <= StuckAfter
  BY <1>1, <1>4, <1>5, CronBounds
<1>7. F[j].enabled /\ F[j].running # NoTime /\ F[j].running >= S[j].running
  BY <1>2, <1>4, <1>6 DEF KeepsMarks
<1> QED
  BY <1>1, <1>4, <1>5, <1>7

LEMMA ClaimsStayOnce ==
  ASSUME NEW b1 \in [Sources -> Batches], NEW b2 \in [Sources -> Batches],
         NEW t1 \in Int, NEW t2 \in Int, t1 <= t2, ClaimedOnceIn(b1, t1), Follows(b2, b1)
  PROVE  ClaimedOnceIn(b2, t2)
<1>1. ASSUME NEW by \in Sources, NEW j \in DOMAIN b2[by], HasMarker(b2[by][j], t2)
      PROVE  j \in DOMAIN b1[by] /\ HasMarker(b1[by][j], t1)
  <2>1. /\ j \in DOMAIN b1[by] /\ b2[by][j].claimed = b1[by][j].claimed
        /\ ~b1[by][j].released /\ t2 - b1[by][j].claimed <= StuckAfter
        /\ b1[by][j].claimed \in Int
    BY <1>1, ClaimFacts DEF Follows, HasMarker
  <2> QED
    BY <2>1, CronBounds DEF HasMarker
<1> QED
  BY <1>1 DEF ClaimedOnceIn

\* The jobs of C, which have no marker in S, are claimed and marked in F.
Marks(F, S, C, t) ==
  /\ DOMAIN C \subseteq DOMAIN S /\ DOMAIN F = DOMAIN S
  /\ \A j \in DOMAIN C : /\ S[j].running = NoTime /\ F[j].running = t /\ F[j].enabled = S[j].enabled
                         /\ C[j].claimed = t /\ (S[j].enabled \/ C[j].released)
  /\ \A j \in DOMAIN S \ DOMAIN C : F[j] = S[j]

LEMMA NewClaims ==
  ASSUME NEW S \in Stores, NEW F \in Stores, NEW b1 \in [Sources -> Batches],
         NEW b2 \in [Sources -> Batches], NEW t \in Times, NEW new \in Sources,
         MarkedIn(S, b1, t), ClaimedOnceIn(b1, t),
         \A by \in Sources : by # new => b2[by] = b1[by],
         Marks(F, S, b2[new], t)
  PROVE  MarkedIn(F, b2, t) /\ ClaimedOnceIn(b2, t)
<1>1. t \in Int /\ t # NoTime
  BY TimeFacts
<1>2. ASSUME NEW by \in Sources, by # new, NEW j \in DOMAIN b2[by], HasMarker(b2[by][j], t)
      PROVE  j \notin DOMAIN b2[new]
  <2>1. j \in DOMAIN S => S[j].running # NoTime
    BY <1>2 DEF MarkedIn
  <2> QED
    BY <2>1 DEF Marks
<1>3. MarkedIn(F, b2, t)
  <2> SUFFICES ASSUME NEW by \in Sources, NEW j \in DOMAIN b2[by],
                      HasMarker(b2[by][j], t), j \in DOMAIN F
               PROVE  /\ F[j].enabled /\ F[j].running # NoTime
                      /\ F[j].running >= b2[by][j].claimed
    BY DEF MarkedIn
  <2>1. CASE by = new
    BY <1>1, <2>1 DEF Marks, HasMarker
  <2>2. CASE by # new
    <3>1. F[j] = S[j] /\ j \in DOMAIN S
      BY <1>2, <2>2 DEF Marks
    <3> QED
      BY <2>2, <3>1 DEF MarkedIn
  <2> QED
    BY <2>1, <2>2
<1>4. ClaimedOnceIn(b2, t)
  <2> SUFFICES ASSUME NEW by1 \in Sources, NEW by2 \in Sources,
                      NEW j \in DOMAIN b2[by1] \cap DOMAIN b2[by2],
                      HasMarker(b2[by1][j], t), HasMarker(b2[by2][j], t)
               PROVE  by1 = by2
    BY DEF ClaimedOnceIn
  <2>1. CASE by1 # new /\ by2 # new
    BY <2>1 DEF ClaimedOnceIn
  <2>2. CASE by1 = new \/ by2 = new
    BY <1>2, <2>2
  <2> QED
    BY <2>1, <2>2
<1> QED
  BY <1>3, <1>4

-----------------------------------------------------------------------------
(* Cron: what a step changes *)

\* The executions b2 are those of b1 or fewer; at most they have lost their markers.
Lessens(b2, b1) ==
  \A by \in Sources :
    /\ DOMAIN b2[by] \subseteq DOMAIN b1[by]
    /\ \A j \in DOMAIN b2[by] :
         /\ b2[by][j].st = b1[by][j].st /\ b2[by][j].claimed = b1[by][j].claimed
         /\ b2[by][j].started = b1[by][j].started /\ b2[by][j].ended = b1[by][j].ended
         /\ b2[by][j].result = b1[by][j].result
         /\ b1[by][j].released => b2[by][j].released
SameJobs(b2, b1) == \A by \in Sources : DOMAIN b2[by] = DOMAIN b1[by]
Alike(b2, b1) == Lessens(b2, b1) /\ SameJobs(b2, b1)

Turns(s, v) == svc' = [svc EXCEPT ![s] = v]

\* The service s becomes v, and its executions b.
Becomes(s, v, b) ==
  /\ Turns(s, v)
  /\ batch' \in [Services -> [Sources -> Batches]] /\ batch'[s] = b
  /\ \A u \in Services \ {s} : Alike(batch'[u], batch[u])

\* A service that is built, and what the invariant says of it.
Works(s, v, b) ==
  /\ v = svc[s] /\ b = batch[s] /\ v.phase # "off"
  /\ v \in Service /\ b \in [Sources -> Batches] /\ ServiceOK(v, b, fresh, now)
  /\ replacements = 0 => s = api /\ SoleService(v, disk, b, now)

LEMMA WorkingService ==
  ASSUME CronIInv, NEW s \in Services, svc[s].phase # "off" PROVE Works(s, svc[s], batch[s])
BY DEF CronIInv, Works

LEMMA SameJobsFacts ==
  ASSUME NEW b1 \in [Sources -> Batches], NEW b2 \in [Sources -> Batches], SameJobs(b2, b1)
  PROVE  /\ b1 = NoRuns => b2 = NoRuns
         /\ \A by \in Sources : b2[by] = Nothing <=> b1[by] = Nothing
<1>1. \A by \in Sources : b1[by] \in Batches /\ b2[by] \in Batches
  OBVIOUS
<1>2. \A by \in Sources : b2[by] = Nothing <=> b1[by] = Nothing
  BY <1>1, BatchFacts DEF SameJobs
<1>3. ASSUME b1 = NoRuns PROVE b2 = NoRuns
  <2>1. \A by \in Sources : b2[by] = NoRuns[by]
    BY <1>2, <1>3, NothingFacts
  <2> QED
    BY <2>1, NothingFacts
<1> QED
  BY <1>2, <1>3

LEMMA LessenedClaims ==
  ASSUME NEW v, NEW b1, NEW b2, NEW fr, NEW fr2, NEW t, ServiceOK(v, b1, fr, t),
         Lessens(b2, b1), fr2 \subseteq fr
  PROVE  \A by \in Sources : \A j \in DOMAIN b2[by] : ClaimOK(b2[by][j], t) /\ j \notin fr2
BY DEF ServiceOK, Lessens, ClaimOK

\* A service that stays as it is.
LEMMA StaysSound ==
  ASSUME NEW v, NEW b1 \in [Sources -> Batches], NEW b2 \in [Sources -> Batches], NEW fr,
         NEW fr2, NEW t, ServiceOK(v, b1, fr, t), Alike(b2, b1), fr2 \subseteq fr
  PROVE  ServiceOK(v, b2, fr2, t)
<1>1. \A by \in Sources : \A j \in DOMAIN b2[by] : ClaimOK(b2[by][j], t) /\ j \notin fr2
  BY LessenedClaims DEF Alike
<1>2. /\ b1 = NoRuns => b2 = NoRuns
      /\ b2["timer"] = Nothing <=> b1["timer"] = Nothing
      /\ b2["startup"] = Nothing <=> b1["startup"] = Nothing
  BY SameJobsFacts DEF Sources, Alike
<1> QED
  BY <1>1, <1>2 DEF ServiceOK

\* What has to be shown of a step of one service.
LEMMA OneServiceMoves ==
  ASSUME CronIInv, NEW s \in Services, NEW v \in Service, NEW b, Becomes(s, v, b),
         svc[s].phase # "off", disk' \in Stores, fresh' \subseteq fresh,
         DOMAIN disk' \cap fresh' = {}, ServiceOK(v, b, fresh', now),
         UNCHANGED <<now, api, scheduler, replacements>>,
         replacements = 0 => SoleService(v, disk', b, now)
  PROVE  CronIInv'
<1>1. /\ now \in Times /\ fresh' \subseteq Jobs /\ api \in Services /\ scheduler \in Services
      /\ replacements \in Nat
      /\ svc \in [Services -> Service] /\ batch \in [Services -> [Sources -> Batches]]
      /\ \A u \in Services : ServiceOK(svc[u], batch[u], fresh, now)
      /\ replacements = 0 => scheduler = api /\ \A u \in Services : u # api => svc[u].phase = "off"
  BY DEF CronIInv
<1>2. /\ svc' \in [Services -> Service] /\ svc'[s] = v
      /\ \A u \in Services : u # s => svc'[u] = svc[u]
      /\ batch' \in [Services -> [Sources -> Batches]] /\ batch'[s] = b
      /\ \A u \in Services : u # s => Alike(batch'[u], batch[u])
  BY <1>1 DEF Becomes, Turns
<1>3. \A u \in Services : ServiceOK(svc'[u], batch'[u], fresh', now)
  <2> TAKE u \in Services
  <2>1. CASE u = s
    BY <1>2, <2>1
  <2>2. CASE u # s
    BY <1>1, <1>2, <2>2, StaysSound
  <2> QED
    BY <2>1, <2>2
<1>4. ASSUME replacements = 0
      PROVE  /\ scheduler = api /\ \A u \in Services : u # api => svc'[u].phase = "off"
             /\ SoleService(svc'[api], disk', batch'[api], now)
  BY <1>1, <1>2, <1>4
<1> QED
  BY <1>1, <1>2, <1>3, <1>4 DEF CronIInv

LEMMA BatchesStay ==
  ASSUME CronIInv, NEW s \in Services, NEW v, Turns(s, v), batch' = batch
  PROVE  Becomes(s, v, batch[s])
<1>1. \A u \in Services : Alike(batch[u], batch[u])
  BY DEF Alike, Lessens, SameJobs
<1> QED
  BY <1>1 DEF CronIInv, Becomes

LEMMA ReleasedFacts ==
  ASSUME NEW B \in [Services -> [Sources -> Batches]], NEW J, NEW R, R = Released(B, J)
  PROVE  /\ R \in [Services -> [Sources -> Batches]]
         /\ \A s \in Services : Alike(R[s], B[s]) /\ Unmarked(R[s], J)
<1>1. ASSUME NEW s \in Services, NEW by \in Sources
      PROVE  /\ R[s][by] \in Batches /\ DOMAIN R[s][by] = DOMAIN B[s][by]
             /\ \A j \in DOMAIN B[s][by] :
                  /\ R[s][by][j].st = B[s][by][j].st
                  /\ R[s][by][j].claimed = B[s][by][j].claimed
                  /\ R[s][by][j].started = B[s][by][j].started
                  /\ R[s][by][j].ended = B[s][by][j].ended
                  /\ R[s][by][j].result = B[s][by][j].result
                  /\ B[s][by][j].released => R[s][by][j].released
                  /\ j \in J => R[s][by][j].released
  <2>1. B[s][by] \in Batches
    OBVIOUS
  <2>2. R[s][by] = [j \in DOMAIN B[s][by] |-> [B[s][by][j] EXCEPT !.released = @ \/ j \in J]]
    BY DEF Released
  <2>3. DOMAIN B[s][by] \subseteq Jobs /\ \A j \in DOMAIN B[s][by] : B[s][by][j] \in Claims
    BY <2>1, BatchFacts
  <2>4. \A j \in DOMAIN B[s][by] : [B[s][by][j] EXCEPT !.released = @ \/ j \in J] \in Claims
    BY <2>3 DEF Claims
  <2>5. R[s][by] \in [DOMAIN B[s][by] -> Claims]
    BY <2>2, <2>4
  <2>6. ASSUME NEW j \in DOMAIN B[s][by]
        PROVE  /\ R[s][by][j].st = B[s][by][j].st
               /\ R[s][by][j].claimed = B[s][by][j].claimed
               /\ R[s][by][j].started = B[s][by][j].started
               /\ R[s][by][j].ended = B[s][by][j].ended
               /\ R[s][by][j].result = B[s][by][j].result
               /\ B[s][by][j].released => R[s][by][j].released
               /\ j \in J => R[s][by][j].released
    <3>1. R[s][by][j] = [B[s][by][j] EXCEPT !.released = @ \/ j \in J] /\ B[s][by][j] \in Claims
      BY <2>2, <2>3
    <3> QED
      BY <3>1 DEF Claims
  <2> QED
    BY <2>2, <2>3, <2>5, <2>6 DEF Batches
<1>2. R \in [Services -> [Sources -> Batches]]
  <2>1. \A s \in Services : R[s] = [by \in Sources |-> R[s][by]]
    BY DEF Released
  <2>2. \A s \in Services : R[s] \in [Sources -> Batches]
    BY <1>1, <2>1
  <2>3. R = [s \in Services |-> R[s]]
    BY DEF Released
  <2> QED
    BY <2>2, <2>3
<1>3. \A s \in Services : Alike(R[s], B[s]) /\ Unmarked(R[s], J)
  BY <1>1 DEF Alike, Lessens, SameJobs, Unmarked
<1> QED
  BY <1>2, <1>3

LEMMA ReleaseFacts ==
  ASSUME CronIInv, NEW s \in Services, NEW v, Turns(s, v), NEW j, Release(j)
  PROVE  \E b \in [Sources -> Batches] :
           Becomes(s, v, b) /\ Alike(b, batch[s]) /\ Unmarked(b, {j})
<1>1. batch \in [Services -> [Sources -> Batches]]
  BY DEF CronIInv
<1>2. /\ batch' \in [Services -> [Sources -> Batches]]
      /\ \A u \in Services : Alike(batch'[u], batch[u]) /\ Unmarked(batch'[u], {j})
  BY <1>1, ReleasedFacts DEF Release
<1>3. Becomes(s, v, batch'[s]) /\ batch'[s] \in [Sources -> Batches]
  BY <1>2 DEF Becomes
<1> QED
  BY <1>2, <1>3

LEMMA ForgetFacts ==
  ASSUME CronIInv, NEW s \in Services, NEW v, Turns(s, v),
         NEW by \in Sources, Forget(s, by)
  PROVE  \E b \in [Sources -> Batches] :
           /\ Becomes(s, v, b) /\ Lessens(b, batch[s]) /\ Unmarked(b, DOMAIN batch[s][by])
           /\ b[by] = Nothing
           /\ \A other \in Sources : other # by =>
                (b[other] = Nothing <=> batch[s][other] = Nothing)
<1> DEFINE B == [batch EXCEPT ![s][by] = Nothing]
<1>1. batch \in [Services -> [Sources -> Batches]]
  BY DEF CronIInv
<1>2. /\ B \in [Services -> [Sources -> Batches]] /\ B[s][by] = Nothing
      /\ \A other \in Sources : other # by => B[s][other] = batch[s][other]
      /\ \A u \in Services : u # s => B[u] = batch[u]
  <2>1. B = [batch EXCEPT ![s] = [batch[s] EXCEPT ![by] = Nothing]]
    OBVIOUS
  <2>2. [batch[s] EXCEPT ![by] = Nothing] \in [Sources -> Batches]
    BY <1>1, NothingFacts
  <2> QED
    BY <1>1, <2>1, <2>2
<1>3. batch' = Released(B, DOMAIN batch[s][by])
  BY DEF Forget
<1> HIDE DEF B
<1>4. /\ batch' \in [Services -> [Sources -> Batches]]
      /\ \A u \in Services : Alike(batch'[u], B[u]) /\ Unmarked(batch'[u], DOMAIN batch[s][by])
  BY <1>2, <1>3, ReleasedFacts
<1>5. Becomes(s, v, batch'[s]) /\ batch'[s] \in [Sources -> Batches]
  BY <1>2, <1>4 DEF Becomes
<1>6. \A other \in Sources : batch'[s][other] = Nothing <=> B[s][other] = Nothing
  BY <1>2, <1>4, SameJobsFacts DEF Alike
<1>7. Lessens(batch'[s], batch[s])
  <2>1. Lessens(batch'[s], B[s]) /\ DOMAIN B[s][by] = {}
    BY <1>2, <1>4, NothingFacts DEF Alike
  <2> QED
    BY <1>2, <2>1 DEF Lessens
<1> QED
  BY <1>2, <1>4, <1>5, <1>6, <1>7

-----------------------------------------------------------------------------
(* Cron: stores and new claims *)

LEMMA SameFacts ==
  ASSUME NEW S, NEW T, SameRecords(S, T)
  PROVE  /\ WellTimed(S) <=> WellTimed(T)
         /\ Wakes(S) <=> Wakes(T)
         /\ SameRecords(T, S)
BY DEF SameRecords, SameRecord, WellTimed, Succeeded, Wakes

LEMMA SameTransitive ==
  ASSUME NEW S, NEW T, NEW U, SameRecords(S, T), SameRecords(T, U) PROVE SameRecords(S, U)
BY DEF SameRecords, SameRecord

LEMMA WellTimedFacts ==
  ASSUME NEW S, WellTimed(S) PROVE Timely(S)
BY DEF WellTimed, Timely

\* A service that has written its store.
LEMMA WrittenStore ==
  ASSUME NEW v, NEW S, NEW b, NEW t, v.store = S, WellTimed(S), MarkedIn(S, b, t),
         ClaimedOnceIn(b, t), v.phase = "up" /\ v.tick = "idle" /\ ~v.timer => ~Wakes(S)
  PROVE  SoleService(v, S, b, t)
<1>1. SameRecords(S, S)
  BY DEF SameRecords, SameRecord
<1> QED
  BY <1>1 DEF SoleService

LEMMA LessenedFollows ==
  ASSUME NEW b2, NEW b1, Lessens(b2, b1) PROVE Follows(b2, b1)
BY DEF Lessens, Follows

LEMMA StaysMarked ==
  ASSUME now \in Times, NEW S \in Stores, NEW F \in Stores, NEW b1 \in [Sources -> Batches],
         NEW b2 \in [Sources -> Batches], NEW J, MarkedIn(S, b1, now), ClaimedOnceIn(b1, now),
         Follows(b2, b1), Unmarked(b2, J), KeepsMarks(F, S, J, now)
  PROVE  MarkedIn(F, b2, now) /\ ClaimedOnceIn(b2, now)
<1>1. now \in Int /\ now <= now
  BY TimeFacts
<1> QED
  BY <1>1, MarksAreKept, ClaimsStayOnce

\* A walk over the jobs keeps the markers that count.
LEMMA WalkKeepsMarks ==
  ASSUME now \in Times, NEW S \in Stores, NEW R, Refreshed(R, S)
  PROVE  KeepsMarks(R, S, {}, now)
<1> SUFFICES ASSUME NEW j \in DOMAIN R, S[j].enabled, S[j].running # NoTime,
                    now - S[j].running <= StuckAfter
             PROVE  R[j].enabled /\ R[j].running # NoTime /\ R[j].running >= S[j].running
  BY DEF KeepsMarks, Refreshed
<1>1. j \in DOMAIN S /\ S[j] \in Records /\ Walks(R[j], S[j])
  BY StoreFacts DEF Refreshed
<1>2. S[j].running \in Int
  BY <1>1, RecordFacts
<1> QED
  BY <1>1, <1>2 DEF Walks

\* Nothing has lost its marker.
LEMMA NothingUnmarked ==
  ASSUME NEW b PROVE Follows(b, b) /\ Unmarked(b, {})
BY DEF Follows, Unmarked

LEMMA MarkFacts ==
  ASSUME now \in Times, NEW S \in Stores, NEW J, NEW F, F = Mark(S, J)
  PROVE  /\ F \in Stores /\ SameRecords(F, S)
         /\ \A j \in DOMAIN S : F[j].running = IF j \in J THEN now ELSE S[j].running
         /\ \A j \in DOMAIN S \ J : F[j] = S[j]
<1>1. now \in MaybeTimes /\ DOMAIN S \subseteq Jobs /\ \A j \in DOMAIN S : S[j] \in Records
  BY TimeFacts, StoreFacts
<1>2. F = [j \in DOMAIN S |-> IF j \in J THEN [S[j] EXCEPT !.running = now] ELSE S[j]]
  BY DEF Mark
<1>3. ASSUME NEW j \in DOMAIN S
      PROVE  /\ F[j] \in Records /\ SameRecord(F[j], S[j])
             /\ F[j].running = IF j \in J THEN now ELSE S[j].running
             /\ j \notin J => F[j] = S[j]
  <2>1. CASE j \in J
    <3>1. F[j] = [S[j] EXCEPT !.running = now] /\ S[j] \in Records
      BY <1>1, <1>2, <2>1
    <3> QED
      BY <1>1, <2>1, <3>1 DEF Records, SameRecord
  <2>2. CASE j \notin J
    BY <1>1, <1>2, <2>2 DEF SameRecord
  <2> QED
    BY <2>1, <2>2
<1>4. F \in [DOMAIN S -> Records] /\ DOMAIN F = DOMAIN S
  BY <1>2, <1>3
<1> QED
  BY <1>1, <1>3, <1>4, StoreIntro DEF SameRecords

Gets(s, by, C) == batch' = [batch EXCEPT ![s][by] = C]

\* New executions C of the service s.
LEMMA ClaimedFacts ==
  ASSUME CronIInv, NEW s \in Services, NEW v, Turns(s, v), NEW by \in Sources,
         NEW C \in Batches, Gets(s, by, C)
  PROVE  \E b \in [Sources -> Batches] :
           /\ Becomes(s, v, b) /\ b[by] = C
           /\ \A other \in Sources : other # by => b[other] = batch[s][other]
<1> DEFINE b == [batch[s] EXCEPT ![by] = C]
<1>1. batch \in [Services -> [Sources -> Batches]]
  BY DEF CronIInv
<1>2. /\ b \in [Sources -> Batches] /\ b[by] = C
      /\ \A other \in Sources : other # by => b[other] = batch[s][other]
  BY <1>1
<1>3. batch' = [batch EXCEPT ![s] = b]
  BY DEF Gets
<1> HIDE DEF b
<1>4. /\ batch' \in [Services -> [Sources -> Batches]] /\ batch'[s] = b
      /\ \A u \in Services \ {s} : Alike(batch'[u], batch[u])
  BY <1>1, <1>2, <1>3 DEF Alike, Lessens, SameJobs
<1> QED
  BY <1>2, <1>4 DEF Becomes

LEMMA NewClaimFacts ==
  ASSUME now \in Times
  PROVE  /\ Claimed \in Claims /\ Claimed.claimed = now /\ Claimed.st = "pending"
         /\ ~Claimed.released /\ ClaimOK(Claimed, now)
<1>1. now \in Int /\ NoTime \in MaybeTimes
  BY TimeFacts DEF MaybeTimes
<1> QED
  BY <1>1 DEF Claimed, Claims, ClaimOK

\* The service v goes from b1 to the executions b2.
LEMMA ClaimsAreOK ==
  ASSUME NEW v, NEW b1, NEW b2, NEW fr, NEW t, ServiceOK(v, b1, fr, t), NEW by \in Sources,
         \A other \in Sources : other # by => b2[other] = b1[other],
         \A j \in DOMAIN b2[by] : ClaimOK(b2[by][j], t) /\ j \notin fr
  PROVE  \A src \in Sources : \A j \in DOMAIN b2[src] : ClaimOK(b2[src][j], t) /\ j \notin fr
BY DEF ServiceOK

-----------------------------------------------------------------------------
(* Cron: the timer *)

LEMMA CronTypes ==
  ASSUME CronIInv
  PROVE  /\ now \in Times /\ fresh \subseteq Jobs /\ disk \in Stores /\ DOMAIN disk \cap fresh = {}
         /\ svc \in [Services -> Service] /\ batch \in [Services -> [Sources -> Batches]]
BY DEF CronIInv

LEMMA ServiceHere ==
  ASSUME CronIInv, NEW s \in Services
  PROVE  /\ svc[s] \in Service /\ batch[s] \in [Sources -> Batches]
         /\ ServiceOK(svc[s], batch[s], fresh, now)
         /\ \A by \in Sources : batch[s][by] \in Batches
BY DEF CronIInv

\* What a service has done only after it has loaded the store.
LEMMA ActiveIsLoaded ==
  ASSUME NEW v, NEW b, NEW fr, NEW t, ServiceOK(v, b, fr, t),
         v.timer \/ v.tick # "idle" \/ v.phase \in {"collect", "catchup", "recompute"}
           \/ \E by \in Sources : DOMAIN b[by] # {}
  PROVE  Loaded(v) /\ v.phase # "off"
BY NothingFacts DEF ServiceOK, Loaded

LEMMA OnTimerIsSound ==
  ASSUME CronIInv, NEW s \in Services, OnTimer(s) PROVE CronIInv'
<1> DEFINE w == svc[s]
           b == batch[s]
           v == [w EXCEPT !.tick = "collect"]
<1>1. /\ w \in Service /\ ServiceOK(w, b, fresh, now) /\ w.timer /\ w.tick = "idle"
      /\ w.phase # "off" /\ Loaded(w)
  BY ServiceHere, ActiveIsLoaded DEF OnTimer
<1>2. Turns(s, v) /\ batch' = batch
  BY DEF OnTimer, Turns
<1>3. /\ v \in Service /\ v.phase = w.phase /\ v.store = w.store /\ v.timer = w.timer
      /\ v.tick = "collect"
  BY <1>1 DEF Service
<1> HIDE DEF v
<1>4. Becomes(s, v, b)
  BY <1>2, BatchesStay
<1>5. ServiceOK(v, b, fresh, now)
  BY <1>1, <1>3 DEF ServiceOK, Loaded
<1>6. replacements = 0 => SoleService(v, disk, b, now)
  BY <1>1, <1>3, WorkingService DEF Works, SoleService, Loaded
<1> QED
  BY <1>1, <1>3, <1>4, <1>5, <1>6, CronTypes, OneServiceMoves DEF OnTimer, outside, bounds

\* A store once maintenance has walked it.
LEMMA MaintainedStore ==
  ASSUME now \in Times, NEW S \in Stores, NEW b \in [Sources -> Batches],
         NEW R, R = RecomputeForMaintenance(S)
  PROVE  /\ R \in Stores /\ DOMAIN R = DOMAIN S
         /\ WellTimed(S) /\ MarkedIn(S, b, now) /\ ClaimedOnceIn(b, now) =>
              SameRecords(R, S) /\ WellTimed(R) /\ MarkedIn(R, b, now)
<1>1. Refreshed(R, S) /\ (WellTimed(S) => SameRecords(R, S))
  BY MaintenanceFacts
<1>2. R \in Stores /\ DOMAIN R = DOMAIN S /\ KeepsMarks(R, S, {}, now)
  BY <1>1, WalkKeepsMarks DEF Refreshed
<1>3. Follows(b, b) /\ Unmarked(b, {})
  BY NothingUnmarked
<1> QED
  BY <1>1, <1>2, <1>3, StaysMarked, SameFacts

LEMMA ClaimedBatch ==
  ASSUME now \in Times, NEW J \in SUBSET Jobs, NEW C, C = [j \in J |-> Claimed]
  PROVE  /\ C \in Batches /\ DOMAIN C = J
         /\ \A j \in J : C[j].claimed = now /\ ~C[j].released /\ ClaimOK(C[j], now)
<1>1. C \in [J -> Claims] /\ DOMAIN C = J /\ \A j \in J : C[j] = Claimed
  BY NewClaimFacts
<1>2. C \in Batches
  BY <1>1 DEF Batches
<1> QED
  BY <1>1, <1>2, NewClaimFacts

\* Claims of the jobs J of a store, which are enabled and have no marker.
LEMMA JobsAreClaimed ==
  ASSUME CronIInv, NEW S \in Stores, NEW b1 \in [Sources -> Batches],
         NEW b2 \in [Sources -> Batches], NEW by \in Sources, NEW J, J \subseteq DOMAIN S,
         \A j \in J : S[j].enabled /\ S[j].running = NoTime,
         b2[by] = [j \in J |-> Claimed],
         \A other \in Sources : other # by => b2[other] = b1[other],
         MarkedIn(S, b1, now), ClaimedOnceIn(b1, now), NEW F, F = Mark(S, J)
  PROVE  MarkedIn(F, b2, now) /\ ClaimedOnceIn(b2, now)
<1>1. now \in Times
  BY CronTypes
<1>2. F \in Stores /\ SameRecords(F, S)
      /\ (\A j \in DOMAIN S : F[j].running = IF j \in J THEN now ELSE S[j].running)
      /\ \A j \in DOMAIN S \ J : F[j] = S[j]
  BY <1>1, MarkFacts
<1>3. J \in SUBSET Jobs
  BY StoreFacts
<1>4. DOMAIN b2[by] = J /\ \A j \in J : b2[by][j].claimed = now
  BY <1>1, <1>3, ClaimedBatch
<1>5. Marks(F, S, b2[by], now)
  BY <1>2, <1>4 DEF Marks, SameRecords, SameRecord
<1> QED
  BY <1>1, <1>2, <1>5, NewClaims

LEMMA CollectDueJobsIsSound ==
  ASSUME CronIInv, NEW s \in Services, CollectDueJobs(s) PROVE CronIInv'
<1> DEFINE w == svc[s]
           due == {j \in DOMAIN disk : Runnable(disk[j])}
<1>1. /\ w \in Service /\ ServiceOK(w, batch[s], fresh, now) /\ w.tick = "collect"
      /\ w.phase # "off" /\ Loaded(w) /\ batch[s] \in [Sources -> Batches]
      /\ replacements = 0 => SoleService(w, disk, batch[s], now)
  BY ServiceHere, ActiveIsLoaded, WorkingService DEF CollectDueJobs, Works
<1>2. UNCHANGED <<now, fresh, api, scheduler, replacements>>
  BY DEF CollectDueJobs, outside, bounds
<1>3. now \in Times /\ disk \in Stores /\ DOMAIN disk \cap fresh = {} /\ DOMAIN disk \subseteq Jobs
  BY CronTypes, StoreFacts
<1>4. CASE due = {}
  <2> DEFINE S == RecomputeForMaintenance(disk)
             v == [[w EXCEPT !.tick = "finally", !.owns = FALSE] EXCEPT !.store = S]
  <2>1. disk' = S /\ Turns(s, v) /\ batch' = batch
    BY <1>4 DEF CollectDueJobs, Persist, Turns
  <2>2. /\ S \in Stores /\ DOMAIN S = DOMAIN disk
        /\ replacements = 0 =>
             WellTimed(S) /\ MarkedIn(S, batch[s], now) /\ ClaimedOnceIn(batch[s], now)
    BY <1>1, <1>3, MaintainedStore DEF SoleService
  <2> HIDE DEF S
  <2>3. /\ v \in Service /\ v.phase = w.phase /\ v.store = S /\ v.timer = w.timer
        /\ v.tick = "finally"
    BY <1>1, <2>2 DEF Service
  <2> HIDE DEF v
  <2>4. Becomes(s, v, batch[s])
    BY <2>1, BatchesStay
  <2>5. ServiceOK(v, batch[s], fresh', now)
    BY <1>1, <1>2, <1>3, <2>2, <2>3 DEF ServiceOK, Loaded
  <2>6. replacements = 0 => SoleService(v, disk', batch[s], now)
    BY <2>1, <2>2, <2>3, WrittenStore
  <2> QED
    BY <1>1, <1>2, <1>3, <2>1, <2>2, <2>3, <2>4, <2>5, <2>6, OneServiceMoves
<1>5. CASE due # {}
  <2> DEFINE S == Mark(disk, due)
             C == [j \in due |-> Claimed]
             v == [[w EXCEPT !.tick = "run", !.owns = TRUE] EXCEPT !.store = S]
  <2>1. disk' = S /\ Turns(s, v) /\ Gets(s, "timer", C) /\ "timer" \in Sources
    BY <1>5 DEF CollectDueJobs, Persist, Turns, Claim, Gets, Sources
  <2>2. due \subseteq DOMAIN disk /\ \A j \in due : disk[j].enabled /\ disk[j].running = NoTime
    BY DEF due, Runnable
  <2> HIDE DEF due
  <2>3. /\ S \in Stores /\ DOMAIN S = DOMAIN disk /\ (WellTimed(S) <=> WellTimed(disk))
        /\ C \in Batches /\ DOMAIN C = due /\ \A j \in due : ClaimOK(C[j], now)
    <3>1. S \in Stores /\ SameRecords(S, disk)
      BY <1>3, MarkFacts
    <3>2. due \in SUBSET Jobs
      BY <1>3, <2>2
    <3> HIDE DEF S, C
    <3>3. C \in Batches /\ DOMAIN C = due /\ \A j \in due : ClaimOK(C[j], now)
      BY <1>3, <3>2, ClaimedBatch DEF C
    <3> QED
      BY <3>1, <3>3, SameFacts DEF SameRecords
  <2>4. /\ v \in Service /\ v.phase = w.phase /\ v.store = S /\ v.timer = w.timer
        /\ v.tick = "run"
    BY <1>1, <2>3 DEF Service
  <2> HIDE DEF v, C
  <2>5. PICK b \in [Sources -> Batches] :
          /\ Becomes(s, v, b) /\ b["timer"] = C
          /\ \A other \in Sources : other # "timer" => b[other] = batch[s][other]
    BY <2>1, <2>3, ClaimedFacts
  <2>6. replacements = 0 => MarkedIn(S, b, now) /\ ClaimedOnceIn(b, now) /\ WellTimed(S)
    BY <1>1, <1>3, <2>1, <2>3, <2>5, <2>2, JobsAreClaimed DEF SoleService, C
  <2> HIDE DEF S
  <2>7. ServiceOK(v, b, fresh', now)
    <3>1. \A src \in Sources : \A j \in DOMAIN b[src] : ClaimOK(b[src][j], now) /\ j \notin fresh
      BY <1>1, <1>3, <2>1, <2>3, <2>5, <2>2, ClaimsAreOK
    <3>2. b["timer"] # Nothing /\ b["startup"] = batch[s]["startup"]
      BY <1>5, <2>3, <2>5, NothingFacts DEF Sources
    <3> QED
      BY <1>1, <1>2, <1>3, <2>3, <2>4, <3>1, <3>2 DEF ServiceOK, Loaded
  <2>8. replacements = 0 => SoleService(v, disk', b, now)
    BY <2>1, <2>4, <2>6, WrittenStore
  <2> QED
    BY <1>1, <1>2, <1>3, <2>1, <2>3, <2>4, <2>5, <2>7, <2>8, OneServiceMoves
<1> QED
  BY <1>4, <1>5

\* An execution j of the service s moves on to c.
Puts(s, by, j, c) == batch' = [batch EXCEPT ![s][by][j] = c]

LEMMA OneClaimMoves ==
  ASSUME CronIInv, NEW s \in Services, NEW v, Turns(s, v), NEW by \in Sources,
         NEW j \in DOMAIN batch[s][by], NEW c \in Claims, ClaimOK(c, now),
         c.claimed = batch[s][by][j].claimed, c.released = batch[s][by][j].released,
         Puts(s, by, j, c)
  PROVE  \E b \in [Sources -> Batches] :
           /\ Becomes(s, v, b) /\ Follows(b, batch[s]) /\ SameJobs(b, batch[s])
           /\ \A src \in Sources : \A k \in DOMAIN b[src] :
                ClaimOK(b[src][k], now) /\ k \notin fresh
<1> DEFINE C == [batch[s][by] EXCEPT ![j] = c]
<1>1. /\ batch \in [Services -> [Sources -> Batches]] /\ batch[s][by] \in Batches
      /\ ServiceOK(svc[s], batch[s], fresh, now)
  BY CronTypes, ServiceHere
<1>2. /\ batch[s][by] = [k \in DOMAIN batch[s][by] |-> batch[s][by][k]]
      /\ DOMAIN batch[s][by] \subseteq Jobs
      /\ \A k \in DOMAIN batch[s][by] : batch[s][by][k] \in Claims
  BY <1>1, BatchFacts
<1>3. /\ DOMAIN C = DOMAIN batch[s][by] /\ C[j] = c
      /\ \A k \in DOMAIN C : k # j => C[k] = batch[s][by][k]
  BY <1>2
<1>4. C \in Batches
  <2>1. C \in [DOMAIN batch[s][by] -> Claims]
    BY <1>2
  <2> QED
    BY <1>2, <2>1 DEF Batches
<1>5. Gets(s, by, C)
  BY <1>1 DEF Gets, Puts
<1> HIDE DEF C
<1>6. PICK b \in [Sources -> Batches] :
        /\ Becomes(s, v, b) /\ b[by] = C
        /\ \A other \in Sources : other # by => b[other] = batch[s][other]
  BY <1>4, <1>5, ClaimedFacts
<1>7. Follows(b, batch[s]) /\ SameJobs(b, batch[s])
  BY <1>3, <1>6 DEF Follows, SameJobs
<1>8. \A src \in Sources : \A k \in DOMAIN b[src] : ClaimOK(b[src][k], now) /\ k \notin fresh
  BY <1>1, <1>3, <1>6 DEF ServiceOK
<1> QED
  BY <1>6, <1>7, <1>8

\* The executions of a service move on and the service stays where it is.
LEMMA ServiceStaysOK ==
  ASSUME CronIInv, NEW s \in Services, Loaded(svc[s]), NEW v, v.phase = svc[s].phase,
         v.tick = svc[s].tick, DOMAIN v.store = DOMAIN svc[s].store,
         NEW b \in [Sources -> Batches], SameJobs(b, batch[s]),
         \A by \in Sources : \A j \in DOMAIN b[by] : ClaimOK(b[by][j], now) /\ j \notin fresh
  PROVE  ServiceOK(v, b, fresh, now)
<1>1. ServiceOK(svc[s], batch[s], fresh, now) /\ batch[s] \in [Sources -> Batches]
  BY ServiceHere
<1>2. \A by \in Sources : b[by] = Nothing <=> batch[s][by] = Nothing
  BY <1>1, SameJobsFacts
<1> QED
  BY <1>1, <1>2 DEF ServiceOK, Loaded, Sources

LEMMA MarkAgain ==
  ASSUME now \in Times, NEW S \in Stores, NEW J, NEW F, F = Mark(S, J), NEW b, MarkedIn(S, b, now),
         \A by \in Sources : \A j \in DOMAIN b[by] : ClaimOK(b[by][j], now)
  PROVE  MarkedIn(F, b, now)
<1>1. /\ now # NoTime /\ SameRecords(F, S)
      /\ \A j \in DOMAIN S : F[j].running = IF j \in J THEN now ELSE S[j].running
  BY TimeFacts, MarkFacts
<1> SUFFICES ASSUME NEW by \in Sources, NEW j \in DOMAIN b[by],
                    HasMarker(b[by][j], now), j \in DOMAIN F
             PROVE  F[j].enabled /\ F[j].running # NoTime /\ F[j].running >= b[by][j].claimed
  BY DEF MarkedIn
<1>2. S[j].enabled /\ S[j].running # NoTime /\ S[j].running >= b[by][j].claimed
  BY <1>1 DEF MarkedIn, SameRecords
<1>3. b[by][j].claimed <= now
  BY DEF ClaimOK
<1>4. F[j].enabled = S[j].enabled
  BY <1>1 DEF SameRecords, SameRecord
<1>5. CASE j \in J
  <2>1. F[j].running = now /\ now \in Int
    BY <1>1, <1>5, TimeFacts DEF SameRecords
  <2> QED
    BY <1>1, <1>2, <1>3, <1>4, <2>1, TimeFacts
<1>6. CASE j \notin J
  BY <1>1, <1>2, <1>4, <1>6 DEF SameRecords
<1> QED
  BY <1>5, <1>6

LEMMA RunDueJobIsSound ==
  ASSUME CronIInv, NEW s \in Services, NEW j, RunDueJob(s, j) PROVE CronIInv'
<1> DEFINE w == svc[s]
           x == batch[s]["timer"][j]
           c == [x EXCEPT !.st = "running", !.started = now]
           F == Mark(w.store, {j})
           marks == w.owns /\ j \in DOMAIN w.store
           v == IF marks THEN [w EXCEPT !.store = F] ELSE w
<1>1. /\ w \in Service /\ w.store \in Stores /\ ServiceOK(w, batch[s], fresh, now)
      /\ "timer" \in Sources /\ j \in DOMAIN batch[s]["timer"] /\ batch[s] \in [Sources -> Batches]
      /\ svc \in [Services -> Service]
  BY ServiceHere, CronTypes, ServiceFacts DEF RunDueJob, Sources
<1>2. Loaded(w) /\ w.phase # "off"
  BY <1>1, ActiveIsLoaded
<1>3. /\ now \in Times /\ now \in MaybeTimes /\ now # NoTime
      /\ disk \in Stores /\ DOMAIN disk \cap fresh = {}
  BY CronTypes, TimeFacts
<1>4. c \in Claims /\ ClaimOK(c, now) /\ c.claimed = x.claimed /\ c.released = x.released
  <2>1. x \in Claims /\ ClaimOK(x, now)
    BY <1>1, BatchFacts DEF ServiceOK
  <2> QED
    BY <1>3, <2>1 DEF Claims, ClaimOK
<1>5. F \in Stores /\ SameRecords(F, w.store)
  BY <1>1, <1>3, MarkFacts
<1>6. Turns(s, v)
  <2>1. CASE marks
    <3>1. svc' = [svc EXCEPT ![s].store[j].running = now]
      BY <2>1 DEF RunDueJob
    <3>2. [w.store EXCEPT ![j].running = now] = F
      BY <1>1, StoreFacts DEF Mark
    <3>3. svc' = [svc EXCEPT ![s] = [w EXCEPT !.store = [w.store EXCEPT ![j].running = now]]]
      BY <1>1, <3>1
    <3> HIDE DEF F
    <3> QED
      BY <2>1, <3>2, <3>3 DEF Turns
  <2>2. CASE ~marks
    <3>1. svc' = svc
      BY <2>2 DEF RunDueJob
    <3> QED
      BY <1>1, <2>2, <3>1 DEF Turns
  <2> QED
    BY <2>1, <2>2
<1>7. Puts(s, "timer", j, c) /\ UNCHANGED <<disk, now, fresh, api, scheduler, replacements>>
  BY DEF RunDueJob, Puts, outside, bounds
<1> HIDE DEF F
<1>8. /\ v \in Service /\ v.phase = w.phase /\ v.timer = w.timer /\ v.tick = w.tick
      /\ v.store = (IF marks THEN F ELSE w.store) /\ DOMAIN v.store = DOMAIN w.store
  BY <1>1, <1>5 DEF Service, SameRecords
<1> HIDE DEF v, c
<1>9. PICK b \in [Sources -> Batches] :
        /\ Becomes(s, v, b) /\ Follows(b, batch[s]) /\ SameJobs(b, batch[s])
        /\ \A src \in Sources : \A k \in DOMAIN b[src] : ClaimOK(b[src][k], now) /\ k \notin fresh
  BY <1>1, <1>4, <1>6, <1>7, OneClaimMoves
<1>10. ServiceOK(v, b, fresh, now)
  BY <1>2, <1>8, <1>9, ServiceStaysOK
<1>11. ASSUME replacements = 0 PROVE SoleService(v, disk, b, now)
  <2>1. SoleService(w, disk, batch[s], now)
    BY <1>2, <1>11, WorkingService DEF Works
  <2>2. MarkedIn(disk, b, now) /\ ClaimedOnceIn(b, now) /\ MarkedIn(w.store, b, now)
    <3>1. \A S \in Stores : KeepsMarks(S, S, {}, now)
      BY StoreFacts, RecordFacts DEF KeepsMarks
    <3>2. Unmarked(b, {})
      BY DEF Unmarked
    <3> QED
      BY <1>1, <1>2, <1>3, <1>9, <2>1, <3>1, <3>2, StaysMarked DEF SoleService
  <2>3. MarkedIn(v.store, b, now)
    BY <1>1, <1>3, <1>8, <1>9, <2>2, MarkAgain DEF F
  <2>4. SameRecords(v.store, disk)
    BY <1>2, <1>5, <1>8, <2>1, SameTransitive DEF SoleService
  <2> QED
    BY <1>8, <2>1, <2>2, <2>3, <2>4 DEF SoleService, Loaded
<1> QED
  BY <1>2, <1>3, <1>7, <1>8, <1>9, <1>10, <1>11, OneServiceMoves

LEMMA KeepsItself ==
  ASSUME NEW S \in Stores PROVE KeepsMarks(S, S, {}, now)
BY StoreFacts, RecordFacts DEF KeepsMarks

\* Executions that move on have no effect on the stores.
LEMMA MovesAreSound ==
  ASSUME CronIInv, NEW s \in Services, Loaded(svc[s]), replacements = 0,
         NEW b \in [Sources -> Batches], Follows(b, batch[s])
  PROVE  SoleService(svc[s], disk, b, now)
<1>1. /\ now \in Times /\ disk \in Stores /\ svc[s].store \in Stores
      /\ batch[s] \in [Sources -> Batches]
      /\ SoleService(svc[s], disk, batch[s], now)
  BY CronTypes, ServiceHere, ServiceFacts, WorkingService DEF Works, Loaded
<1>2. Unmarked(b, {})
  BY DEF Unmarked
<1>3. MarkedIn(disk, b, now) /\ ClaimedOnceIn(b, now) /\ MarkedIn(svc[s].store, b, now)
  BY <1>1, <1>2, KeepsItself, StaysMarked DEF SoleService
<1> QED
  BY <1>1, <1>3 DEF SoleService

LEMMA StepOfExecution ==
  ASSUME CronIInv, NEW s \in Services, Loaded(svc[s]), Turns(s, svc[s]), NEW by \in Sources,
         NEW j \in DOMAIN batch[s][by], NEW c \in Claims, ClaimOK(c, now),
         c.claimed = batch[s][by][j].claimed, c.released = batch[s][by][j].released,
         Puts(s, by, j, c), UNCHANGED <<disk, now, fresh, api, scheduler, replacements>>
  PROVE  CronIInv'
<1>1. svc[s] \in Service /\ svc[s].phase # "off" /\ disk \in Stores /\ DOMAIN disk \cap fresh = {}
  BY CronTypes, ServiceHere DEF Loaded
<1>2. PICK b \in [Sources -> Batches] :
        /\ Becomes(s, svc[s], b) /\ Follows(b, batch[s]) /\ SameJobs(b, batch[s])
        /\ \A src \in Sources : \A k \in DOMAIN b[src] : ClaimOK(b[src][k], now) /\ k \notin fresh
  BY OneClaimMoves
<1>3. ServiceOK(svc[s], b, fresh, now)
  BY <1>2, ServiceStaysOK
<1>4. replacements = 0 => SoleService(svc[s], disk, b, now)
  BY <1>2, MovesAreSound
<1> QED
  BY <1>1, <1>2, <1>3, <1>4, OneServiceMoves

LEMMA ExecutionEndsIsSound ==
  ASSUME CronIInv, NEW s \in Services, NEW by \in Sources, NEW j, ExecutionEnds(s, by, j)
  PROVE  CronIInv'
<1> DEFINE x == batch[s][by][j]
<1>1. PICK result \in Results :
        batch' = [batch EXCEPT ![s][by][j] =
                           [@ EXCEPT !.st = "done", !.ended = now, !.result = result]]
  BY DEF ExecutionEnds
<1> DEFINE c == [x EXCEPT !.st = "done", !.ended = now, !.result = result]
<1>2. /\ j \in DOMAIN batch[s][by] /\ x.st = "running" /\ batch[s][by] \in Batches
      /\ ServiceOK(svc[s], batch[s], fresh, now)
  BY ServiceHere DEF ExecutionEnds, Executing
<1>3. Loaded(svc[s])
  BY <1>2, ActiveIsLoaded
<1>4. now \in MaybeTimes /\ now # NoTime /\ result # "none"
  BY CronTypes, TimeFacts, CronBounds
<1>5. c \in Claims /\ ClaimOK(c, now) /\ c.claimed = x.claimed /\ c.released = x.released
  <2>1. x \in Claims /\ ClaimOK(x, now)
    BY <1>2, BatchFacts DEF ServiceOK
  <2> QED
    BY <1>2, <1>4, <2>1 DEF Claims, ClaimOK
<1>6. Puts(s, by, j, c) /\ UNCHANGED <<disk, now, fresh, api, scheduler, replacements>>
  BY <1>1 DEF ExecutionEnds, Puts, outside, bounds
<1>7. Turns(s, svc[s])
  BY CronTypes DEF ExecutionEnds, Turns
<1> HIDE DEF c
<1> QED
  BY <1>2, <1>3, <1>5, <1>6, <1>7, StepOfExecution

LEMMA RunMissedJobIsSound ==
  ASSUME CronIInv, NEW s \in Services, NEW j, RunMissedJob(s, j) PROVE CronIInv'
<1> DEFINE x == batch[s]["startup"][j]
           c == [x EXCEPT !.st = "running", !.started = now]
<1>1. /\ j \in DOMAIN batch[s]["startup"] /\ batch[s]["startup"] \in Batches
      /\ "startup" \in Sources
      /\ ServiceOK(svc[s], batch[s], fresh, now)
  BY ServiceHere DEF RunMissedJob, Sources
<1>2. Loaded(svc[s])
  BY <1>1, ActiveIsLoaded
<1>3. now \in MaybeTimes /\ now # NoTime
  BY CronTypes, TimeFacts
<1>4. c \in Claims /\ ClaimOK(c, now) /\ c.claimed = x.claimed /\ c.released = x.released
  <2>1. x \in Claims /\ ClaimOK(x, now)
    BY <1>1, BatchFacts DEF ServiceOK
  <2> QED
    BY <1>3, <2>1 DEF Claims, ClaimOK
<1>5. Puts(s, "startup", j, c) /\ UNCHANGED <<disk, now, fresh, api, scheduler, replacements>>
  BY DEF RunMissedJob, Puts, outside, bounds
<1>6. Turns(s, svc[s])
  BY CronTypes DEF RunMissedJob, Turns
<1> HIDE DEF c
<1> QED
  BY <1>1, <1>2, <1>4, <1>5, <1>6, StepOfExecution

\* The store once the executions X of a service have been recorded in it.
LEMMA RecordedStore ==
  ASSUME CronIInv, NEW s \in Services, NEW by \in Sources, Executed(s, by),
         NEW b \in [Sources -> Batches], Lessens(b, batch[s]), Unmarked(b, DOMAIN batch[s][by]),
         NEW R, R = RecomputeForMaintenance(Recorded(disk, batch[s][by]))
  PROVE  /\ R \in Stores /\ DOMAIN R \subseteq DOMAIN disk
         /\ WellTimed(disk) /\ MarkedIn(disk, batch[s], now) /\ ClaimedOnceIn(batch[s], now) =>
              WellTimed(R) /\ MarkedIn(R, b, now) /\ ClaimedOnceIn(b, now)
<1> DEFINE X == batch[s][by]
           S == Recorded(disk, X)
<1>1. /\ now \in Times /\ disk \in Stores /\ batch[s] \in [Sources -> Batches] /\ X \in Batches
      /\ ServiceOK(svc[s], batch[s], fresh, now)
  BY CronTypes, ServiceHere
<1>2. Done(X, now)
  BY <1>1 DEF Done, Executed, ServiceOK
<1> HIDE DEF X
<1>3. /\ S \in Stores /\ DOMAIN S \subseteq DOMAIN disk
      /\ \A j \in DOMAIN disk \ DOMAIN X : j \in DOMAIN S /\ S[j] = disk[j]
      /\ Timely(disk) => Timely(S)
  BY <1>1, <1>2, RecordedFacts
<1>4. R = RecomputeForMaintenance(S)
  BY DEF X
<1> HIDE DEF S
<1>5. Refreshed(R, S)
  BY <1>1, <1>3, <1>4, MaintenanceFacts
<1>6. R \in Stores /\ DOMAIN R = DOMAIN S /\ KeepsMarks(R, S, {}, now)
  BY <1>1, <1>3, <1>5, WalkKeepsMarks DEF Refreshed
<1>7. KeepsMarks(R, disk, DOMAIN X, now)
  BY <1>3, <1>6 DEF KeepsMarks
<1>8. ASSUME WellTimed(disk), MarkedIn(disk, batch[s], now), ClaimedOnceIn(batch[s], now)
      PROVE  WellTimed(R) /\ MarkedIn(R, b, now) /\ ClaimedOnceIn(b, now)
  <2>1. WellTimed(R)
    BY <1>3, <1>5, <1>8, WellTimedFacts DEF Refreshed
  <2>2. Unmarked(b, DOMAIN X) /\ Follows(b, batch[s])
    BY LessenedFollows DEF X
  <2> QED
    BY <1>1, <1>6, <1>7, <1>8, <2>1, <2>2, StaysMarked
<1> QED
  BY <1>3, <1>6, <1>8

LEMMA RecordDueJobsIsSound ==
  ASSUME CronIInv, NEW s \in Services, RecordDueJobs(s) PROVE CronIInv'
<1> DEFINE w == svc[s]
           R == RecomputeForMaintenance(Recorded(disk, batch[s]["timer"]))
           v == [[w EXCEPT !.tick = "finally", !.owns = FALSE] EXCEPT !.store = R]
<1>1. /\ w \in Service /\ ServiceOK(w, batch[s], fresh, now) /\ w.tick = "run"
      /\ w.phase # "off" /\ Loaded(w) /\ batch[s] \in [Sources -> Batches]
      /\ replacements = 0 => SoleService(w, disk, batch[s], now)
  BY ServiceHere, ActiveIsLoaded, WorkingService DEF RecordDueJobs, Works
<1>2. /\ disk' = R /\ Turns(s, v) /\ Forget(s, "timer") /\ Executed(s, "timer")
      /\ UNCHANGED <<now, fresh, api, scheduler, replacements>>
      /\ "timer" \in Sources /\ DOMAIN disk \cap fresh = {}
  BY CronTypes DEF RecordDueJobs, Persist, Turns, outside, bounds, Sources
<1> HIDE DEF v
<1>3. PICK b \in [Sources -> Batches] :
        /\ Becomes(s, v, b) /\ Lessens(b, batch[s]) /\ Unmarked(b, DOMAIN batch[s]["timer"])
        /\ b["timer"] = Nothing
        /\ \A other \in Sources : other # "timer" =>
             (b[other] = Nothing <=> batch[s][other] = Nothing)
  BY <1>2, ForgetFacts
<1>4. /\ R \in Stores /\ DOMAIN R \subseteq DOMAIN disk
      /\ replacements = 0 => WellTimed(R) /\ MarkedIn(R, b, now) /\ ClaimedOnceIn(b, now)
  BY <1>1, <1>2, <1>3, RecordedStore DEF SoleService
<1> HIDE DEF R
<1>5. /\ v \in Service /\ v.phase = w.phase /\ v.store = R /\ v.timer = w.timer
      /\ v.tick = "finally"
  BY <1>1, <1>4 DEF Service, v
<1>6. ServiceOK(v, b, fresh', now)
  <2>1. \A by \in Sources : \A j \in DOMAIN b[by] : ClaimOK(b[by][j], now) /\ j \notin fresh
    BY <1>1, <1>3, LessenedClaims
  <2> QED
    BY <1>1, <1>2, <1>3, <1>4, <1>5, <2>1 DEF ServiceOK, Loaded, Sources
<1>7. replacements = 0 => SoleService(v, disk', b, now)
  BY <1>2, <1>4, <1>5, WrittenStore
<1> QED
  BY <1>1, <1>2, <1>3, <1>4, <1>5, <1>6, <1>7, OneServiceMoves

LEMMA EndTickIsSound ==
  ASSUME CronIInv, NEW s \in Services, EndTick(s) PROVE CronIInv'
<1> DEFINE w == svc[s]
           v == [w EXCEPT !.tick = "idle", !.timer = Wakes(w.store)]
<1>1. /\ w \in Service /\ ServiceOK(w, batch[s], fresh, now) /\ w.tick = "finally"
      /\ w.phase # "off" /\ Loaded(w) /\ disk \in Stores /\ DOMAIN disk \cap fresh = {}
      /\ replacements = 0 => SoleService(w, disk, batch[s], now)
  BY ServiceHere, CronTypes, ActiveIsLoaded, WorkingService DEF EndTick, Works
<1>2. /\ Turns(s, v) /\ batch' = batch
      /\ UNCHANGED <<disk, now, fresh, api, scheduler, replacements>>
  BY DEF EndTick, Turns, outside, bounds
<1>3. Wakes(w.store) \in BOOLEAN
  BY DEF Wakes
<1>4. /\ v \in Service /\ v.phase = w.phase /\ v.store = w.store /\ v.timer = Wakes(w.store)
      /\ v.tick = "idle"
  BY <1>1, <1>3 DEF Service
<1> HIDE DEF v
<1>5. Becomes(s, v, batch[s])
  BY <1>2, BatchesStay
<1>6. ServiceOK(v, batch[s], fresh, now)
  BY <1>1, <1>4 DEF ServiceOK, Loaded
<1>7. replacements = 0 => SoleService(v, disk, batch[s], now)
  BY <1>1, <1>4, SameFacts DEF SoleService, Loaded
<1> QED
  BY <1>1, <1>2, <1>4, <1>5, <1>6, <1>7, OneServiceMoves

-----------------------------------------------------------------------------
(* Cron: start *)

LEMMA ClearMarkersIsSound ==
  ASSUME CronIInv, NEW s \in Services, ClearMarkers(s) PROVE CronIInv'
<1> DEFINE w == svc[s]
           marked == {j \in DOMAIN disk : disk[j].running # NoTime}
           S == [j \in DOMAIN disk |-> [disk[j] EXCEPT !.running = NoTime]]
           v == [[w EXCEPT !.phase = "collect", !.interrupted = marked] EXCEPT !.store = S]
<1>1. /\ w \in Service /\ ServiceOK(w, batch[s], fresh, now) /\ w.phase = "clear"
      /\ disk \in Stores /\ DOMAIN disk \subseteq Jobs /\ DOMAIN disk \cap fresh = {}
      /\ now \in Times /\ batch[s] \in [Sources -> Batches]
      /\ replacements = 0 => SoleService(w, disk, batch[s], now)
  BY ServiceHere, CronTypes, StoreFacts, WorkingService DEF ClearMarkers, Works
<1>2. /\ disk' = S /\ Turns(s, v) /\ batch' = batch
      /\ UNCHANGED <<now, fresh, api, scheduler, replacements>>
  BY DEF ClearMarkers, Persist, Turns, outside, bounds
<1>3. S \in Stores /\ SameRecords(S, disk) /\ DOMAIN S = DOMAIN disk
  <2>1. \A j \in DOMAIN disk : disk[j] \in Records
    BY <1>1, StoreFacts
  <2>2. NoTime \in MaybeTimes
    BY DEF MaybeTimes
  <2>3. \A j \in DOMAIN disk : S[j] \in Records /\ SameRecord(S[j], disk[j])
    BY <2>1, <2>2 DEF Records, SameRecord
  <2>4. S \in [DOMAIN disk -> Records]
    BY <2>3
  <2> QED
    BY <1>1, <2>3, <2>4, StoreIntro DEF SameRecords
<1> HIDE DEF S
<1>4. marked \in SUBSET Jobs
  BY <1>1
<1> HIDE DEF marked
<1>5. /\ v \in Service /\ v.phase = "collect" /\ v.store = S /\ v.timer = w.timer
      /\ v.tick = w.tick
  BY <1>1, <1>3, <1>4 DEF Service
<1> HIDE DEF v
<1>6. Becomes(s, v, batch[s]) /\ w.phase # "off" /\ batch[s] = NoRuns
  BY <1>1, <1>2, BatchesStay DEF ServiceOK
<1>7. ServiceOK(v, batch[s], fresh', now)
  BY <1>1, <1>2, <1>3, <1>5 DEF ServiceOK
<1>8. replacements = 0 => SoleService(v, disk', batch[s], now)
  <2>1. MarkedIn(S, NoRuns, now) /\ ClaimedOnceIn(NoRuns, now)
    BY NothingFacts DEF MarkedIn, ClaimedOnceIn
  <2> QED
    BY <1>1, <1>2, <1>3, <1>5, <1>6, <2>1, SameFacts, WrittenStore DEF SoleService
<1> QED
  BY <1>1, <1>2, <1>3, <1>5, <1>6, <1>7, <1>8, OneServiceMoves

LEMMA CollectMissedJobsIsSound ==
  ASSUME CronIInv, NEW s \in Services, CollectMissedJobs(s) PROVE CronIInv'
<1> DEFINE w == svc[s]
           S == w.store
           missed == {j \in DOMAIN S \ w.interrupted : Missed(j, S[j])}
<1>1. /\ w \in Service /\ ServiceOK(w, batch[s], fresh, now) /\ w.phase = "collect"
      /\ w.phase # "off" /\ Loaded(w) /\ batch[s] \in [Sources -> Batches]
      /\ replacements = 0 => SoleService(w, disk, batch[s], now)
  BY ServiceHere, ActiveIsLoaded, WorkingService DEF CollectMissedJobs, Works
<1>2. UNCHANGED <<now, fresh, api, scheduler, replacements>>
  BY DEF CollectMissedJobs, outside, bounds
<1>3. /\ now \in Times /\ disk \in Stores /\ DOMAIN disk \cap fresh = {}
      /\ S \in Stores /\ DOMAIN S \subseteq Jobs /\ DOMAIN S \cap fresh = {}
  BY <1>1, CronTypes, ServiceFacts, StoreFacts DEF ServiceOK
<1>4. CASE missed = {}
  <2> DEFINE v == [w EXCEPT !.phase = "recompute"]
  <2>1. disk' = disk /\ Turns(s, v) /\ batch' = batch
    BY <1>4 DEF CollectMissedJobs, Turns
  <2>2. /\ v \in Service /\ v.phase = "recompute" /\ v.store = S
        /\ v.timer = w.timer /\ v.tick = w.tick
    BY <1>1 DEF Service
  <2> HIDE DEF v
  <2>3. Becomes(s, v, batch[s])
    BY <2>1, BatchesStay
  <2>4. ServiceOK(v, batch[s], fresh', now)
    BY <1>1, <1>2, <2>2 DEF ServiceOK
  <2>5. replacements = 0 => SoleService(v, disk', batch[s], now)
    BY <1>1, <2>1, <2>2 DEF SoleService, Loaded
  <2> QED
    BY <1>1, <1>2, <1>3, <2>1, <2>2, <2>3, <2>4, <2>5, OneServiceMoves
<1>5. CASE missed # {}
  <2> DEFINE R == Mark(S, missed)
             C == [j \in missed |-> Claimed]
             v == [[w EXCEPT !.phase = "catchup"] EXCEPT !.store = R]
  <2>1. disk' = R /\ Turns(s, v) /\ Gets(s, "startup", C) /\ "startup" \in Sources
    BY <1>5 DEF CollectMissedJobs, Persist, Turns, Claim, Gets, Sources
  <2>2. missed \subseteq DOMAIN S /\ \A j \in missed : S[j].enabled /\ S[j].running = NoTime
    BY DEF missed, Missed, Runnable
  <2> HIDE DEF missed
  <2>3. /\ R \in Stores /\ DOMAIN R = DOMAIN S /\ (WellTimed(R) <=> WellTimed(S))
        /\ C \in Batches /\ DOMAIN C = missed /\ \A j \in missed : ClaimOK(C[j], now)
    <3>1. R \in Stores /\ SameRecords(R, S)
      BY <1>3, MarkFacts
    <3>2. missed \in SUBSET Jobs
      BY <1>3, <2>2
    <3> HIDE DEF R, C
    <3>3. C \in Batches /\ DOMAIN C = missed /\ \A j \in missed : ClaimOK(C[j], now)
      BY <1>3, <3>2, ClaimedBatch DEF C
    <3> QED
      BY <3>1, <3>3, SameFacts DEF SameRecords
  <2>4. /\ v \in Service /\ v.phase = "catchup" /\ v.store = R /\ v.timer = w.timer
        /\ v.tick = w.tick
    BY <1>1, <2>3 DEF Service
  <2> HIDE DEF v, C
  <2>5. PICK b \in [Sources -> Batches] :
          /\ Becomes(s, v, b) /\ b["startup"] = C
          /\ \A other \in Sources : other # "startup" => b[other] = batch[s][other]
    BY <2>1, <2>3, ClaimedFacts
  <2>6. ASSUME replacements = 0
        PROVE  MarkedIn(R, b, now) /\ ClaimedOnceIn(b, now) /\ WellTimed(R)
    <3>1. /\ WellTimed(disk) /\ SameRecords(S, disk) /\ MarkedIn(S, batch[s], now)
          /\ ClaimedOnceIn(batch[s], now)
      BY <1>1, <2>6 DEF SoleService
    <3>2. WellTimed(R)
      BY <2>3, <3>1, SameFacts
    <3> QED
      BY <1>1, <1>3, <2>1, <2>2, <2>3, <2>5, <3>1, <3>2, JobsAreClaimed DEF C
  <2> HIDE DEF R
  <2>7. ServiceOK(v, b, fresh', now)
    <3>1. \A src \in Sources : \A j \in DOMAIN b[src] : ClaimOK(b[src][j], now) /\ j \notin fresh
      BY <1>1, <1>3, <2>1, <2>2, <2>3, <2>5, ClaimsAreOK
    <3>2. b["startup"] # Nothing /\ b["timer"] = batch[s]["timer"]
      BY <1>5, <2>3, <2>5, NothingFacts DEF Sources
    <3> QED
      BY <1>1, <1>2, <1>3, <2>3, <2>4, <3>1, <3>2 DEF ServiceOK, Loaded
  <2>8. replacements = 0 => SoleService(v, disk', b, now)
    BY <2>1, <2>4, <2>6, WrittenStore
  <2> QED
    BY <1>1, <1>2, <1>3, <2>1, <2>3, <2>4, <2>5, <2>7, <2>8, OneServiceMoves
<1> QED
  BY <1>4, <1>5

LEMMA RecordMissedJobsIsSound ==
  ASSUME CronIInv, NEW s \in Services, RecordMissedJobs(s) PROVE CronIInv'
<1> DEFINE w == svc[s]
           R == RecomputeForMaintenance(Recorded(disk, batch[s]["startup"]))
           late == {j \in DOMAIN R \ w.interrupted : Runnable(R[j])}
           v == [[w EXCEPT !.phase = "recompute", !.owns = FALSE, !.kept = late] EXCEPT !.store = R]
<1>1. /\ w \in Service /\ ServiceOK(w, batch[s], fresh, now) /\ w.phase = "catchup"
      /\ w.phase # "off" /\ Loaded(w) /\ batch[s] \in [Sources -> Batches]
      /\ replacements = 0 => SoleService(w, disk, batch[s], now)
  BY ServiceHere, ActiveIsLoaded, WorkingService DEF RecordMissedJobs, Works
<1>2. /\ disk' = R /\ Turns(s, v) /\ Forget(s, "startup") /\ Executed(s, "startup")
      /\ UNCHANGED <<now, fresh, api, scheduler, replacements>>
      /\ "startup" \in Sources /\ DOMAIN disk \cap fresh = {}
  BY CronTypes DEF RecordMissedJobs, Persist, Turns, outside, bounds, Sources
<1> HIDE DEF v
<1>3. PICK b \in [Sources -> Batches] :
        /\ Becomes(s, v, b) /\ Lessens(b, batch[s]) /\ Unmarked(b, DOMAIN batch[s]["startup"])
        /\ b["startup"] = Nothing
        /\ \A other \in Sources : other # "startup" =>
             (b[other] = Nothing <=> batch[s][other] = Nothing)
  BY <1>2, ForgetFacts
<1>4. /\ R \in Stores /\ DOMAIN R \subseteq DOMAIN disk
      /\ replacements = 0 => WellTimed(R) /\ MarkedIn(R, b, now) /\ ClaimedOnceIn(b, now)
  BY <1>1, <1>2, <1>3, RecordedStore DEF SoleService
<1> HIDE DEF R
<1>5. late \in SUBSET Jobs
  BY <1>4, StoreFacts
<1> HIDE DEF late
<1>6. /\ v \in Service /\ v.phase = "recompute" /\ v.store = R /\ v.timer = w.timer
      /\ v.tick = w.tick
  BY <1>1, <1>4, <1>5 DEF Service, v
<1>7. ServiceOK(v, b, fresh', now)
  <2>1. \A by \in Sources : \A j \in DOMAIN b[by] : ClaimOK(b[by][j], now) /\ j \notin fresh
    BY <1>1, <1>3, LessenedClaims
  <2> QED
    BY <1>1, <1>2, <1>3, <1>4, <1>6, <2>1 DEF ServiceOK, Loaded, Sources
<1>8. replacements = 0 => SoleService(v, disk', b, now)
  BY <1>2, <1>4, <1>6, WrittenStore
<1> QED
  BY <1>1, <1>2, <1>3, <1>4, <1>6, <1>7, <1>8, OneServiceMoves

LEMMA FinishStartIsSound ==
  ASSUME CronIInv, NEW s \in Services, FinishStart(s) PROVE CronIInv'
<1> DEFINE w == svc[s]
           R == RecomputeNextRuns(disk)
           v == [[[w EXCEPT !.phase = "up", !.owns = FALSE, !.interrupted = {}, !.kept = {}]
                    EXCEPT !.timer = Wakes(R)] EXCEPT !.store = R]
<1>1. /\ w \in Service /\ ServiceOK(w, batch[s], fresh, now) /\ w.phase = "recompute"
      /\ w.phase # "off" /\ batch[s] \in [Sources -> Batches]
      /\ replacements = 0 => SoleService(w, disk, batch[s], now)
      /\ now \in Times /\ disk \in Stores /\ DOMAIN disk \cap fresh = {}
  BY ServiceHere, CronTypes, WorkingService DEF FinishStart, Works
<1>2. /\ disk' = R /\ Turns(s, v) /\ batch' = batch
      /\ UNCHANGED <<now, fresh, api, scheduler, replacements>>
  BY DEF FinishStart, PersistAndArm, Persist, Turns, outside, bounds
<1>3. Refreshed(R, disk)
  BY <1>1, RecomputeFacts
<1> HIDE DEF R
<1>4. R \in Stores /\ DOMAIN R = DOMAIN disk /\ KeepsMarks(R, disk, {}, now) /\ Wakes(R) \in BOOLEAN
  BY <1>1, <1>3, WalkKeepsMarks DEF Refreshed, Wakes
<1>5. v \in Service /\ v.phase = "up" /\ v.store = R /\ v.timer = Wakes(R) /\ v.tick = w.tick
  BY <1>1, <1>4 DEF Service
<1> HIDE DEF v
<1>6. Becomes(s, v, batch[s])
  BY <1>2, BatchesStay
<1>7. ServiceOK(v, batch[s], fresh', now)
  BY <1>1, <1>2, <1>4, <1>5 DEF ServiceOK
<1>8. ASSUME replacements = 0 PROVE SoleService(v, disk', batch[s], now)
  <2>1. WellTimed(R)
    BY <1>1, <1>3, <1>8, WellTimedFacts DEF SoleService, Refreshed
  <2>2. MarkedIn(R, batch[s], now) /\ ClaimedOnceIn(batch[s], now)
    BY <1>1, <1>4, <1>8, NothingUnmarked, StaysMarked DEF SoleService
  <2> QED
    BY <1>2, <1>5, <2>1, <2>2, WrittenStore
<1> QED
  BY <1>1, <1>2, <1>4, <1>5, <1>6, <1>7, <1>8, OneServiceMoves

-----------------------------------------------------------------------------
(* Cron: calls *)

LEMMA AnsweringService ==
  ASSUME CronIInv, Answers
  PROVE  /\ api \in Services /\ svc[api] \in Service /\ batch[api] \in [Sources -> Batches]
         /\ ServiceOK(svc[api], batch[api], fresh, now)
         /\ svc[api].phase # "off" /\ Loaded(svc[api])
         /\ svc[api].store \in Stores /\ DOMAIN svc[api].store \subseteq Jobs
         /\ DOMAIN svc[api].store \cap fresh = {}
         /\ \A j \in DOMAIN svc[api].store : svc[api].store[j] \in Records
         /\ replacements = 0 =>
              /\ SoleService(svc[api], disk, batch[api], now)
              /\ WellTimed(svc[api].store) /\ SameRecords(svc[api].store, disk)
              /\ MarkedIn(svc[api].store, batch[api], now) /\ ClaimedOnceIn(batch[api], now)
<1>1. api \in Services
  BY DEF CronIInv
<1>2. /\ svc[api] \in Service /\ batch[api] \in [Sources -> Batches]
      /\ ServiceOK(svc[api], batch[api], fresh, now)
      /\ svc[api].phase # "off" /\ Loaded(svc[api])
      /\ replacements = 0 => SoleService(svc[api], disk, batch[api], now)
  BY <1>1, ServiceHere, WorkingService DEF Answers, Loaded, Works
<1>3. /\ svc[api].store \in Stores /\ DOMAIN svc[api].store \subseteq Jobs
      /\ DOMAIN svc[api].store \cap fresh = {}
      /\ \A j \in DOMAIN svc[api].store : svc[api].store[j] \in Records
  BY <1>2, ServiceFacts, StoreFacts DEF ServiceOK
<1>4. ASSUME replacements = 0
      PROVE  /\ WellTimed(svc[api].store) /\ SameRecords(svc[api].store, disk)
             /\ MarkedIn(svc[api].store, batch[api], now) /\ ClaimedOnceIn(batch[api], now)
  BY <1>2, <1>4, SameFacts DEF SoleService
<1> QED
  BY <1>1, <1>2, <1>3, <1>4

\* The executions of the jobs J have no marker after the step.
Frees(J) ==
  \/ batch' = batch /\ Unmarked(batch[api], J)
  \/ \E j : J = {j} /\ Release(j)

LEMMA FreedBatches ==
  ASSUME CronIInv, Answers, NEW v, Turns(api, v), NEW J, Frees(J)
  PROVE  \E b \in [Sources -> Batches] :
           Becomes(api, v, b) /\ Alike(b, batch[api]) /\ Unmarked(b, J)
<1>1. api \in Services /\ batch[api] \in [Sources -> Batches]
  BY AnsweringService
<1>2. CASE batch' = batch /\ Unmarked(batch[api], J)
  <2>1. Becomes(api, v, batch[api])
    BY <1>1, <1>2, BatchesStay
  <2>2. Alike(batch[api], batch[api])
    BY DEF Alike, Lessens, SameJobs
  <2> QED
    BY <1>1, <1>2, <2>1, <2>2
<1>3. CASE \E j : J = {j} /\ Release(j)
  BY <1>1, <1>3, ReleaseFacts
<1> QED
  BY <1>2, <1>3 DEF Frees

\* A call that writes the store F and arms the timer.
LEMMA CallIsSound ==
  ASSUME CronIInv, Answers, NEW F \in Stores, PersistAndArm(api, F, svc[api]),
         UNCHANGED <<now, api, scheduler, replacements>>, fresh' \subseteq fresh,
         DOMAIN F \cap fresh' = {}, NEW J, Frees(J), KeepsMarks(F, svc[api].store, J, now),
         WellTimed(svc[api].store) => WellTimed(F)
  PROVE  CronIInv'
<1> DEFINE w == svc[api]
           v == [[w EXCEPT !.timer = Wakes(F)] EXCEPT !.store = F]
<1>1. /\ api \in Services /\ w \in Service /\ batch[api] \in [Sources -> Batches]
      /\ ServiceOK(w, batch[api], fresh, now) /\ w.phase # "off" /\ Loaded(w) /\ now \in Times
      /\ w.store \in Stores
      /\ replacements = 0 => /\ WellTimed(w.store) /\ MarkedIn(w.store, batch[api], now)
                             /\ ClaimedOnceIn(batch[api], now)
  BY AnsweringService, CronTypes
<1>2. disk' = F /\ Turns(api, v)
  BY DEF PersistAndArm, Persist, Turns
<1>3. /\ v \in Service /\ v.phase = w.phase /\ v.store = F /\ v.timer = Wakes(F) /\ v.tick = w.tick
      /\ Wakes(F) \in BOOLEAN
  <2>1. Wakes(F) \in BOOLEAN
    BY DEF Wakes
  <2> QED
    BY <1>1, <2>1 DEF Service
<1> HIDE DEF v
<1>4. PICK b \in [Sources -> Batches] :
        Becomes(api, v, b) /\ Alike(b, batch[api]) /\ Unmarked(b, J)
  BY <1>2, FreedBatches
<1>5. Lessens(b, batch[api]) /\ SameJobs(b, batch[api]) /\ Follows(b, batch[api])
  BY <1>4, LessenedFollows DEF Alike
<1>6. ServiceOK(v, b, fresh', now)
  <2>1. \A by \in Sources : \A j \in DOMAIN b[by] : ClaimOK(b[by][j], now) /\ j \notin fresh'
    BY <1>1, <1>5, LessenedClaims
  <2>2. \A by \in Sources : b[by] = Nothing <=> batch[api][by] = Nothing
    BY <1>1, <1>5, SameJobsFacts
  <2> QED
    BY <1>1, <1>3, <2>1, <2>2 DEF ServiceOK, Loaded, Sources
<1>7. ASSUME replacements = 0 PROVE SoleService(v, disk', b, now)
  <2>1. MarkedIn(F, b, now) /\ ClaimedOnceIn(b, now)
    BY <1>1, <1>4, <1>5, <1>7, StaysMarked
  <2> QED
    BY <1>1, <1>2, <1>3, <1>7, <2>1, WrittenStore
<1> QED
  BY <1>1, <1>2, <1>3, <1>4, <1>6, <1>7, OneServiceMoves

\* A step of the service that serves calls, which only reads: the records stay.
LEMMA ReadIsSound ==
  ASSUME CronIInv, Read PROVE CronIInv'
<1> DEFINE w == svc[api]
           R == RecomputeForMaintenance(w.store)
           v == [w EXCEPT !.store = R]
<1>1. /\ api \in Services /\ w \in Service /\ batch[api] \in [Sources -> Batches]
      /\ ServiceOK(w, batch[api], fresh, now) /\ w.phase # "off" /\ Loaded(w) /\ now \in Times
      /\ w.store \in Stores /\ DOMAIN w.store \cap fresh = {}
      /\ disk \in Stores /\ DOMAIN disk \cap fresh = {}
      /\ replacements = 0 => /\ SoleService(w, disk, batch[api], now)
                             /\ WellTimed(w.store) /\ MarkedIn(w.store, batch[api], now)
                             /\ ClaimedOnceIn(batch[api], now) /\ SameRecords(w.store, disk)
  BY AnsweringService, CronTypes DEF Read
<1>2. /\ Turns(api, v) /\ batch' = batch /\ (disk' = disk \/ disk' = R)
      /\ UNCHANGED <<now, fresh, api, scheduler, replacements>>
  BY DEF Read, Turns, outside, bounds
<1>3. /\ R \in Stores /\ DOMAIN R = DOMAIN w.store
      /\ replacements = 0 => SameRecords(R, w.store) /\ WellTimed(R) /\ MarkedIn(R, batch[api], now)
  BY <1>1, MaintainedStore
<1> HIDE DEF R
<1>4. v \in Service /\ v.phase = w.phase /\ v.store = R /\ v.timer = w.timer /\ v.tick = w.tick
  BY <1>1, <1>3 DEF Service
<1> HIDE DEF v
<1>5. Becomes(api, v, batch[api])
  BY <1>1, <1>2, BatchesStay
<1>6. ServiceOK(v, batch[api], fresh', now)
  BY <1>1, <1>2, <1>3, <1>4 DEF ServiceOK
<1>7. ASSUME replacements = 0 PROVE SoleService(v, disk', batch[api], now)
  <2>1. SameRecords(R, disk) /\ (Wakes(R) <=> Wakes(disk)) /\ SameRecords(R, R)
    BY <1>1, <1>3, <1>7, SameTransitive, SameFacts
  <2> QED
    BY <1>1, <1>2, <1>3, <1>4, <1>7, <2>1 DEF SoleService
<1> QED
  BY <1>1, <1>2, <1>3, <1>4, <1>5, <1>6, <1>7, OneServiceMoves

LEMMA UpdateIsSound ==
  ASSUME CronIInv, NEW j, NEW r \in Records, Answers, j \in DOMAIN svc[api].store, Update(j, r),
         NEW J, Frees(J), j \in J \/ (r.enabled /\ r.running = svc[api].store[j].running)
           \/ (r.enabled = svc[api].store[j].enabled /\ r.running = svc[api].store[j].running),
         WellTimed(svc[api].store) => (r.next = NoTime <=> ~r.enabled \/ Succeeded(j, r))
  PROVE  CronIInv'
<1> DEFINE S == svc[api].store
           F == [S EXCEPT ![j] = r]
<1>1. /\ S \in Stores /\ DOMAIN S \subseteq Jobs /\ DOMAIN S \cap fresh = {}
      /\ S = [i \in DOMAIN S |-> S[i]]
      /\ \A i \in DOMAIN S : S[i] \in Records
  BY AnsweringService, StoreFacts
<1>2. /\ PersistAndArm(api, F, svc[api]) /\ fresh' = fresh
      /\ UNCHANGED <<now, api, scheduler, replacements>>
  BY DEF Update, Call
<1>3. /\ DOMAIN F = DOMAIN S /\ F[j] = r /\ \A i \in DOMAIN S : i # j => F[i] = S[i]
  BY <1>1
<1>4. F \in Stores
  <2>1. F \in [DOMAIN S -> Records]
    BY <1>1
  <2> QED
    BY <1>1, <2>1, StoreIntro
<1> HIDE DEF F
<1>5. KeepsMarks(F, S, J, now)
  <2> SUFFICES ASSUME NEW i \in DOMAIN F \ J, S[i].enabled, S[i].running # NoTime
               PROVE  F[i].enabled /\ F[i].running # NoTime /\ F[i].running >= S[i].running
    BY <1>3 DEF KeepsMarks
  <2>1. S[i].running \in Int
    BY <1>1, <1>3, RecordFacts
  <2>2. CASE i = j
    BY <1>3, <2>1, <2>2
  <2>3. CASE i # j
    BY <1>3, <2>1, <2>3
  <2> QED
    BY <2>2, <2>3
<1>6. WellTimed(S) => WellTimed(F)
  BY <1>3 DEF WellTimed
<1> QED
  BY <1>1, <1>2, <1>3, <1>4, <1>5, <1>6, CallIsSound

LEMMA EnableIsSound ==
  ASSUME CronIInv, NEW j \in Jobs, Enable(j) PROVE CronIInv'
<1> DEFINE S == svc[api].store
           q == [S[j] EXCEPT !.enabled = TRUE]
           r == [q EXCEPT !.next = NextRun(j, q, now)]
<1>1. j \in DOMAIN S /\ Update(j, r) /\ batch' = batch /\ Answers
  BY DEF Enable, Update, Call
<1>2. S[j] \in Records /\ now \in Times
  BY <1>1, AnsweringService, CronTypes
<1>3. q \in Records /\ q.enabled /\ q.running = S[j].running
  BY <1>2 DEF Records
<1>4. NextRun(j, q, now) \in Int /\ (NextRun(j, q, now) = NoTime <=> Succeeded(j, q))
  BY <1>2, <1>3, NextRunFacts
<1> HIDE DEF q
<1>5. r \in Records /\ r.enabled /\ r.running = S[j].running /\ r.next = NextRun(j, q, now)
  BY <1>3, <1>4 DEF Records
<1>6. Succeeded(j, r) <=> Succeeded(j, q)
  BY <1>3 DEF Records, Succeeded
<1>7. Frees({})
  BY <1>1 DEF Frees, Unmarked
<1> HIDE DEF r
<1> QED
  BY <1>1, <1>4, <1>5, <1>6, <1>7, UpdateIsSound

LEMMA DisableIsSound ==
  ASSUME CronIInv, NEW j \in Jobs, Disable(j) PROVE CronIInv'
<1> DEFINE S == svc[api].store
           r == [S[j] EXCEPT !.enabled = FALSE, !.next = NoTime, !.running = NoTime]
<1>1. j \in DOMAIN S /\ Update(j, r) /\ Release(j) /\ Answers
  BY DEF Disable, Update, Call
<1>2. S[j] \in Records /\ NoTime \in MaybeTimes /\ NoTime \in Int
  BY <1>1, AnsweringService, TimeFacts DEF MaybeTimes
<1>3. r \in Records /\ ~r.enabled /\ r.next = NoTime
  BY <1>2 DEF Records
<1>4. Frees({j})
  BY <1>1 DEF Frees
<1> HIDE DEF r
<1> QED
  BY <1>1, <1>3, <1>4, UpdateIsSound

LEMMA RescheduleIsSound ==
  ASSUME CronIInv, NEW j \in Jobs, NEW at \in Times, Reschedule(j, at) PROVE CronIInv'
<1> DEFINE S == svc[api].store
           q == [S[j] EXCEPT !.at = IF Kind[j] = "every" THEN now ELSE at]
           r == [q EXCEPT !.next = ComputeNext(j, q, now),
                          !.running = IF q.enabled THEN @ ELSE NoTime]
<1>1. /\ j \in DOMAIN S /\ Update(j, r) /\ Answers
      /\ IF q.enabled THEN batch' = batch ELSE Release(j)
  BY DEF Reschedule, Update, Call
<1>2. S[j] \in Records /\ now \in Times /\ NoTime \in MaybeTimes
  BY <1>1, AnsweringService, CronTypes DEF MaybeTimes
<1>3. q \in Records /\ q.enabled = S[j].enabled /\ q.running = S[j].running
  BY <1>2 DEF Records
<1> HIDE DEF q
<1>4. /\ ComputeNext(j, q, now) \in Int /\ q.enabled \in BOOLEAN
      /\ ComputeNext(j, q, now) = NoTime <=> ~q.enabled \/ Succeeded(j, q)
  BY <1>2, <1>3, ComputeNextFacts, RecordFacts
<1>5. /\ r \in Records /\ r.enabled = q.enabled /\ r.next = ComputeNext(j, q, now)
      /\ q.enabled => r.running = q.running
      /\ r.at = q.at /\ r.status = q.status /\ r.last = q.last
  BY <1>2, <1>3, <1>4 DEF Records
<1>6. Succeeded(j, r) <=> Succeeded(j, q)
  BY <1>5 DEF Succeeded
<1> HIDE DEF r
<1>7. CASE q.enabled
  <2>1. Frees({})
    BY <1>1, <1>7 DEF Frees, Unmarked
  <2> QED
    BY <1>1, <1>3, <1>4, <1>5, <1>6, <1>7, <2>1, UpdateIsSound
<1>8. CASE ~q.enabled
  <2>1. Frees({j})
    BY <1>1, <1>8 DEF Frees
  <2> QED
    BY <1>1, <1>4, <1>5, <1>6, <2>1, UpdateIsSound
<1> QED
  BY <1>7, <1>8

LEMMA EditIsSound ==
  ASSUME CronIInv, NEW j \in Jobs, Edit(j) PROVE CronIInv'
<1> DEFINE S == svc[api].store
           next == IF Missing(S[j]) THEN ComputeNext(j, S[j], now) ELSE S[j].next
           r == [S[j] EXCEPT !.next = next]
<1>1. j \in DOMAIN S /\ Update(j, r) /\ batch' = batch /\ Answers
  BY DEF Edit, Update, Call
<1>2. S[j] \in Records /\ now \in Times
  BY <1>1, AnsweringService, CronTypes
<1>3. /\ ComputeNext(j, S[j], now) \in Int /\ S[j].next \in Int
      /\ ComputeNext(j, S[j], now) = NoTime <=> ~S[j].enabled \/ Succeeded(j, S[j])
  BY <1>2, ComputeNextFacts, RecordFacts
<1>4. /\ next \in Int
      /\ WellTimed(S) => (next = NoTime <=> ~S[j].enabled \/ Succeeded(j, S[j]))
  BY <1>1, <1>3 DEF Missing, WellTimed
<1> HIDE DEF next
<1>5. /\ r \in Records /\ r.enabled = S[j].enabled /\ r.running = S[j].running /\ r.next = next
      /\ r.at = S[j].at /\ r.status = S[j].status /\ r.last = S[j].last
  BY <1>2, <1>4 DEF Records
<1>6. Succeeded(j, r) <=> Succeeded(j, S[j])
  BY <1>5 DEF Succeeded
<1>7. Frees({})
  BY <1>1 DEF Frees, Unmarked
<1> HIDE DEF r
<1> QED
  BY <1>1, <1>4, <1>5, <1>6, <1>7, UpdateIsSound

LEMMA RemoveIsSound ==
  ASSUME CronIInv, NEW j \in Jobs, Remove(j) PROVE CronIInv'
<1> DEFINE S == svc[api].store
           F == Restrict(S, DOMAIN S \ {j})
<1>1. /\ Answers /\ PersistAndArm(api, F, svc[api]) /\ Release(j)
      /\ fresh' = fresh /\ UNCHANGED <<now, api, scheduler, replacements>>
  BY DEF Remove, Call
<1>2. /\ S \in Stores /\ DOMAIN S \subseteq Jobs /\ DOMAIN S \cap fresh = {}
      /\ \A i \in DOMAIN S : S[i] \in Records
  BY <1>1, AnsweringService
<1>3. DOMAIN F = DOMAIN S \ {j} /\ \A i \in DOMAIN F : F[i] = S[i]
  BY DEF Restrict
<1>4. F \in Stores
  <2>1. F \in [DOMAIN S \ {j} -> Records]
    BY <1>2 DEF Restrict
  <2> QED
    BY <1>2, <2>1, StoreIntro
<1> HIDE DEF F
<1>5. KeepsMarks(F, S, {j}, now)
  BY <1>2, <1>3, RecordFacts DEF KeepsMarks
<1>6. WellTimed(S) => WellTimed(F)
  BY <1>3 DEF WellTimed
<1>7. Frees({j})
  BY <1>1 DEF Frees
<1> QED
  BY <1>1, <1>2, <1>3, <1>4, <1>5, <1>6, <1>7, CallIsSound

LEMMA AddIsSound ==
  ASSUME CronIInv, NEW j \in Jobs, NEW at \in Times, NEW enabled \in BOOLEAN, Add(j, at, enabled)
  PROVE  CronIInv'
<1> DEFINE T == svc[api].store
           q == NewJob(j, at, enabled)
           r == [q EXCEPT !.next = ComputeNext(j, q, now)]
           S == [i \in DOMAIN T \cup {j} |-> IF i = j THEN r ELSE T[i]]
           R == RecomputeNextRuns(S)
<1>1. /\ Answers /\ j \in fresh /\ PersistAndArm(api, R, svc[api]) /\ batch' = batch
      /\ fresh' = fresh \ {j} /\ UNCHANGED <<now, api, scheduler, replacements>>
  BY DEF Add, Call
<1>2. /\ T \in Stores /\ DOMAIN T \subseteq Jobs /\ DOMAIN T \cap fresh = {}
      /\ \A i \in DOMAIN T : T[i] \in Records
      /\ ServiceOK(svc[api], batch[api], fresh, now) /\ now \in Times /\ api \in Services
  BY <1>1, AnsweringService, CronTypes
<1>3. q \in Records /\ r \in Records /\ r.status = "none"
  <2>1. NoTime \in MaybeTimes /\ NoTime \in Int /\ 0 \in 0..MaxRetries + 1
    BY TimeFacts, CronBounds DEF MaybeTimes
  <2>2. q \in Records /\ q.status = "none"
    BY <2>1 DEF NewJob, Records
  <2> HIDE DEF q
  <2>3. ComputeNext(j, q, now) \in Int
    BY <1>2, <2>2, ComputeNextFacts
  <2> QED
    BY <2>2, <2>3 DEF Records
<1> HIDE DEF r
<1>4. /\ DOMAIN S = DOMAIN T \cup {j} /\ S[j] = r
      /\ \A i \in DOMAIN T : i \in DOMAIN S /\ i # j /\ S[i] = T[i]
  BY <1>1, <1>2
<1>5. S \in Stores
  <2>1. S \in [DOMAIN T \cup {j} -> Records]
    BY <1>2, <1>3
  <2> QED
    BY <1>2, <2>1, StoreIntro
<1> HIDE DEF S
<1>6. Refreshed(R, S)
  BY <1>2, <1>5, RecomputeFacts
<1>7. R \in Stores /\ DOMAIN R = DOMAIN S /\ KeepsMarks(R, S, {}, now)
  BY <1>2, <1>5, <1>6, WalkKeepsMarks DEF Refreshed
<1> HIDE DEF R
<1>8. KeepsMarks(R, T, {j}, now)
  BY <1>4, <1>7 DEF KeepsMarks
<1>9. WellTimed(T) => WellTimed(R)
  <2>1. ASSUME WellTimed(T) PROVE Timely(S)
    <3>1. Timely(T)
      BY <2>1, WellTimedFacts
    <3>2. ~Succeeded(j, r)
      BY <1>3 DEF Succeeded
    <3> QED
      BY <1>4, <3>1, <3>2 DEF Timely
  <2> QED
    BY <1>6, <2>1 DEF Refreshed
<1>10. Frees({j})
  BY <1>1, <1>2 DEF Frees, Unmarked, ServiceOK
<1>11. DOMAIN R \cap fresh' = {} /\ fresh' \subseteq fresh
  BY <1>1, <1>2, <1>4, <1>7
<1> QED
  BY <1>1, <1>7, <1>8, <1>9, <1>10, <1>11, CallIsSound

LEMMA PrepareRunIsSound ==
  ASSUME CronIInv, NEW j \in Jobs, NEW forced \in BOOLEAN, PrepareRun(j, forced) PROVE CronIInv'
<1> DEFINE w == svc[api]
           S == RecomputeForMaintenance(w.store)
           begins == S[j].running = NoTime /\ (forced \/ Runnable(S[j]))
<1>1. /\ api \in Services /\ w \in Service /\ batch[api] \in [Sources -> Batches]
      /\ ServiceOK(w, batch[api], fresh, now) /\ w.phase # "off" /\ Loaded(w) /\ now \in Times
      /\ w.store \in Stores /\ DOMAIN w.store \cap fresh = {} /\ DOMAIN w.store \subseteq Jobs
      /\ disk \in Stores /\ DOMAIN disk \cap fresh = {}
      /\ replacements = 0 => /\ SoleService(w, disk, batch[api], now)
                             /\ WellTimed(w.store) /\ MarkedIn(w.store, batch[api], now)
                             /\ ClaimedOnceIn(batch[api], now) /\ SameRecords(w.store, disk)
  BY AnsweringService, CronTypes DEF PrepareRun, Call
<1>2. UNCHANGED <<now, fresh, api, scheduler, replacements>> /\ j \in DOMAIN S
  BY DEF PrepareRun, Call
<1>3. /\ S \in Stores /\ DOMAIN S = DOMAIN w.store
      /\ replacements = 0 => SameRecords(S, w.store) /\ WellTimed(S) /\ MarkedIn(S, batch[api], now)
  BY <1>1, MaintainedStore
<1>4. CASE begins
  <2> DEFINE F == Mark(S, {j})
             c == [Claimed EXCEPT !.st = "running", !.started = now, !.released = ~S[j].enabled]
             C == [i \in {j} |-> c]
             v == [w EXCEPT !.store = F]
  <2>1. /\ disk' = F /\ Turns(api, v) /\ Gets(api, "manual", C) /\ "manual" \in Sources
    BY <1>4 DEF PrepareRun, Persist, Turns, Gets, Sources
  <2> HIDE DEF S
  <2>2. S[j] \in Records /\ S[j].enabled \in BOOLEAN /\ S[j].running = NoTime
    BY <1>2, <1>3, <1>4, StoreFacts, RecordFacts
  <2>3. /\ F \in Stores /\ SameRecords(F, S) /\ F[j].running = now
        /\ \A i \in DOMAIN S \ {j} : F[i] = S[i]
    BY <1>1, <1>2, <1>3, MarkFacts
  <2> HIDE DEF F
  <2>4. /\ c \in Claims /\ ClaimOK(c, now) /\ c.claimed = now
        /\ S[j].enabled \/ c.released
    <3>1. now \in MaybeTimes /\ now # NoTime /\ Claimed \in Claims /\ Claimed.claimed = now
          /\ ClaimOK(Claimed, now)
      BY <1>1, TimeFacts, NewClaimFacts
    <3>2. (~S[j].enabled) \in BOOLEAN
      OBVIOUS
    <3> DEFINE off == ~S[j].enabled
    <3>3. off \in BOOLEAN /\ (S[j].enabled \/ off)
      OBVIOUS
    <3> HIDE DEF off
    <3>4. c = [Claimed EXCEPT !.st = "running", !.started = now, !.released = off]
      BY DEF off
    <3> HIDE DEF c
    <3> QED
      BY <3>1, <3>3, <3>4 DEF Claims, ClaimOK
  <2> HIDE DEF c
  <2>5. C \in Batches /\ DOMAIN C = {j} /\ C[j] = c
    <3>1. C \in [{j} -> Claims]
      BY <2>4
    <3> QED
      BY <3>1 DEF Batches
  <2> HIDE DEF C
  <2>6. v \in Service /\ v.phase = w.phase /\ v.store = F /\ v.timer = w.timer /\ v.tick = w.tick
    BY <1>1, <2>3 DEF Service
  <2> HIDE DEF v
  <2>7. PICK b \in [Sources -> Batches] :
          /\ Becomes(api, v, b) /\ b["manual"] = C
          /\ \A other \in Sources : other # "manual" => b[other] = batch[api][other]
    BY <1>1, <2>1, <2>5, ClaimedFacts
  <2>8. ServiceOK(v, b, fresh', now)
    <3>1. \A src \in Sources : \A i \in DOMAIN b[src] : ClaimOK(b[src][i], now) /\ i \notin fresh
      BY <1>1, <1>2, <1>3, <2>1, <2>4, <2>5, <2>7, ClaimsAreOK
    <3>2. b["startup"] = batch[api]["startup"] /\ b["timer"] = batch[api]["timer"]
      BY <2>7 DEF Sources
    <3> QED
      BY <1>1, <1>2, <1>3, <2>3, <2>6, <3>1, <3>2 DEF ServiceOK, Loaded, SameRecords
  <2>9. ASSUME replacements = 0 PROVE SoleService(v, disk', b, now)
    <3>1. Marks(F, S, b["manual"], now)
      BY <1>2, <2>2, <2>3, <2>4, <2>5, <2>7 DEF Marks, SameRecords, SameRecord
    <3>2. MarkedIn(F, b, now) /\ ClaimedOnceIn(b, now)
      BY <1>1, <1>3, <2>1, <2>3, <2>7, <2>9, <3>1, NewClaims
    <3>3. WellTimed(F) /\ SameRecords(F, disk) /\ (Wakes(F) <=> Wakes(disk))
      BY <1>1, <1>3, <2>3, <2>9, SameFacts, SameTransitive
    <3> QED
      BY <1>1, <2>1, <2>6, <2>9, <3>2, <3>3, WrittenStore DEF SoleService
  <2> QED
    BY <1>1, <1>2, <1>3, <2>1, <2>3, <2>6, <2>7, <2>8, <2>9, OneServiceMoves DEF SameRecords
<1>5. CASE ~begins
  <2> DEFINE v == [w EXCEPT !.store = S]
  <2>1. Turns(api, v) /\ batch' = batch /\ disk' = disk
    BY <1>5 DEF PrepareRun, Turns
  <2> HIDE DEF S
  <2>2. v \in Service /\ v.phase = w.phase /\ v.store = S /\ v.timer = w.timer /\ v.tick = w.tick
    BY <1>1, <1>3 DEF Service
  <2> HIDE DEF v
  <2>3. Becomes(api, v, batch[api])
    BY <1>1, <2>1, BatchesStay
  <2>4. ServiceOK(v, batch[api], fresh', now)
    BY <1>1, <1>2, <1>3, <2>2 DEF ServiceOK
  <2>5. ASSUME replacements = 0 PROVE SoleService(v, disk', batch[api], now)
    <3>1. SameRecords(S, disk)
      BY <1>1, <1>3, <2>5, SameTransitive
    <3> QED
      BY <1>1, <1>3, <2>1, <2>2, <2>5, <3>1 DEF SoleService
  <2> QED
    BY <1>1, <1>2, <2>1, <2>2, <2>3, <2>4, <2>5, OneServiceMoves
<1> QED
  BY <1>4, <1>5

\* The store once a manual execution of j has been put into it, the outcome T[j] of which was
\* computed from the store S in memory.
LEMMA MergedStore ==
  ASSUME NEW S \in Stores, NEW X \in Batches, NEW t, Done(X, t), NEW T, T = Recorded(S, X),
         disk \in Stores, NEW j \in DOMAIN X, NEW M,
         M = [i \in {k \in DOMAIN disk : k = j => k \in DOMAIN T} |->
                IF i = j THEN [T[j] EXCEPT !.at = disk[j].at] ELSE disk[i]]
  PROVE  /\ M \in Stores /\ DOMAIN M \subseteq DOMAIN disk
         /\ \A i \in DOMAIN M \ DOMAIN X : M[i] = disk[i]
         /\ \A i \in DOMAIN disk : i # j => i \in DOMAIN M /\ M[i] = disk[i]
         /\ SameRecords(S, disk) /\ Timely(disk) => Timely(M)
<1> DEFINE D == {k \in DOMAIN disk : k = j => k \in DOMAIN T}
<1>1. /\ T \in Stores /\ DOMAIN T \subseteq DOMAIN S
      /\ \A i \in DOMAIN T : T[i] \in Records /\ T[i].at = S[i].at
      /\ Timely(S) => Timely(T)
      /\ DOMAIN disk \subseteq Jobs /\ \A i \in DOMAIN disk : disk[i] \in Records
  BY RecordedFacts, StoreFacts
<1>2. M = [i \in D |-> IF i = j THEN [T[j] EXCEPT !.at = disk[j].at] ELSE disk[i]]
  OBVIOUS
<1>3. /\ D \subseteq DOMAIN disk /\ (\A i \in DOMAIN disk : i # j => i \in D)
      /\ (j \in D => j \in DOMAIN T)
  OBVIOUS
<1> HIDE DEF D
<1>4. DOMAIN M = D /\ \A i \in D : i # j => M[i] = disk[i]
  BY <1>2
<1>5. ASSUME j \in D
      PROVE  /\ M[j] \in Records /\ M[j].at = disk[j].at /\ M[j].enabled = T[j].enabled
             /\ M[j].next = T[j].next /\ M[j].status = T[j].status /\ M[j].last = T[j].last
             /\ j \in DOMAIN T /\ j \in DOMAIN disk
  <2>1. M[j] = [T[j] EXCEPT !.at = disk[j].at] /\ T[j] \in Records /\ disk[j] \in Records
    BY <1>1, <1>2, <1>3, <1>5
  <2> QED
    BY <1>3, <1>5, <2>1 DEF Records
<1>6. M \in Stores
  <2>1. \A i \in D : M[i] \in Records
    BY <1>1, <1>3, <1>4, <1>5
  <2>2. M \in [D -> Records]
    BY <1>2, <2>1
  <2> QED
    BY <1>1, <1>3, <2>2, StoreIntro
<1>7. ASSUME SameRecords(S, disk), Timely(disk) PROVE Timely(M)
  <2>1. Timely(S)
    BY <1>7 DEF Timely, SameRecords, SameRecord, Succeeded
  <2>2. Timely(T)
    BY <1>1, <2>1
  <2>3. j \in D => M[j].at = T[j].at
    BY <1>1, <1>5, <1>7 DEF SameRecords, SameRecord
  <2>4. j \in D => (M[j].enabled /\ M[j].next # NoTime => ~Succeeded(j, M[j]))
    BY <1>5, <2>2, <2>3 DEF Timely, Succeeded
  <2> QED
    BY <1>3, <1>4, <1>7, <2>4 DEF Timely
<1> QED
  BY <1>3, <1>4, <1>6, <1>7

LEMMA RecordRunIsSound ==
  ASSUME CronIInv, NEW s \in Services, NEW j, RecordRun(s, j) PROVE CronIInv'
<1> DEFINE w == svc[s]
           X == batch[s]["manual"]
           T == Recorded(w.store, X)
           M == [i \in {k \in DOMAIN disk : k = j => k \in DOMAIN T} |->
                   IF i = j THEN [T[j] EXCEPT !.at = disk[j].at] ELSE disk[i]]
           R == RecomputeForMaintenance(M)
<1>1. /\ w \in Service /\ batch[s] \in [Sources -> Batches] /\ X \in Batches /\ j \in DOMAIN X
      /\ ServiceOK(w, batch[s], fresh, now) /\ now \in Times /\ w.store \in Stores
      /\ disk \in Stores /\ DOMAIN disk \cap fresh = {} /\ "manual" \in Sources
      /\ svc \in [Services -> Service]
  BY ServiceHere, ServiceFacts, CronTypes DEF RecordRun, Sources
<1>2. Loaded(w) /\ w.phase # "off"
  BY <1>1, ActiveIsLoaded
<1>3. /\ Executed(s, "manual") /\ Forget(s, "manual")
      /\ UNCHANGED <<now, fresh, api, scheduler, replacements>>
  BY DEF RecordRun, outside, bounds
<1>4. replacements = 0 => SoleService(w, disk, batch[s], now)
  BY <1>2, WorkingService DEF Works
<1>5. CASE j \in DOMAIN w.store
  <2> DEFINE v == [[[w EXCEPT !.owns = FALSE] EXCEPT !.timer = Wakes(R)] EXCEPT !.store = R]
  <2>1. disk' = R /\ Turns(s, v)
    BY <1>5 DEF RecordRun, PersistAndArm, Persist, Turns
  <2> HIDE DEF v
  <2>2. PICK b \in [Sources -> Batches] :
          /\ Becomes(s, v, b) /\ Lessens(b, batch[s]) /\ Unmarked(b, DOMAIN X)
          /\ \A other \in Sources : other # "manual" =>
               (b[other] = Nothing <=> batch[s][other] = Nothing)
    BY <1>1, <1>3, <2>1, ForgetFacts
  <2>3. Done(X, now)
    BY <1>1, <1>3 DEF Done, Executed, ServiceOK
  <2> HIDE DEF X
  <2>4. /\ M \in Stores /\ DOMAIN M \subseteq DOMAIN disk
        /\ \A i \in DOMAIN M \ DOMAIN X : M[i] = disk[i]
        /\ SameRecords(w.store, disk) /\ Timely(disk) => Timely(M)
    BY <1>1, <2>3, MergedStore
  <2> HIDE DEF M
  <2>5. Refreshed(R, M)
    BY <1>1, <2>4, MaintenanceFacts
  <2>6. R \in Stores /\ DOMAIN R = DOMAIN M /\ KeepsMarks(R, M, {}, now) /\ Wakes(R) \in BOOLEAN
    BY <1>1, <2>4, <2>5, WalkKeepsMarks DEF Refreshed, Wakes
  <2> HIDE DEF R
  <2>7. KeepsMarks(R, disk, DOMAIN X, now)
    BY <2>4, <2>6 DEF KeepsMarks
  <2>8. v \in Service /\ v.phase = w.phase /\ v.store = R /\ v.timer = Wakes(R) /\ v.tick = w.tick
    BY <1>1, <2>6 DEF Service, v
  <2>9. ServiceOK(v, b, fresh', now)
    <3>1. \A by \in Sources : \A i \in DOMAIN b[by] : ClaimOK(b[by][i], now) /\ i \notin fresh
      BY <1>1, <2>2, LessenedClaims
    <3> QED
      BY <1>1, <1>2, <1>3, <2>2, <2>4, <2>6, <2>8, <3>1 DEF ServiceOK, Loaded, Sources
  <2>10. ASSUME replacements = 0 PROVE SoleService(v, disk', b, now)
    <3>1. /\ WellTimed(disk) /\ SameRecords(w.store, disk) /\ MarkedIn(disk, batch[s], now)
          /\ ClaimedOnceIn(batch[s], now)
      BY <1>2, <1>4, <2>10 DEF SoleService
    <3>2. WellTimed(R)
      BY <2>4, <2>5, <3>1, WellTimedFacts DEF Refreshed
    <3>3. Follows(b, batch[s])
      BY <2>2, LessenedFollows
    <3>4. MarkedIn(R, b, now) /\ ClaimedOnceIn(b, now)
      BY <1>1, <2>2, <2>6, <2>7, <3>1, <3>3, StaysMarked
    <3> QED
      BY <2>1, <2>8, <3>2, <3>4, WrittenStore
  <2> QED
    BY <1>1, <1>2, <1>3, <2>1, <2>2, <2>4, <2>6, <2>8, <2>9, <2>10, OneServiceMoves
<1>6. CASE j \notin DOMAIN w.store
  <2>1. disk' = disk /\ Turns(s, w)
    BY <1>1, <1>6 DEF RecordRun, Turns
  <2>2. PICK b \in [Sources -> Batches] :
          /\ Becomes(s, w, b) /\ Lessens(b, batch[s])
          /\ \A other \in Sources : other # "manual" =>
               (b[other] = Nothing <=> batch[s][other] = Nothing)
    BY <1>1, <1>3, <2>1, ForgetFacts
  <2>3. ServiceOK(w, b, fresh', now)
    <3>1. \A by \in Sources : \A i \in DOMAIN b[by] : ClaimOK(b[by][i], now) /\ i \notin fresh
      BY <1>1, <2>2, LessenedClaims
    <3> QED
      BY <1>1, <1>2, <1>3, <2>2, <3>1 DEF ServiceOK, Loaded, Sources
  <2>4. replacements = 0 => SoleService(w, disk', b, now)
    BY <1>2, <2>1, <2>2, LessenedFollows, MovesAreSound
  <2> QED
    BY <1>1, <1>2, <1>3, <2>1, <2>2, <2>3, <2>4, OneServiceMoves
<1> QED
  BY <1>5, <1>6

-----------------------------------------------------------------------------
(* Cron: processes *)

\* A service that is built but has not begun.
LEMMA BuiltService ==
  ASSUME CronIInv, NEW s \in Services, svc[s].phase = "off",
         NEW v, v = [svc[s] EXCEPT !.phase = "clear"]
  PROVE  /\ v \in Service /\ v.phase = "clear" /\ batch[s] = NoRuns
         /\ ServiceOK(v, batch[s], fresh, now)
<1>1. svc[s] = Off /\ batch[s] = NoRuns
  BY ServiceHere DEF ServiceOK
<1>2. /\ Off \in Service /\ Off.timer = FALSE /\ Off.tick = "idle" /\ DOMAIN Off.store = {}
  BY NothingFacts DEF Off
<1>3. v = [Off EXCEPT !.phase = "clear"]
  BY <1>1
<1>4. /\ v \in Service /\ v.phase = "clear" /\ v.timer = FALSE /\ v.tick = "idle"
      /\ DOMAIN v.store = {}
  BY <1>2, <1>3 DEF Service
<1>5. \A by \in Sources : NoRuns[by] = Nothing /\ DOMAIN NoRuns[by] = {}
  BY NothingFacts
<1> HIDE DEF Off, NoRuns
<1>6. ServiceOK(v, NoRuns, fresh, now)
  BY <1>4, <1>5 DEF ServiceOK, Sources
<1> QED
  BY <1>1, <1>4, <1>6

LEMMA BootIsSound ==
  ASSUME CronIInv, Boot PROVE CronIInv'
<1> DEFINE v == [svc[api] EXCEPT !.phase = "clear"]
<1>1. /\ api \in Services /\ \A s \in Services : svc[s].phase = "off"
      /\ svc \in [Services -> Service]
      /\ replacements = 0 => SoleService(svc[api], disk, batch[api], now)
  BY DEF Boot, CronIInv
<1>2. /\ svc' = [svc EXCEPT ![api] = v] /\ scheduler' = api
      /\ UNCHANGED <<now, disk, fresh, batch, api, replacements>>
  BY <1>1 DEF Boot, bounds
<1>3. /\ v \in Service /\ v.phase = "clear" /\ batch[api] = NoRuns
      /\ ServiceOK(v, batch[api], fresh, now)
  BY <1>1, BuiltService
<1> HIDE DEF v
<1>4. /\ svc' \in [Services -> Service] /\ svc'[api] = v
      /\ \A s \in Services : s # api => svc'[s] = svc[s]
  BY <1>1, <1>2, <1>3
<1>5. replacements = 0 => SoleService(v, disk, batch[api], now)
  BY <1>1, <1>3 DEF SoleService, Loaded
<1> QED
  BY <1>1, <1>2, <1>3, <1>4, <1>5 DEF CronIInv

\* A service the timer of which is cleared.
LEMMA StoppedService ==
  ASSUME NEW w \in Service, NEW b, NEW fr, NEW t, ServiceOK(w, b, fr, t), NEW v,
         v = [w EXCEPT !.timer = FALSE]
  PROVE  v \in Service /\ ServiceOK(v, b, fr, t)
<1>1. /\ v \in Service /\ v.phase = w.phase /\ v.tick = w.tick /\ v.store = w.store
      /\ v.timer = FALSE
  BY DEF Service
<1>2. ASSUME w.phase = "off" PROVE v = Off
  <2>1. w = Off
    BY <1>2 DEF ServiceOK
  <2> QED
    BY <2>1 DEF Off
<1> QED
  BY <1>1, <1>2 DEF ServiceOK

LEMMA ReplaceIsSound ==
  ASSUME CronIInv, NEW stopped \in Services, NEW s \in Services, Replace(stopped, s),
         api' \in Services
  PROVE  CronIInv'
<1>1. /\ svc \in [Services -> Service] /\ svc[s].phase = "off"
      /\ svc' = [svc EXCEPT ![stopped].timer = FALSE, ![s].phase = "clear"]
      /\ replacements' = replacements + 1 /\ scheduler' = s /\ replacements \in Nat
      /\ UNCHANGED <<now, disk, fresh, batch>>
      /\ \A u \in Services : svc[u] \in Service /\ ServiceOK(svc[u], batch[u], fresh, now)
  BY DEF Replace, CronIInv
<1>2. svc[s].timer = FALSE
  <2>1. svc[s] = Off
    BY <1>1 DEF ServiceOK
  <2> QED
    BY <2>1 DEF Off
<1>3. \A u \in Services : svc'[u] \in Service /\ ServiceOK(svc'[u], batch[u], fresh, now)
  <2> TAKE u \in Services
  <2>1. CASE u = s
    <3>1. svc'[s] = [svc[s] EXCEPT !.phase = "clear"]
      <4>1. CASE stopped = s
        <5>1. svc'[s] = [[svc[s] EXCEPT !.timer = FALSE] EXCEPT !.phase = "clear"]
          BY <1>1, <4>1
        <5>2. [svc[s] EXCEPT !.timer = FALSE] = svc[s]
          BY <1>1, <1>2 DEF Service
        <5> QED
          BY <5>1, <5>2
      <4>2. CASE stopped # s
        BY <1>1, <4>2
      <4> QED
        BY <4>1, <4>2
    <3> QED
      BY <1>1, <2>1, <3>1, BuiltService
  <2>2. CASE u # s /\ u = stopped
    <3>1. svc'[u] = [svc[u] EXCEPT !.timer = FALSE]
      BY <1>1, <2>2
    <3> QED
      BY <1>1, <3>1, StoppedService
  <2>3. CASE u # s /\ u # stopped
    BY <1>1, <2>3
  <2> QED
    BY <2>1, <2>2, <2>3
<1>4. svc' \in [Services -> Service]
  <2>1. svc' = [u \in Services |-> svc'[u]]
    BY <1>1
  <2> QED
    BY <1>3, <2>1
<1>5. replacements' \in Nat /\ replacements' # 0
  BY <1>1
<1> QED
  BY <1>1, <1>3, <1>4, <1>5 DEF CronIInv

LEMMA ReplacementsAreSound ==
  ASSUME CronIInv, NEW s \in Services, HotReload(s) \/ RestartInPlace(s) PROVE CronIInv'
<1>1. api \in Services /\ scheduler \in Services
  BY DEF CronIInv
<1>2. CASE HotReload(s)
  BY <1>1, <1>2, ReplaceIsSound DEF HotReload
<1>3. CASE RestartInPlace(s)
  BY <1>1, <1>3, ReplaceIsSound DEF RestartInPlace
<1> QED
  BY <1>2, <1>3

\* Services none of which is built, on a store file that is well timed.
LEMMA NothingBuilt ==
  ASSUME NEW D, NEW fr, NEW t
  PROVE  /\ ServiceOK(Off, NoRuns, fr, t)
         /\ WellTimed(D) => SoleService(Off, D, NoRuns, t)
<1>1. \A by \in Sources : NoRuns[by] = Nothing /\ DOMAIN NoRuns[by] = {}
  BY NothingFacts
<1>2. Off.phase = "off" /\ Off.timer = FALSE /\ Off.tick = "idle" /\ DOMAIN Off.store = {}
  BY NothingFacts DEF Off
<1> HIDE DEF NoRuns, Off
<1>3. ServiceOK(Off, NoRuns, fr, t)
  BY <1>1, <1>2 DEF ServiceOK, Sources
<1>4. MarkedIn(D, NoRuns, t) /\ ClaimedOnceIn(NoRuns, t)
  BY <1>1 DEF MarkedIn, ClaimedOnceIn
<1> QED
  BY <1>2, <1>3, <1>4 DEF SoleService, Loaded

LEMMA CrashIsSound ==
  ASSUME CronIInv, Crash PROVE CronIInv'
<1>1. /\ svc' = [s \in Services |-> Off] /\ batch' = [s \in Services |-> NoRuns]
      /\ UNCHANGED <<now, disk, fresh, api, scheduler, replacements>>
  BY DEF Crash
<1>2. /\ svc' \in [Services -> Service] /\ batch' \in [Services -> [Sources -> Batches]]
      /\ \A s \in Services : svc'[s] = Off /\ batch'[s] = NoRuns /\ svc'[s].phase = "off"
  BY <1>1, NothingFacts DEF Off
<1>3. /\ now \in Times /\ fresh \subseteq Jobs /\ disk \in Stores /\ DOMAIN disk \cap fresh = {}
      /\ api \in Services /\ scheduler \in Services /\ replacements \in Nat
      /\ replacements = 0 => scheduler = api /\ WellTimed(disk)
  BY DEF CronIInv, SoleService
<1>4. /\ \A s \in Services : ServiceOK(svc'[s], batch'[s], fresh, now)
      /\ replacements = 0 => SoleService(svc'[api], disk, batch'[api], now)
  BY <1>2, <1>3, NothingBuilt
<1> QED
  BY <1>1, <1>2, <1>3, <1>4 DEF CronIInv

LEMMA TickIsSound ==
  ASSUME CronIInv, Tick PROVE CronIInv'
<1>1. /\ now' = now + 1 /\ now < MaxTime
      /\ UNCHANGED <<disk, svc, fresh, batch, api, scheduler, replacements>>
  BY DEF Tick, bounds
<1>2. /\ now \in Times /\ now \in Int /\ now' \in Times /\ now' \in Int /\ now <= now'
  BY <1>1, CronTypes, CronBounds DEF Times
<1>3. \A s \in Services : ServiceOK(svc[s], batch[s], fresh, now')
  <2> TAKE s \in Services
  <2>1. ServiceOK(svc[s], batch[s], fresh, now) /\ batch[s] \in [Sources -> Batches]
    BY ServiceHere
  <2>2. ASSUME NEW by \in Sources, NEW j \in DOMAIN batch[s][by]
        PROVE  ClaimOK(batch[s][by][j], now')
    <3>1. batch[s][by][j].claimed \in Int /\ ClaimOK(batch[s][by][j], now)
      BY <2>1, ClaimFacts DEF ServiceOK
    <3> QED
      BY <1>2, <3>1 DEF ClaimOK
  <2> QED
    BY <2>1, <2>2 DEF ServiceOK
<1>4. ASSUME replacements = 0 PROVE SoleService(svc[api], disk, batch[api], now')
  <2>1. /\ api \in Services /\ disk \in Stores /\ batch[api] \in [Sources -> Batches]
        /\ svc[api].store \in Stores /\ SoleService(svc[api], disk, batch[api], now)
    BY <1>4, ServiceHere, ServiceFacts DEF CronIInv
  <2>2. /\ Follows(batch[api], batch[api]) /\ Unmarked(batch[api], {})
        /\ \A S \in Stores : KeepsMarks(S, S, {}, now')
    BY NothingUnmarked, StoreFacts, RecordFacts DEF KeepsMarks
  <2>3. /\ MarkedIn(disk, batch[api], now') /\ ClaimedOnceIn(batch[api], now')
        /\ MarkedIn(svc[api].store, batch[api], now) => MarkedIn(svc[api].store, batch[api], now')
    BY <1>2, <2>1, <2>2, MarksAreKept, ClaimsStayOnce DEF SoleService
  <2> QED
    BY <2>1, <2>3 DEF SoleService
<1> QED
  BY <1>1, <1>2, <1>3, <1>4 DEF CronIInv

LEMMA CronInit == Init => CronIInv
<1> SUFFICES ASSUME Init PROVE CronIInv
  OBVIOUS
<1> DEFINE r(j) == [NewJob(j, 1, TRUE) EXCEPT !.next = NextRun(j, NewJob(j, 1, TRUE), 1)]
<1>1. /\ now = 1 /\ disk = [j \in Stored |-> r(j)] /\ fresh = Jobs \ Stored
      /\ svc = [s \in Services |-> Off] /\ batch = [s \in Services |-> NoRuns]
      /\ api = (CHOOSE s \in Services : TRUE) /\ scheduler = api /\ replacements = 0
  BY DEF Init
<1>2. 1 \in Times /\ Stored \subseteq Jobs /\ api \in Services
  BY <1>1, CronBounds, CronAssumption DEF Times
<1>3. ASSUME NEW j \in Stored
      PROVE  /\ r(j) \in Records /\ r(j).enabled /\ r(j).next # NoTime /\ ~Succeeded(j, r(j))
  <2> DEFINE q == NewJob(j, 1, TRUE)
  <2>1. q \in Records /\ q.enabled /\ q.status = "none"
    BY <1>2, TimeFacts, CronBounds DEF NewJob, Records, MaybeTimes
  <2> HIDE DEF q
  <2>2. ~Succeeded(j, q)
    BY <2>1 DEF Succeeded
  <2>3. NextRun(j, q, 1) \in Int /\ NextRun(j, q, 1) # NoTime
    BY <1>2, <2>1, <2>2, NextRunFacts
  <2>4. r(j) = [q EXCEPT !.next = NextRun(j, q, 1)]
    BY DEF q
  <2> HIDE DEF r
  <2> QED
    BY <2>1, <2>3, <2>4 DEF Records, Succeeded
<1> HIDE DEF r
<1>4. disk \in Stores /\ DOMAIN disk = Stored /\ WellTimed(disk)
  <2>1. disk \in [Stored -> Records]
    BY <1>1, <1>3
  <2> QED
    BY <1>1, <1>2, <1>3, <2>1, StoreIntro DEF WellTimed
<1>5. /\ svc \in [Services -> Service] /\ batch \in [Services -> [Sources -> Batches]]
      /\ \A s \in Services : svc[s] = Off /\ batch[s] = NoRuns /\ svc[s].phase = "off"
  BY <1>1, NothingFacts DEF Off
<1>6. /\ \A s \in Services : ServiceOK(svc[s], batch[s], fresh, now)
      /\ SoleService(svc[api], disk, batch[api], now)
  BY <1>2, <1>4, <1>5, NothingBuilt
<1> QED
  BY <1>1, <1>2, <1>4, <1>5, <1>6 DEF CronIInv

LEMMA CronCallIsSound ==
  ASSUME CronIInv, Calls PROVE CronIInv'
<1>1. CASE Read
  BY <1>1, ReadIsSound
<1>2. CASE \E j \in Jobs : Enable(j) \/ Disable(j) \/ Edit(j) \/ Remove(j)
  BY <1>2, EnableIsSound, DisableIsSound, EditIsSound, RemoveIsSound
<1>3. CASE \E j \in Jobs, at \in 1..MaxTime : Reschedule(j, at)
  BY <1>3, RescheduleIsSound DEF Times
<1>4. CASE \E j \in Jobs, at \in 1..MaxTime, enabled \in BOOLEAN : Add(j, at, enabled)
  BY <1>4, AddIsSound DEF Times
<1>5. CASE \E j \in Jobs, forced \in BOOLEAN : PrepareRun(j, forced)
  BY <1>5, PrepareRunIsSound
<1> QED
  BY <1>1, <1>2, <1>3, <1>4, <1>5 DEF Calls

LEMMA CronStep == CronIInv /\ [Next]_vars => CronIInv'
<1> SUFFICES ASSUME CronIInv, [Next]_vars PROVE CronIInv'
  OBVIOUS
<1>1. ASSUME NEW s \in Services, TimerStep(s) PROVE CronIInv'
  BY <1>1, OnTimerIsSound, CollectDueJobsIsSound, RecordDueJobsIsSound, EndTickIsSound,
     RunDueJobIsSound DEF TimerStep
<1>2. ASSUME NEW s \in Services, StartStep(s) PROVE CronIInv'
  BY <1>2, ClearMarkersIsSound, CollectMissedJobsIsSound, RecordMissedJobsIsSound,
     FinishStartIsSound, RunMissedJobIsSound DEF StartStep
<1>3. ASSUME NEW s \in Services, Execution(s) PROVE CronIInv'
  BY <1>3, ExecutionEndsIsSound, RecordRunIsSound DEF Execution
<1>4. CASE UNCHANGED vars
  BY <1>4 DEF vars, CronIInv
<1> QED
  BY <1>1, <1>2, <1>3, <1>4, CronCallIsSound, ReplacementsAreSound, BootIsSound, CrashIsSound,
     TickIsSound DEF Next

LEMMA CronIsKept == Spec => []CronIInv
<1> QED
  BY CronInit, CronStep, PTL DEF Spec

\* The types that TypeOK names.
LEMMA CronTypesHold == CronIInv => TypeOK
<1> SUFFICES ASSUME CronIInv PROVE TypeOK
  OBVIOUS
<1>1. \A S \in Stores : IsStore(S)
  BY StoreFacts DEF IsStore
<1>2. /\ now \in Times /\ fresh \subseteq Jobs /\ DOMAIN disk \cap fresh = {}
      /\ disk \in Stores /\ api \in Services /\ scheduler \in Services
  BY DEF CronIInv
<1>3. ASSUME NEW s \in Services
      PROVE  /\ svc[s] \in [phase : {"off", "clear", "collect", "catchup", "recompute", "up"},
                            store : {svc[s].store}, timer : BOOLEAN,
                            tick : {"idle", "collect", "run", "finally"}, owns : BOOLEAN,
                            interrupted : SUBSET Jobs, kept : SUBSET Jobs]
             /\ IsStore(svc[s].store)
             /\ svc[s].tick = "run" <=> batch[s]["timer"] # Nothing
             /\ svc[s].phase = "catchup" <=> batch[s]["startup"] # Nothing
             /\ svc[s].phase = "off" => svc[s] = Off /\ batch[s] = NoRuns
  <2>1. svc[s] \in Service /\ ServiceOK(svc[s], batch[s], fresh, now)
    BY ServiceHere
  <2>2. svc[s].store \in Stores
    BY <2>1, ServiceFacts
  <2> QED
    BY <1>1, <2>1, <2>2 DEF Service, ServiceOK
<1> QED
  BY <1>1, <1>2, <1>3 DEF TypeOK

\* An execution that has begun is of the service that works on the store.
LEMMA RunsAreOfTheService ==
  ASSUME CronIInv, replacements = 0, NEW x \in Runs
  PROVE  /\ x = <<api, x[2], x[3]>> /\ x[2] \in Sources /\ x[3] \in DOMAIN batch[api][x[2]]
         /\ Run(x) = batch[api][x[2]][x[3]]
<1>1. /\ x \in Services \X Sources \X Jobs /\ x[3] \in DOMAIN batch[x[1]][x[2]]
      /\ x[1] \in Services /\ x[2] \in Sources /\ x = <<x[1], x[2], x[3]>>
  BY DEF Runs
<1>2. svc[x[1]].phase # "off"
  <2>1. ServiceOK(svc[x[1]], batch[x[1]], fresh, now)
    BY <1>1, ServiceHere
  <2> QED
    BY <1>1, <2>1, ActiveIsLoaded
<1>3. x[1] = api
  BY <1>1, <1>2 DEF CronIInv
<1> QED
  BY <1>1, <1>3 DEF Run

\* Whatever services and jobs there are and however they crash and are replaced: the state is
\* well formed; and while one service works on the store, what is executing has its marker in
\* the file, is claimed once, a one-shot that has succeeded has no next run, and a next run in
\* the file has something that wakes the service (timer.ts, ops.ts, jobs.ts).
THEOREM CronIsSound == Spec => []ClaimsAreSound
<1>1. CronIInv => ClaimsAreSound
  <2> SUFFICES ASSUME CronIInv PROVE ClaimsAreSound
    OBVIOUS
  <2>1. TypeOK
    BY CronTypesHold
  <2>2. replacements = 0 => SoleService(svc[api], disk, batch[api], now) /\ api \in Services
    BY DEF CronIInv
  <2>3. MarkedWhileExecuting
    <3> SUFFICES ASSUME replacements = 0, NEW x \in Runs, Holds(x), x[3] \in DOMAIN disk
                 PROVE  disk[x[3]].running # NoTime
      BY DEF MarkedWhileExecuting
    <3>1. /\ x[2] \in Sources /\ x[3] \in DOMAIN batch[api][x[2]]
          /\ Run(x) = batch[api][x[2]][x[3]]
      BY RunsAreOfTheService
    <3>2. HasMarker(batch[api][x[2]][x[3]], now)
      BY <3>1 DEF Holds, HasMarker
    <3> QED
      BY <2>2, <3>1, <3>2 DEF SoleService, MarkedIn
  <2>4. ClaimedOnce
    <3> SUFFICES ASSUME replacements = 0, NEW x \in Runs, NEW y \in Runs, x[3] = y[3],
                        Holds(x), Holds(y)
                 PROVE  x = y
      BY DEF ClaimedOnce
    <3>1. /\ x = <<api, x[2], x[3]>> /\ y = <<api, y[2], y[3]>>
          /\ x[2] \in Sources /\ x[3] \in DOMAIN batch[api][x[2]]
          /\ y[2] \in Sources /\ y[3] \in DOMAIN batch[api][y[2]]
          /\ Run(x) = batch[api][x[2]][x[3]] /\ Run(y) = batch[api][y[2]][y[3]]
      BY RunsAreOfTheService
    <3>2. HasMarker(batch[api][x[2]][x[3]], now) /\ HasMarker(batch[api][y[2]][x[3]], now)
      BY <3>1 DEF Holds, HasMarker
    <3>3. x[2] = y[2]
      BY <2>2, <3>1, <3>2 DEF SoleService, ClaimedOnceIn
    <3> QED
      BY <3>1, <3>3
  <2>5. SucceededStaysDone
    BY <2>2 DEF SucceededStaysDone, SoleService, WellTimed, Succeeded
  <2>6. SomethingWakes
    <3> SUFFICES ASSUME replacements = 0, NEW s \in Services, svc[s].phase # "off", Wakes(disk)
                 PROVE  \E u \in Services : svc[u].timer \/ svc[u].tick # "idle"
                                              \/ svc[u].phase \notin {"off", "up"}
      BY DEF SomethingWakes
    <3>1. s = api
      BY DEF CronIInv
    <3>2. ~(svc[s].phase = "up" /\ svc[s].tick = "idle" /\ ~svc[s].timer)
      BY <2>2, <3>1 DEF SoleService
    <3> QED
      BY <3>2
  <2> QED
    BY <2>1, <2>3, <2>4, <2>5, <2>6 DEF ClaimsAreSound
<1> QED
  BY <1>1, CronIsKept, PTL

-----------------------------------------------------------------------------
(* Cron: due jobs are not put off *)

\* The only service, and the store that it and the file hold.
LEMMA SoleFacts ==
  ASSUME CronIInv, replacements = 0
  PROVE  /\ api \in Services /\ scheduler = api /\ now \in Times /\ disk \in Stores
         /\ WellTimed(disk)
         /\ \A s \in Services : svc[s].phase # "off" => s = api
         /\ Loaded(svc[api]) => /\ svc[api].store \in Stores /\ SameRecords(svc[api].store, disk)
                                /\ WellTimed(svc[api].store)
<1>1. /\ api \in Services /\ scheduler = api /\ now \in Times /\ disk \in Stores
      /\ SoleService(svc[api], disk, batch[api], now)
      /\ \A s \in Services : svc[s].phase # "off" => s = api
  BY DEF CronIInv
<1>2. svc[api].store \in Stores
  BY <1>1, ServiceHere, ServiceFacts
<1> QED
  BY <1>1, <1>2, SameFacts DEF SoleService

\* No job of the store has a next run other than in the file, from a store the records of
\* which are those of the file.
KeepsNext(F, S) ==
  \A j \in DOMAIN F \cap DOMAIN S : S[j].enabled /\ S[j].next # NoTime => F[j].next = S[j].next

LEMMA KeptIsNotMoved ==
  ASSUME NEW S, SameRecords(S, disk), KeepsNext(disk', S), NEW j PROVE ~Moved(j)
BY DEF SameRecords, SameRecord, KeepsNext, Moved

LEMMA MaintenanceKeepsNext ==
  ASSUME now \in Times, NEW S \in Stores PROVE KeepsNext(RecomputeForMaintenance(S), S)
<1>1. \A R : R = RecomputeForMaintenance(S) =>
        \A j \in DOMAIN S : S[j].enabled /\ S[j].next # NoTime => R[j].next = S[j].next
  BY MaintenanceFacts
<1> QED
  BY <1>1 DEF KeepsNext

LEMMA DiskIsItself == SameRecords(disk, disk)
BY DEF SameRecords, SameRecord

\* What excuses that the next run of j is put off.
PutOff(j) ==
  \/ RecordsRunOf(j)
  \/ Enable(j) \/ \E at \in Times : Reschedule(j, at)
  \/ fresh' # fresh
  \/ svc'[scheduler].phase = "up" /\ svc[scheduler].phase # "up"

\* Executions X of a service that are recorded, and no others.
LEMMA RecordedRuns ==
  ASSUME CronIInv, NEW s \in Services, NEW by \in Sources, Forget(s, by),
         NEW j \in DOMAIN batch[s][by]
  PROVE  RecordsRunOf(j)
<1>1. batch \in [Services -> [Sources -> Batches]] /\ batch[s][by] \in Batches
  BY CronTypes
<1>2. j \in Jobs
  BY <1>1, BatchFacts
<1>3. <<s, by, j>> \in Runs
  BY <1>2 DEF Runs
<1> DEFINE B == [batch EXCEPT ![s][by] = Nothing]
<1>4. B[s][by] = Nothing
  BY <1>1
<1>5. batch' = Released(B, DOMAIN batch[s][by])
  BY DEF Forget
<1> HIDE DEF B
<1>6. DOMAIN batch'[s][by] = DOMAIN B[s][by]
  BY <1>5 DEF Released
<1>7. j \notin DOMAIN batch'[s][by]
  BY <1>4, <1>6, NothingFacts
<1> QED
  BY <1>3, <1>7 DEF RecordsRunOf

\* The jobs of the store that are not recorded keep their next run.
LEMMA RecordingKeepsOthers ==
  ASSUME CronIInv, NEW s \in Services, NEW by \in Sources, Executed(s, by), Forget(s, by),
         disk' = RecomputeForMaintenance(Recorded(disk, batch[s][by])), NEW j, Moved(j)
  PROVE  RecordsRunOf(j)
<1> DEFINE X == batch[s][by]
           S == Recorded(disk, X)
<1>1. /\ now \in Times /\ disk \in Stores /\ X \in Batches
      /\ ServiceOK(svc[s], batch[s], fresh, now)
  BY CronTypes, ServiceHere
<1>2. Done(X, now)
  BY <1>1 DEF Done, Executed, ServiceOK
<1>3. CASE j \in DOMAIN X
  BY <1>3, RecordedRuns
<1>4. CASE j \notin DOMAIN X
  <2> HIDE DEF X
  <2>1. S \in Stores /\ \A i \in DOMAIN disk \ DOMAIN X : i \in DOMAIN S /\ S[i] = disk[i]
    BY <1>1, <1>2, RecordedFacts
  <2>2. disk' = RecomputeForMaintenance(S)
    BY DEF X
  <2> HIDE DEF S
  <2>3. KeepsNext(disk', S)
    BY <1>1, <2>1, <2>2, MaintenanceKeepsNext
  <2> QED
    BY <1>4, <2>1, <2>3 DEF KeepsNext, Moved
<1> QED
  BY <1>3, <1>4

LEMMA TimerKeepsDueJobs ==
  ASSUME CronIInv, replacements = 0, NEW s \in Services, TimerStep(s), NEW j, Moved(j)
  PROVE  RecordsRunOf(j)
<1>1. now \in Times /\ disk \in Stores
  BY CronTypes
<1>2. disk' # disk
  BY DEF Moved
<1>3. CASE CollectDueJobs(s)
  <2> DEFINE due == {i \in DOMAIN disk : Runnable(disk[i])}
  <2>1. disk' = RecomputeForMaintenance(disk) \/ disk' = Mark(disk, due)
    BY <1>3 DEF CollectDueJobs, Persist
  <2>2. KeepsNext(Mark(disk, due), disk)
    BY <1>1, MarkFacts DEF SameRecords, SameRecord, KeepsNext
  <2>3. KeepsNext(RecomputeForMaintenance(disk), disk)
    BY <1>1, MaintenanceKeepsNext
  <2> QED
    BY <2>1, <2>2, <2>3, DiskIsItself, KeptIsNotMoved
<1>4. CASE RecordDueJobs(s)
  BY <1>4, RecordingKeepsOthers DEF RecordDueJobs, Persist, Sources
<1>5. CASE OnTimer(s) \/ EndTick(s) \/ \E i \in Jobs : RunDueJob(s, i)
  BY <1>2, <1>5 DEF OnTimer, EndTick, RunDueJob
<1> QED
  BY <1>3, <1>4, <1>5 DEF TimerStep

LEMMA StartKeepsDueJobs ==
  ASSUME CronIInv, replacements = 0, NEW s \in Services, StartStep(s), NEW j, Moved(j)
  PROVE  PutOff(j)
<1>1. now \in Times /\ disk \in Stores
  BY CronTypes
<1>2. disk' # disk
  BY DEF Moved
<1>3. CASE ClearMarkers(s)
  <2>1. disk' = [i \in DOMAIN disk |-> [disk[i] EXCEPT !.running = NoTime]]
    BY <1>3 DEF ClearMarkers, Persist
  <2>2. \A i \in DOMAIN disk : disk[i] \in Records
    BY <1>1, StoreFacts
  <2>3. KeepsNext(disk', disk)
    BY <2>1, <2>2 DEF KeepsNext, Records
  <2> QED
    BY <2>3, DiskIsItself, KeptIsNotMoved
<1>4. CASE CollectMissedJobs(s)
  <2> DEFINE S == svc[s].store
             missed == {i \in DOMAIN S \ svc[s].interrupted : Missed(i, S[i])}
  <2>1. disk' = Mark(S, missed)
    BY <1>2, <1>4 DEF CollectMissedJobs, Persist
  <2>2. S \in Stores /\ SameRecords(S, disk)
    <3>1. svc[s].phase = "collect"
      BY <1>4 DEF CollectMissedJobs
    <3> QED
      BY <3>1, SoleFacts DEF Loaded
  <2>3. KeepsNext(disk', S)
    BY <1>1, <2>1, <2>2, MarkFacts DEF SameRecords, SameRecord, KeepsNext
  <2> QED
    BY <2>2, <2>3, KeptIsNotMoved
<1>5. CASE RecordMissedJobs(s)
  BY <1>5, RecordingKeepsOthers DEF RecordMissedJobs, Persist, Sources, PutOff
<1>6. CASE FinishStart(s)
  <2>1. svc[s].phase = "recompute" /\ svc \in [Services -> Service]
    BY <1>6, CronTypes DEF FinishStart
  <2>2. s = api /\ scheduler = api
    BY <2>1, SoleFacts
  <2>3. svc'[s].phase = "up"
    <3> DEFINE u == [svc[s] EXCEPT !.phase = "up", !.owns = FALSE, !.interrupted = {}, !.kept = {}]
               v == [[u EXCEPT !.timer = Wakes(RecomputeNextRuns(disk))]
                       EXCEPT !.store = RecomputeNextRuns(disk)]
    <3>1. svc'[s] = v
      BY <1>6, <2>1 DEF FinishStart, PersistAndArm, Persist
    <3>2. v.phase = "up"
      BY <2>1 DEF Service
    <3> QED
      BY <3>1, <3>2
  <2> QED
    BY <2>1, <2>2, <2>3 DEF PutOff
<1>7. CASE \E i \in Jobs : RunMissedJob(s, i)
  BY <1>2, <1>7 DEF RunMissedJob
<1> QED
  BY <1>3, <1>4, <1>5, <1>6, <1>7 DEF StartStep

LEMMA ExecutionKeepsDueJobs ==
  ASSUME CronIInv, replacements = 0, NEW s \in Services, Execution(s), NEW j, Moved(j)
  PROVE  RecordsRunOf(j)
<1>1. disk' # disk
  BY DEF Moved
<1>2. PICK i \in Jobs : RecordRun(s, i)
  BY <1>1 DEF Execution, ExecutionEnds
<1> DEFINE X == batch[s]["manual"]
           T == Recorded(svc[s].store, X)
           M == [k \in {l \in DOMAIN disk : l = i => l \in DOMAIN T} |->
                   IF k = i THEN [T[i] EXCEPT !.at = disk[i].at] ELSE disk[k]]
<1>3. /\ disk' = RecomputeForMaintenance(M) /\ i \in DOMAIN X
      /\ Executed(s, "manual") /\ Forget(s, "manual") /\ "manual" \in Sources
  BY <1>1, <1>2 DEF RecordRun, PersistAndArm, Persist, Sources
<1>4. CASE j = i
  BY <1>3, <1>4, RecordedRuns
<1>5. CASE j # i
  <2>1. /\ now \in Times /\ disk \in Stores /\ X \in Batches /\ svc[s].store \in Stores
        /\ ServiceOK(svc[s], batch[s], fresh, now)
    BY <1>3, CronTypes, ServiceHere, ServiceFacts
  <2>2. Done(X, now)
    BY <1>3, <2>1 DEF Done, Executed, ServiceOK
  <2> HIDE DEF X
  <2>3. M \in Stores /\ \A k \in DOMAIN disk : k # i => k \in DOMAIN M /\ M[k] = disk[k]
    BY <1>3, <2>1, <2>2, MergedStore
  <2> HIDE DEF M
  <2>4. KeepsNext(disk', M)
    BY <1>3, <2>1, <2>3, MaintenanceKeepsNext
  <2> QED
    BY <1>5, <2>3, <2>4 DEF KeepsNext, Moved
<1> QED
  BY <1>4, <1>5

LEMMA CallsKeepDueJobs ==
  ASSUME CronIInv, replacements = 0, Calls, NEW j \in Jobs, Moved(j)
  PROVE  PutOff(j)
<1> DEFINE S == svc[api].store
<1>1. disk' # disk
  BY DEF Moved
<1>2. Answers
  BY DEF Calls, Read, Enable, Disable, Edit, Remove, Reschedule, Add, PrepareRun, Update, Call
<1>3. /\ now \in Times /\ S \in Stores /\ SameRecords(S, disk) /\ DOMAIN S \subseteq Jobs
      /\ \A i \in DOMAIN S : S[i] \in Records
  BY <1>2, SoleFacts, AnsweringService
<1>4. S[j].enabled /\ S[j].next # NoTime /\ j \in DOMAIN S /\ disk[j].next = S[j].next
  BY <1>3 DEF Moved, SameRecords, SameRecord
<1>5. ASSUME NEW i, NEW r, i \in DOMAIN S, Update(i, r),
             i = j => r.next = S[j].next \/ ~r.enabled
      PROVE  FALSE
  <2>1. disk' = [S EXCEPT ![i] = r]
    BY <1>5 DEF Update, PersistAndArm, Persist
  <2>2. disk'[j] = IF i = j THEN r ELSE S[j]
    BY <1>4, <2>1
  <2> QED
    BY <1>4, <1>5, <2>2 DEF Moved
<1>6. CASE Read
  <2>1. disk' = RecomputeForMaintenance(S)
    BY <1>1, <1>6 DEF Read
  <2> QED
    BY <1>3, <2>1, MaintenanceKeepsNext, KeptIsNotMoved
<1>7. ASSUME NEW i \in Jobs, Enable(i) PROVE PutOff(j)
  BY <1>5, <1>7 DEF Enable, PutOff
<1>8. ASSUME NEW i \in Jobs, Disable(i) PROVE FALSE
  <2> DEFINE r == [S[i] EXCEPT !.enabled = FALSE, !.next = NoTime, !.running = NoTime]
  <2>1. i \in DOMAIN S /\ Update(i, r)
    BY <1>8 DEF Disable
  <2>2. ~r.enabled
    BY <1>3, <2>1 DEF Records
  <2> HIDE DEF r
  <2> QED
    BY <1>5, <2>1, <2>2
<1>9. ASSUME NEW i \in Jobs, Edit(i) PROVE FALSE
  <2> DEFINE r == [S[i] EXCEPT !.next = IF Missing(S[i]) THEN ComputeNext(i, S[i], now) ELSE @]
  <2>1. i \in DOMAIN S /\ Update(i, r)
    BY <1>9 DEF Edit
  <2>2. i = j => r.next = S[j].next
    BY <1>3, <1>4, <2>1 DEF Records, Missing
  <2> HIDE DEF r
  <2> QED
    BY <1>5, <2>1, <2>2
<1>10. ASSUME NEW i \in Jobs, NEW at \in 1..MaxTime, Reschedule(i, at) PROVE PutOff(j)
  <2>1. CASE i = j
    BY <1>10, <2>1 DEF PutOff, Times
  <2>2. CASE i # j
    BY <1>5, <1>10, <2>2 DEF Reschedule
  <2> QED
    BY <2>1, <2>2
<1>11. ASSUME NEW i \in Jobs, Remove(i) PROVE FALSE
  <2>1. disk' = Restrict(S, DOMAIN S \ {i})
    BY <1>11 DEF Remove, PersistAndArm, Persist
  <2> QED
    BY <1>4, <2>1 DEF Moved, Restrict
<1>12. ASSUME NEW i \in Jobs, NEW at \in 1..MaxTime, NEW enabled \in BOOLEAN, Add(i, at, enabled)
       PROVE  PutOff(j)
  BY <1>12 DEF Add, PutOff
<1>13. ASSUME NEW i \in Jobs, NEW forced \in BOOLEAN, PrepareRun(i, forced) PROVE FALSE
  <2> DEFINE R == RecomputeForMaintenance(S)
  <2>1. disk' = Mark(R, {i})
    BY <1>1, <1>13 DEF PrepareRun, Persist
  <2>2. R \in Stores /\ SameRecords(R, S)
    BY <1>3, SoleFacts, <1>2, MaintenanceFacts DEF Answers, Loaded, Refreshed
  <2> HIDE DEF R
  <2>3. SameRecords(R, disk)
    BY <1>3, <2>2, SameTransitive
  <2>4. KeepsNext(disk', R)
    BY <1>3, <2>1, <2>2, MarkFacts DEF SameRecords, SameRecord, KeepsNext
  <2> QED
    BY <2>3, <2>4, KeptIsNotMoved
<1> QED
  BY <1>6, <1>7, <1>8, <1>9, <1>10, <1>11, <1>12, <1>13 DEF Calls

\* Whatever the calls and the executions are: while one service works on the store, the next
\* run of a job that is due is moved by the record of an execution of it, by an edit of it,
\* by the addition of a job and by the end of start, and by nothing else (jobs.ts:400).
THEOREM DueJobsStay == Spec => DueJobsAreKept
<1>1. ASSUME CronIInv, [Next]_vars, NEW j \in Jobs, replacements = 0, Moved(j) PROVE PutOff(j)
  <2>1. disk' # disk
    BY <1>1 DEF Moved
  <2>2. ~UNCHANGED vars
    BY <2>1 DEF vars
  <2>3. CASE \E s \in Services : TimerStep(s) \/ StartStep(s) \/ Execution(s)
    BY <1>1, <2>3, TimerKeepsDueJobs, StartKeepsDueJobs, ExecutionKeepsDueJobs DEF PutOff
  <2>4. CASE Calls
    BY <1>1, <2>4, CallsKeepDueJobs
  <2>5. CASE (\E s \in Services : HotReload(s) \/ RestartInPlace(s)) \/ Boot \/ Crash \/ Tick
    BY <2>1, <2>5 DEF HotReload, RestartInPlace, Replace, Boot, Crash, Tick
  <2> QED
    BY <1>1, <2>2, <2>3, <2>4, <2>5 DEF Next
<1>2. CronIInv /\ [Next]_vars =>
        [\A j \in Jobs :
           replacements = 0 /\ Moved(j) =>
             \/ RecordsRunOf(j)
             \/ Enable(j) \/ \E at \in Times : Reschedule(j, at)
             \/ fresh' # fresh
             \/ svc'[scheduler].phase = "up" /\ svc[scheduler].phase # "up"]_vars
  BY <1>1 DEF PutOff
<1> QED
  BY <1>2, CronIsKept, PTL DEF Spec, DueJobsAreKept
==============================================================================
