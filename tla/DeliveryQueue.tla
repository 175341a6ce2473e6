---------------------------- MODULE DeliveryQueue ----------------------------
(***************************************************************************)
(* The write-ahead queue of outbound messages                              *)
(* (Openclaw-Docker/src/infra/outbound/delivery-queue.ts and the wrapper   *)
(* of deliver.ts): an entry is a file that is there from before the first  *)
(* send until the delivery is acknowledged; a gateway that starts replays  *)
(* the entries it finds.                                                   *)
(*                                                                         *)
(* The attempts of a delivery are the call that began it and the           *)
(* recoveries of the gateways started since; in-place restarts let several *)
(* be alive at once.  A step is what happens between two awaits.           *)
(*                                                                         *)
(* Abstractions: what a payload says and how it is cut in chunks; an error *)
(* is transient or permanent; the queue directory is read at one moment;   *)
(* legacy entries are left out.  The file system may refuse to remove, to  *)
(* move or to rewrite an entry.                                            *)
(***************************************************************************)
EXTENDS Integers, FiniteSets, SequencesExt

CONSTANTS
  Deliveries,   \* deliveries
  Left,         \* those that an earlier process left in the queue
  Payloads,     \* payloads of each
  Kinds,        \* kinds of calls: bestEffort, onError given, entry written
  Recoveries,   \* recovery loops that may be alive at once
  MaxRetries,   \* MAX_RETRIES
  Backoff,      \* BACKOFF_MS
  Budget,       \* maxRecoveryMs
  MaxTime,      \* bound: the clock
  MaxCrashes,   \* bound: crashes of the process
  MaxRestarts   \* bound: restarts in place

ASSUME DeliveryAssumption ==
  /\ IsFiniteSet(Deliveries) /\ Left \subseteq Deliveries
  /\ {Payloads, MaxRetries, Budget} \subseteq Nat \ {0}
  /\ Kinds \subseteq [best : BOOLEAN, observed : BOOLEAN, durable : BOOLEAN]
  /\ {MaxTime, MaxCrashes, MaxRestarts} \subseteq Nat
  /\ Backoff \in Seq(Nat \ {0}) /\ Backoff # <<>>

VARIABLES
  now,       \* the clock
  file,      \* the entry of each delivery in the queue and in failed/
  call,      \* the call of deliverOutboundPayloads for each delivery
  recovery,  \* the recovery loops
  settled,   \* payloads that were sent once at least, or cancelled by a hook
  replayed,  \* deliveries a recovery has attempted (history)
  overlap,   \* deliveries replayed while another attempt was alive (history)
  crashes, restarts   \* counters for the bounds

vars == <<now, file, call, recovery, settled, replayed, overlap, crashes, restarts>>
bounds == <<crashes, restarts>>

NoTime == -1
NoFile == [queued |-> FALSE, failed |-> FALSE, retryCount |-> 0, lastAttempt |-> NoTime,
           enqueued |-> 0]
\* durable: the entry was written; observed: the caller gave onError; cut: an AbortError
\* has ended it; read: the retry count failDelivery has read.
NoCall == [st |-> "new", next |-> 1, best |-> FALSE, observed |-> FALSE, durable |-> FALSE,
           aborted |-> FALSE, cut |-> FALSE, partial |-> FALSE, read |-> 0]
NoRecovery == [st |-> "off", pending |-> <<>>, deadline |-> 0, next |-> 1, read |-> 0]

-----------------------------------------------------------------------------
(* Files *)

Unlinked(d) == [file EXCEPT ![d].queued = FALSE]

\* The second half of failDelivery: the file is written whether it is still there
\* or not.
Rewritten(d, read) ==
  [file EXCEPT ![d] = [@ EXCEPT !.queued = TRUE, !.retryCount = read + 1,
                                !.lastAttempt = now]]

\* Mutant: the entry is copied, not moved.
CopiedToFailed(d) == [file EXCEPT ![d].failed = file[d].queued \/ @]

\* moveToFailed
MovedToFailed(d) ==
  IF file[d].queued
  THEN [file EXCEPT ![d].queued = FALSE, ![d].failed = TRUE]
  ELSE file

\* computeBackoffMs of a positive count.
BackoffOf(n) == Backoff[IF n <= Len(Backoff) THEN n ELSE Len(Backoff)]

\* Mutant: the time since the last attempt is not looked at.
EligibleAtOnce(e) == TRUE

\* isEntryEligibleForRecoveryRetry
Eligible(e) ==
  \/ e.retryCount = 0 /\ e.lastAttempt = NoTime
  \/ now >= (IF e.lastAttempt = NoTime THEN e.enqueued ELSE e.lastAttempt)
              + BackoffOf(e.retryCount + 1)

-----------------------------------------------------------------------------
(* The call *)

\* deliverOutboundPayloads up to the first send; the entry may fail to be written.
Begin(d, k) ==
  /\ call[d].st = "new"
  /\ call' = [call EXCEPT ![d] = [@ EXCEPT !.st = "send", !.best = k.best,
                                             !.observed = k.observed, !.durable = k.durable]]
  /\ file' = IF k.durable
             THEN [file EXCEPT ![d].queued = TRUE, ![d].enqueued = now]
             ELSE file
  /\ UNCHANGED <<now, recovery, settled, replayed, overlap, bounds>>

\* The call has ended; what it was doing no longer matters.
Ended(c, st) == [c EXCEPT !.st = st, !.next = 1, !.partial = FALSE, !.read = 0]

\* What a call does that is through with its payloads.
Closing(c) ==
  IF ~c.durable THEN Ended(c, "done") ELSE [c EXCEPT !.st = IF c.partial THEN "fail" ELSE "ack"]

\* Mutant: the call takes one payload too many.
AdvancedOnceMore(c) == IF c.next > Payloads THEN Closing(c) ELSE [c EXCEPT !.next = @ + 1]

\* The call after its payload was dealt with.
Advanced(c) == IF c.next = Payloads THEN Closing(c) ELSE [c EXCEPT !.next = @ + 1]

\* Mutant: every error counts as an abort.
ThrownAlwaysAcked(c, cut) ==
  IF ~c.durable THEN Ended(c, "done") ELSE [c EXCEPT !.st = "ack", !.cut = cut]

\* An error leaves deliverOutboundPayloadsCore; cut: it is an AbortError, by which the
\* delivery counts as made.
Thrown(c, cut) ==
  IF ~c.durable THEN Ended(c, "done")
  ELSE [c EXCEPT !.st = IF cut THEN "ack" ELSE "fail", !.cut = cut]

\* Mutant: a partial failure is not noted.
FailedUnnoticed(c, cut) == IF c.best THEN Advanced(c) ELSE Thrown(c, cut)

\* A payload failed, or the abort signal was seen: under bestEffort it is skipped,
\* and noted when the caller listens.
Failed(c, cut) ==
  IF c.best THEN Advanced([c EXCEPT !.partial = @ \/ c.observed]) ELSE Thrown(c, cut)

Settle(d, p) == settled' = [settled EXCEPT ![d] = @ \cup {p}]

\* deliverOutboundPayloadsCore takes the next payload.  What a send throws may be an
\* AbortError though nobody has aborted the delivery: that of a request whose own time was
\* over (utils/fetch-timeout.ts:31).  Before the first payload the channel may turn out not
\* to be configured, and after the last one the transcript may refuse the mirrored text.
SendPayload(d) ==
  /\ call[d].st = "send"
  /\ \/ /\ ~call[d].aborted
        /\ Settle(d, call[d].next)
        /\ call' = [call EXCEPT ![d] = Advanced(@)]
     \/ /\ \E cut \in BOOLEAN : call' = [call EXCEPT ![d] = Failed(@, cut)]
        /\ UNCHANGED settled
     \/ /\ call[d].next = 1 /\ ~call[d].aborted
        /\ call' = [call EXCEPT ![d] = Thrown(@, FALSE)]
        /\ UNCHANGED settled
     \/ /\ call[d].next = Payloads /\ ~call[d].aborted
        /\ Settle(d, Payloads)
        /\ call' = [call EXCEPT ![d] = Thrown(@, FALSE)]
  /\ UNCHANGED <<now, file, recovery, replayed, overlap, bounds>>

Abort(d) ==
  /\ call[d].st = "send"
  /\ ~call[d].aborted
  /\ call' = [call EXCEPT ![d].aborted = TRUE]
  /\ UNCHANGED <<now, file, recovery, settled, replayed, overlap, bounds>>

\* ackDelivery
Ack(d) ==
  /\ call[d].st = "ack"
  /\ file' \in {Unlinked(d), file}
  /\ call' = [call EXCEPT ![d] = Ended(@, "done")]
  /\ UNCHANGED <<now, recovery, settled, replayed, overlap, bounds>>

\* failDelivery reads the entry, and gives up when it is gone.
ReadToFail(d) ==
  /\ call[d].st = "fail"
  /\ call' = [call EXCEPT ![d] = IF file[d].queued
                                 THEN [@ EXCEPT !.st = "update", !.read = file[d].retryCount]
                                 ELSE Ended(@, "done")]
  /\ UNCHANGED <<now, file, recovery, settled, replayed, overlap, bounds>>

WriteFailed(d) ==
  /\ call[d].st = "update"
  /\ file' \in {Rewritten(d, call[d].read), file}
  /\ call' = [call EXCEPT ![d] = Ended(@, "done")]
  /\ UNCHANGED <<now, recovery, settled, replayed, overlap, bounds>>

-----------------------------------------------------------------------------
(* Recovery *)

Entry(d) == [id |-> d, retryCount |-> file[d].retryCount, lastAttempt |-> file[d].lastAttempt,
             enqueued |-> file[d].enqueued]

\* The entries of a set of deliveries, the oldest first.
Sorted(ds) ==
  {s \in SetToSeqs({Entry(d) : d \in ds}) :
     \A i, j \in DOMAIN s : i < j => s[i].enqueued <= s[j].enqueued}

Alive(c) == c.st \in {"send", "ack", "fail", "update"}
Pending(r) == {recovery[r].pending[i].id : i \in DOMAIN recovery[r].pending}

\* loadPendingDeliveries, sorted.
Load(r) ==
  LET queued == {d \in Deliveries : file[d].queued}
  IN  /\ recovery[r].st = "load"
      /\ \E pending \in Sorted(queued) :
           recovery' = [recovery EXCEPT ![r] =
                          [NoRecovery EXCEPT !.st = "loop", !.pending = pending,
                                             !.deadline = now + Budget]]
      /\ overlap' = overlap \cup
           {d \in queued : Alive(call[d]) \/ \E x \in Recoveries \ {r} : d \in Pending(x)}
      /\ UNCHANGED <<now, file, call, settled, replayed, bounds>>

Current(r) == recovery[r].pending[1]
Passed(r) ==
  [recovery[r] EXCEPT !.st = "loop", !.pending = Tail(@), !.next = 1, !.read = 0]

\* The loop up to the delivery of an entry.
NextEntry(r) ==
  /\ recovery[r].st = "loop"
  /\ \/ /\ recovery[r].pending = <<>> \/ now >= recovery[r].deadline
        /\ recovery' = [recovery EXCEPT ![r] = [NoRecovery EXCEPT !.st = "done"]]
        /\ UNCHANGED replayed
     \/ /\ recovery[r].pending # <<>> /\ now < recovery[r].deadline
        /\ \/ /\ Current(r).retryCount >= MaxRetries
              /\ recovery' = [recovery EXCEPT ![r].st = "move"]
              /\ UNCHANGED replayed
           \/ /\ Current(r).retryCount < MaxRetries
              /\ ~Eligible(Current(r))
              /\ recovery' = [recovery EXCEPT ![r] = Passed(r)]
              /\ UNCHANGED replayed
           \/ /\ Current(r).retryCount < MaxRetries
              /\ Eligible(Current(r))
              /\ recovery' = [recovery EXCEPT ![r].st = "send"]
              /\ replayed' = replayed \cup {Current(r).id}
  /\ UNCHANGED <<now, file, call, settled, overlap, bounds>>

\* A payload of the entry is sent again; nobody listens to what fails under
\* bestEffort.
Resend(r) ==
  LET d == Current(r).id
      on == [recovery[r] EXCEPT !.next = @ + 1,
                                !.st = IF recovery[r].next = Payloads THEN "ack" ELSE "send"]
  IN  /\ recovery[r].st = "send"
      /\ \/ /\ Settle(d, recovery[r].next)
            /\ recovery' = [recovery EXCEPT ![r] = on]
         \/ /\ call[d].best
            /\ recovery' = [recovery EXCEPT ![r] = on]
            /\ UNCHANGED settled
         \/ /\ ~call[d].best \/ recovery[r].next = 1
            /\ \E st \in {"fail", "move"} : recovery' = [recovery EXCEPT ![r].st = st]
            /\ UNCHANGED settled
         \/ /\ recovery[r].next = Payloads
            /\ Settle(d, Payloads)
            /\ \E st \in {"fail", "move"} : recovery' = [recovery EXCEPT ![r].st = st]
      /\ UNCHANGED <<now, file, call, replayed, overlap, bounds>>

\* An entry that cannot be removed counts as failed.
AckRecovered(r) ==
  /\ recovery[r].st = "ack"
  /\ \/ /\ file' = Unlinked(Current(r).id)
        /\ recovery' = [recovery EXCEPT ![r] = Passed(r)]
     \/ /\ file[Current(r).id].queued
        /\ recovery' = [recovery EXCEPT ![r].st = "fail"]
        /\ UNCHANGED file
  /\ UNCHANGED <<now, call, settled, replayed, overlap, bounds>>

MoveToFailed(r) ==
  /\ recovery[r].st = "move"
  /\ file' \in {MovedToFailed(Current(r).id), file}
  /\ recovery' = [recovery EXCEPT ![r] = Passed(r)]
  /\ UNCHANGED <<now, call, settled, replayed, overlap, bounds>>

ReadToFailAgain(r) ==
  LET f == file[Current(r).id] IN
  /\ recovery[r].st = "fail"
  /\ recovery' = [recovery EXCEPT ![r] = IF f.queued
                                         THEN [@ EXCEPT !.st = "update", !.read = f.retryCount]
                                         ELSE Passed(r)]
  /\ UNCHANGED <<now, file, call, settled, replayed, overlap, bounds>>

WriteFailedAgain(r) ==
  /\ recovery[r].st = "update"
  /\ file' \in {Rewritten(Current(r).id, recovery[r].read), file}
  /\ recovery' = [recovery EXCEPT ![r] = Passed(r)]
  /\ UNCHANGED <<now, call, settled, replayed, overlap, bounds>>

-----------------------------------------------------------------------------
(* Gateways *)

\* The process dies, and another begins.
CrashAndRestart(r) ==
  /\ crashes < MaxCrashes
  /\ crashes' = crashes + 1
  /\ call' = [d \in Deliveries |->
                IF Alive(call[d]) THEN Ended(call[d], "dead") ELSE call[d]]
  /\ recovery' = [x \in Recoveries |->
                    IF x = r THEN [NoRecovery EXCEPT !.st = "load"] ELSE NoRecovery]
  /\ UNCHANGED <<now, file, settled, replayed, overlap, restarts>>

\* A gateway starts in a process in which calls and a recovery may be going on.
RestartInPlace(r) ==
  /\ recovery[r].st \in {"off", "done"}
  /\ restarts < MaxRestarts
  /\ restarts' = restarts + 1
  /\ recovery' = [recovery EXCEPT ![r] = [NoRecovery EXCEPT !.st = "load"]]
  /\ UNCHANGED <<now, file, call, settled, replayed, overlap, crashes>>

Tick ==
  /\ now < MaxTime
  /\ now' = now + 1
  /\ UNCHANGED <<file, call, recovery, settled, replayed, overlap, bounds>>

-----------------------------------------------------------------------------
Init ==
  /\ now = 0
  /\ file = [d \in Deliveries |-> [NoFile EXCEPT !.queued = d \in Left]]
  /\ call = [d \in Deliveries |->
               IF d \in Left THEN [NoCall EXCEPT !.st = "dead", !.durable = TRUE] ELSE NoCall]
  /\ \E r \in Recoveries :
       recovery = [x \in Recoveries |->
                     IF x = r THEN [NoRecovery EXCEPT !.st = "load"] ELSE NoRecovery]
  /\ settled = [d \in Deliveries |-> {}]
  /\ replayed = {}
  /\ overlap = {}
  /\ crashes = 0
  /\ restarts = 0

Next ==
  \/ \E d \in Deliveries :
       \/ \E k \in Kinds : Begin(d, k)
       \/ SendPayload(d) \/ Abort(d) \/ Ack(d) \/ ReadToFail(d) \/ WriteFailed(d)
  \/ \E r \in Recoveries :
       \/ Load(r) \/ NextEntry(r) \/ Resend(r) \/ AckRecovered(r) \/ MoveToFailed(r)
       \/ ReadToFailAgain(r) \/ WriteFailedAgain(r)
       \/ CrashAndRestart(r) \/ RestartInPlace(r)
  \/ Tick

Spec == Init /\ [][Next]_vars

-----------------------------------------------------------------------------
(* Properties *)

All == 1..Payloads

\* Calls, recoveries and files have their shapes; a recovery that is busy has an entry,
\* and nothing is removed from or rewritten in the queue that was never there
\* (delivery-queue.ts).
TypeOK ==
  /\ now \in 0..MaxTime
  /\ \A d \in Deliveries :
       /\ file[d] \in [queued : BOOLEAN, failed : BOOLEAN, retryCount : Nat,
                       lastAttempt : 0..MaxTime \cup {NoTime}, enqueued : 0..MaxTime]
       /\ call[d].st \in {"new", "send", "ack", "fail", "update", "done", "dead"}
       /\ call[d].st = "send" => call[d].next \in All
       /\ file[d].queued \/ file[d].failed => call[d].durable
       /\ settled[d] \subseteq All
  /\ \A r \in Recoveries :
       /\ recovery[r].st \in {"off", "load", "loop", "send", "ack", "fail", "update", "move",
                              "done"}
       /\ recovery[r].st \in {"send", "ack", "fail", "update", "move"} =>
            recovery[r].pending # <<>> /\ recovery[r].next \in 1..Payloads + 1
  /\ replayed \cup overlap \subseteq Deliveries

\* While a call or a crashed call has payloads left that nobody has settled, its entry
\* is in the queue or in failed/: a crash at any moment loses none.  The exceptions are
\* deliveries that an AbortError has ended, whether they were aborted or a send has run out
\* of time (deliver.ts:497), and those whose failed payloads are skipped under bestEffort
\* with nobody listening, by the call or by a recovery (deliver.ts:483).
NothingLost ==
  \A d \in Deliveries :
    call[d].durable /\ settled[d] # All =>
      \/ file[d].queued \/ file[d].failed
      \/ call[d].cut
      \/ call[d].best /\ (~call[d].observed \/ d \in replayed)

\* An entry that was moved to failed/ is no longer in the queue, and does not come back,
\* unless two attempts overlapped: failDelivery of one writes what the other has moved.
FailedLeavesQueue ==
  \A d \in Deliveries \ overlap : ~(file[d].queued /\ file[d].failed)

\* A recovery attempts an entry when it is due: it is in the queue, its recorded
\* failures are fewer than MaxRetries and its back-off is over, as the file says at
\* that moment and not only as it said when it was loaded.  The exception is an entry
\* loaded while another attempt was alive (delivery-queue.ts:312).
AttemptsAreDue ==
  [][\A r \in Recoveries :
       recovery[r].st = "loop" /\ recovery'[r].st = "send" =>
         LET d == Current(r).id IN
           \/ d \in overlap
           \/ /\ file[d].queued /\ file[d].retryCount < MaxRetries
              /\ \/ file[d].lastAttempt = NoTime
                 \/ now >= file[d].lastAttempt + BackoffOf(file[d].retryCount + 1)]_vars

\* An entry whose payloads are not settled is in exactly one of the two directories.
DeliveryInv == TypeOK /\ NothingLost /\ FailedLeavesQueue
=============================================================================
