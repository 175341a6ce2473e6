------------------------- MODULE DeliveryQueueProofs -------------------------
(***************************************************************************)
(* Proofs about what goes out to a channel.                                *)
(*                                                                         *)
(* DeliveryQueue, for every finite set of deliveries, every number of      *)
(* recovery loops that are alive at once, every table of delays and every  *)
(* number of crashes and restarts: no payload is lost without an entry, an *)
(* entry given up stays out of the queue, and a recovery attempts only     *)
(* what is due.                                                            *)
(*                                                                         *)
(* ReplyDelivery, for any number of texts and tool results: the replies of *)
(* a turn are delivered once and in their order, and the dispatcher stays  *)
(* registered until they are.                                              *)
(***************************************************************************)
EXTENDS DeliveryQueue, ReplyDelivery, FiniteSetTheorems, SequenceTheorems, TLAPS

-----------------------------------------------------------------------------
(* The inductive invariant *)

CallStates == {"new", "send", "ack", "fail", "update", "done", "dead"}
Busy == {"send", "ack", "fail", "update", "move"}
RecoveryStates == Busy \cup {"off", "load", "loop", "done"}

Times == 0..MaxTime
FileRecord ==
  [queued : BOOLEAN, failed : BOOLEAN, retryCount : Nat, lastAttempt : Times \cup {NoTime},
   enqueued : Times]
CallRecord ==
  [st : CallStates, next : All, best : BOOLEAN, observed : BOOLEAN, durable : BOOLEAN,
   aborted : BOOLEAN, cut : BOOLEAN, partial : BOOLEAN, read : Nat]
EntryRecord ==
  [id : Deliveries, retryCount : Nat, lastAttempt : Times \cup {NoTime}, enqueued : Times]
RecoveryRecord ==
  [st : RecoveryStates, pending : Seq(EntryRecord), deadline : Nat, next : 1..Payloads + 1,
   read : Nat]

DeliveryTypes ==
  /\ now \in Times
  /\ file \in [Deliveries -> FileRecord]
  /\ call \in [Deliveries -> CallRecord]
  /\ recovery \in [Recoveries -> RecoveryRecord]
  /\ settled \in [Deliveries -> SUBSET All]
  /\ replayed \subseteq Deliveries
  /\ overlap \subseteq Deliveries

\* A call c with the entry f and the settled payloads s.  It removes its entry only when
\* every payload was dealt with: settled, or skipped with nobody listening.
CallOK(c, f, s) ==
  /\ c.st = "new" => ~c.durable /\ c.next = 1 /\ ~c.partial
  /\ c.st \in {"ack", "fail", "update"} => c.durable
  /\ f.queued \/ f.failed => c.durable
  /\ c.partial => c.best /\ c.observed
  /\ c.st \in {"new", "send"} => ~c.cut
  /\ c.st = "send" =>
       \A p \in 1..c.next - 1 : p \in s \/ (c.best /\ (c.partial \/ ~c.observed))
  /\ c.st = "ack" => s = All \/ c.cut \/ (c.best /\ ~c.observed)

\* The first n payloads are settled, or skipped under bestEffort.
DealtWith(n, s, best) == \A p \in 1..n : p \in s \/ best

\* A recovery loop q: the entries before it are those of written deliveries, one each; the
\* one it acknowledges was dealt with.
RecoveryOK(q, c, s, again) ==
  /\ q.st \in Busy => q.pending # <<>>
  /\ q.st \notin Busy \cup {"loop"} => q.pending = <<>>
  /\ q.st = "loop" => q.next = 1
  /\ \A i \in 1..Len(q.pending) : c[q.pending[i].id].durable
  /\ \A i, j \in 1..Len(q.pending) : q.pending[i].id = q.pending[j].id => i = j
  /\ q.st \in {"send", "ack"} => q.pending[1].id \in again
  /\ q.st = "send" =>
       /\ q.next \in All
       /\ DealtWith(q.next - 1, s[q.pending[1].id], c[q.pending[1].id].best)
  /\ q.st = "ack" => s[q.pending[1].id] = All \/ c[q.pending[1].id].best

\* Unless attempts overlapped, an entry in a recovery's list is in no other one's, its call
\* is over, ...
OneAttempt ==
  \A r \in Recoveries : \A d \in Pending(r) \ overlap :
    ~Alive(call[d]) /\ \A x \in Recoveries : d \in Pending(x) => x = r

\* ... and the file is what was loaded.
EntriesMatch ==
  \A r \in Recoveries : \A i \in 1..Len(recovery[r].pending) :
    LET d == recovery[r].pending[i].id IN
      d \notin overlap => file[d].queued /\ recovery[r].pending[i] = Entry(d)

\* Unless attempts overlapped, nobody has given up an entry whose call goes on.
AliveIsNotFailed ==
  \A d \in Deliveries \ overlap : Alive(call[d]) => ~file[d].failed

DeliveryIInv ==
  /\ DeliveryTypes
  /\ \A d \in Deliveries : CallOK(call[d], file[d], settled[d])
  /\ \A r \in Recoveries : RecoveryOK(recovery[r], call, settled, replayed)
  /\ NothingLost
  /\ FailedLeavesQueue
  /\ OneAttempt
  /\ EntriesMatch
  /\ AliveIsNotFailed

LEMMA DeliveryInitInv == Init => DeliveryIInv
<1> SUFFICES ASSUME Init PROVE DeliveryIInv
  OBVIOUS
<1> USE DeliveryAssumption
<1>1. /\ NoFile \in FileRecord /\ ~NoFile.queued /\ ~NoFile.failed
      /\ NoCall \in CallRecord /\ NoCall.st = "new" /\ NoCall.next = 1 /\ ~NoCall.durable
      /\ ~NoCall.partial /\ ~NoCall.cut
      /\ NoRecovery \in RecoveryRecord /\ NoRecovery.st = "off" /\ NoRecovery.next = 1
      /\ NoRecovery.pending = <<>>
  BY DEF NoFile, NoCall, NoRecovery, FileRecord, CallRecord, RecoveryRecord, All, Times, NoTime,
         CallStates, RecoveryStates, Busy
<1>2. \A d \in Deliveries :
        /\ file[d] \in FileRecord /\ ~file[d].failed /\ (file[d].queued <=> d \in Left)
        /\ call[d] \in CallRecord /\ (call[d].durable <=> d \in Left)
        /\ call[d].st \in {"new", "dead"} /\ (call[d].st = "new" <=> d \notin Left)
        /\ call[d].next = 1 /\ ~call[d].partial /\ ~call[d].cut
  <2> SUFFICES ASSUME NEW d \in Deliveries
              
PROVE  /\ file[d] \in FileRecord /\ ~file[d].failed /\ (file[d].queued <=> d \in Left)
                      /\ call[d] \in CallRecord /\ (call[d].durable <=> d \in Left)
                      /\ call[d].st \in {"new", "dead"} /\ (call[d].st = "new" <=> d \notin Left)
                      /\ call[d].next = 1 /\ ~call[d].partial /\ ~call[d].cut
    OBVIOUS
  <2>1. PICK here \in BOOLEAN : here <=> d \in Left
    OBVIOUS
  <2>2. file[d] = [NoFile EXCEPT !.queued = here]
    BY <2>1 DEF Init
  <2>3. file[d] \in FileRecord /\ ~file[d].failed /\ (file[d].queued <=> d \in Left)
    BY <1>1, <2>1, <2>2 DEF FileRecord
  <2>4. CASE d \in Left
    <3>1. call[d] = [NoCall EXCEPT !.st = "dead", !.durable = TRUE]
      BY <2>4 DEF Init
    <3> QED
      BY <1>1, <2>3, <2>4, <3>1 DEF CallRecord, CallStates
  <2>5. CASE d \notin Left
    <3>1. call[d] = NoCall
      BY <2>5 DEF Init
    <3> QED
      BY <1>1, <2>3, <2>5, <3>1
  <2> QED
    BY <2>4, <2>5
<1>3. \A r \in Recoveries :
        /\ recovery[r] \in RecoveryRecord /\ recovery[r].pending = <<>> /\ recovery[r].next = 1
        /\ recovery[r].st \in {"off", "load"}
  <2>1. PICK r \in Recoveries :
          recovery = [x \in Recoveries |->
                        IF x = r THEN [NoRecovery EXCEPT !.st = "load"] ELSE NoRecovery]
    BY DEF Init
  <2>2. PICK q : q = [NoRecovery EXCEPT !.st = "load"]
    OBVIOUS
  <2>3. q \in RecoveryRecord /\ q.st = "load" /\ q.pending = <<>> /\ q.next = 1
    BY <1>1, <2>2 DEF RecoveryRecord, RecoveryStates
  <2> QED
    BY <1>1, <2>1, <2>2, <2>3
<1>4. \A r \in Recoveries : Pending(r) = {}
  BY <1>3 DEF Pending
<1>5. DeliveryTypes
  <2>1. /\ file = [d \in Deliveries |-> file[d]] /\ call = [d \in Deliveries |-> call[d]]
        /\ recovery = [r \in Recoveries |-> recovery[r]]
    BY DEF Init
  <2>2. now \in Times /\ settled \in [Deliveries -> SUBSET All]
    BY DEF Init, Times
  <2> QED
    BY <1>2, <1>3, <2>1, <2>2 DEF Init, DeliveryTypes
<1>6. \A d \in Deliveries : CallOK(call[d], file[d], settled[d])
  BY <1>2 DEF CallOK
<1>7. \A r \in Recoveries : RecoveryOK(recovery[r], call, settled, replayed)
  BY <1>3, SMTT(20) DEF RecoveryOK, Busy
<1>8. NothingLost /\ FailedLeavesQueue /\ AliveIsNotFailed
  BY <1>2 DEF NothingLost, FailedLeavesQueue, AliveIsNotFailed
<1>9. OneAttempt
  BY <1>4 DEF OneAttempt
<1>10. EntriesMatch
  BY <1>3 DEF EntriesMatch
<1> QED
  BY <1>5, <1>6, <1>7, <1>8, <1>9, <1>10 DEF DeliveryIInv

-----------------------------------------------------------------------------
(* What a step of a call, and one of a recovery, keep *)

\* Who is in a list is known by a place in it.
LEMMA PendingFacts ==
  ASSUME DeliveryTypes, NEW r \in Recoveries
  PROVE  /\ recovery[r].pending \in Seq(EntryRecord)
         /\ \A i \in 1..Len(recovery[r].pending) :
              /\ recovery[r].pending[i] \in EntryRecord
              /\ recovery[r].pending[i].id \in Deliveries
              /\ recovery[r].pending[i].id \in Pending(r)
         /\ \A d \in Pending(r) :
              d \in Deliveries /\ \E i \in 1..Len(recovery[r].pending) : recovery[r].pending[i].id = d
<1>1. recovery[r].pending \in Seq(EntryRecord)
  BY DEF DeliveryTypes, RecoveryRecord
<1>2. DOMAIN recovery[r].pending = 1..Len(recovery[r].pending)
  BY <1>1
<1>3. \A i \in 1..Len(recovery[r].pending) : recovery[r].pending[i] \in EntryRecord
  BY <1>1
<1>4. \A e \in EntryRecord : e.id \in Deliveries
  BY DEF EntryRecord
<1> QED
  BY <1>1, <1>2, <1>3, <1>4 DEF Pending

LEMMA DealtWithMore ==
  ASSUME NEW n, NEW s, NEW t, NEW best, s \subseteq t, DealtWith(n, s, best)
  PROVE  DealtWith(n, t, best)
<1> QED
  BY DEF DealtWith

\* A call d turns to c, with the entry f and the settled payloads s.
LEMMA CallStep ==
  ASSUME DeliveryIInv, NEW d \in Deliveries,
         NEW c \in CallRecord, NEW f \in FileRecord, NEW s \in SUBSET All,
         call' = [call EXCEPT ![d] = c], file' = [file EXCEPT ![d] = f],
         settled' = [settled EXCEPT ![d] = s],
         now' = now, recovery' = recovery, replayed' = replayed, overlap' = overlap,
         settled[d] \subseteq s, CallOK(c, f, s),
         call[d].durable => c.durable /\ c.best = call[d].best,
         c.durable /\ s # All =>
           \/ f.queued \/ f.failed \/ c.cut
           \/ c.best /\ (~c.observed \/ d \in replayed),
         Alive(c) => Alive(call[d]) \/ ~call[d].durable,
         f = file[d] \/ Alive(call[d]) \/ ~call[d].durable,
         f.failed => file[d].failed
  PROVE  DeliveryIInv'
<1>1. DeliveryTypes
  BY DEF DeliveryIInv
<1>2. /\ call'[d] = c /\ file'[d] = f /\ settled'[d] = s
      /\ \A e \in Deliveries \ {d} :
           call'[e] = call[e] /\ file'[e] = file[e] /\ settled'[e] = settled[e]
      /\ settled[d] \in SUBSET All
  BY <1>1 DEF DeliveryTypes
<1>3. DeliveryTypes'
  BY <1>1 DEF DeliveryTypes
<1>4. (\A e \in Deliveries : CallOK(call[e], file[e], settled[e]))'
  <2> SUFFICES ASSUME NEW e \in Deliveries PROVE CallOK(call'[e], file'[e], settled'[e])
    OBVIOUS
  <2> QED
    BY <1>2 DEF DeliveryIInv
<1>5. \A r \in Recoveries : \A i \in 1..Len(recovery[r].pending) :
        /\ recovery[r].pending[i].id \in Deliveries
        /\ call[recovery[r].pending[i].id].durable
  BY <1>1, PendingFacts DEF DeliveryIInv, RecoveryOK
<1>6. (\A r \in Recoveries : RecoveryOK(recovery[r], call, settled, replayed))'
  <2> SUFFICES ASSUME NEW r \in Recoveries
               PROVE  RecoveryOK(recovery[r], call', settled', replayed)
    OBVIOUS
  <2>1. RecoveryOK(recovery[r], call, settled, replayed)
    BY DEF DeliveryIInv
  <2>2. \A e \in Deliveries :
          call[e].durable => call'[e].durable /\ call'[e].best = call[e].best
    BY <1>2
  <2>3. \A e \in Deliveries :
          settled[e] \subseteq settled'[e] /\ (settled[e] = All => settled'[e] = All)
    BY <1>2
  <2>4. recovery[r].st \in {"send", "ack"} =>
          recovery[r].pending # <<>> /\ 1 \in 1..Len(recovery[r].pending)
    BY <1>1, <2>1, PendingFacts DEF RecoveryOK, Busy
  <2>5. recovery[r].st = "send" =>
          /\ recovery[r].next \in All
          /\ DealtWith(recovery[r].next - 1, settled'[recovery[r].pending[1].id],
                       call'[recovery[r].pending[1].id].best)
    BY <1>5, <2>1, <2>2, <2>3, <2>4, DealtWithMore DEF RecoveryOK
  <2> QED
    BY <1>5, <2>1, <2>2, <2>3, <2>4, <2>5 DEF RecoveryOK
<1>7. d \notin overlap /\ file[d].failed => ~Alive(call[d]) /\ call[d].durable
  BY DEF DeliveryIInv, AliveIsNotFailed, CallOK
<1>8. NothingLost'
  <2> SUFFICES ASSUME NEW e \in Deliveries, call'[e].durable, settled'[e] # All
               PROVE  \/ file'[e].queued \/ file'[e].failed
                      \/ call'[e].cut
                      \/ call'[e].best /\ (~call'[e].observed \/ e \in replayed')
    BY DEF NothingLost
  <2>1. CASE e = d
    BY <1>2, <2>1
  <2>2. CASE e # d
    BY <1>2, <2>2 DEF DeliveryIInv, NothingLost
  <2> QED
    BY <2>1, <2>2
<1>9. FailedLeavesQueue'
  BY <1>2, <1>7 DEF DeliveryIInv, FailedLeavesQueue
<1>10. AliveIsNotFailed'
  <2> SUFFICES ASSUME NEW e \in Deliveries \ overlap, Alive(call'[e]) PROVE ~file'[e].failed
    BY DEF AliveIsNotFailed, Alive
  <2> QED
    BY <1>2, <1>7 DEF DeliveryIInv, AliveIsNotFailed
<1>11. \A r \in Recoveries : Pending(r)' = Pending(r)
  BY DEF Pending
<1>12. \A r \in Recoveries : \A e \in Pending(r) \ overlap :
         e \in Deliveries /\ call[e].durable /\ ~Alive(call[e])
  BY <1>1, <1>5, PendingFacts DEF DeliveryIInv, OneAttempt
<1>13. OneAttempt'
  <2> SUFFICES ASSUME NEW r \in Recoveries, NEW e \in Pending(r) \ overlap
               PROVE  ~Alive(call'[e]) /\ \A x \in Recoveries : e \in Pending(x) => x = r
    BY <1>11 DEF OneAttempt, Alive
  <2>1. e \in Deliveries /\ call[e].durable /\ ~Alive(call[e])
    BY <1>12
  <2>2. ~Alive(call'[e])
    <3>1. CASE e = d
      BY <1>2, <2>1, <3>1
    <3>2. CASE e # d
      BY <1>2, <2>1, <3>2
    <3> QED
      BY <3>1, <3>2
  <2> QED
    BY <2>2 DEF DeliveryIInv, OneAttempt
<1>14. EntriesMatch'
  <2> SUFFICES ASSUME NEW r \in Recoveries, NEW i \in 1..Len(recovery[r].pending),
                      NEW e, e = recovery[r].pending[i].id, e \notin overlap
               PROVE  /\ file'[e].queued
                      /\ recovery[r].pending[i] =
                           [id |-> e, retryCount |-> file'[e].retryCount,
                            lastAttempt |-> file'[e].lastAttempt, enqueued |-> file'[e].enqueued]
    BY SMTT(20) DEF EntriesMatch, Entry
  <2>1. e \in Pending(r) \ overlap
    BY <1>1, PendingFacts
  <2>2. file'[e] = file[e]
    BY <1>2, <1>12, <2>1
  <2>3. file[e].queued /\ recovery[r].pending[i] = Entry(e)
    BY DEF DeliveryIInv, EntriesMatch
  <2> QED
    BY <2>2, <2>3 DEF Entry
<1> QED
  BY <1>3, <1>4, <1>6, <1>8, <1>9, <1>10, <1>13, <1>14 DEF DeliveryIInv

\* A recovery r turns to q, with the entry f of a delivery d and its settled payloads s; its
\* list may become shorter.
LEMMA RecoveryStep ==
  ASSUME DeliveryIInv, NEW r \in Recoveries, NEW d \in Deliveries,
         NEW q \in RecoveryRecord, NEW f \in FileRecord, NEW s \in SUBSET All,
         recovery' = [recovery EXCEPT ![r] = q], file' = [file EXCEPT ![d] = f],
         settled' = [settled EXCEPT ![d] = s],
         now' = now, call' = call, overlap' = overlap,
         replayed \subseteq replayed', replayed' \subseteq Deliveries,
         settled[d] \subseteq s, call[d].durable,
         RecoveryOK(q, call, settled', replayed'),
         \A i \in 1..Len(q.pending) :
           \E j \in 1..Len(recovery[r].pending) : q.pending[i] = recovery[r].pending[j],
         f = file[d] \/ (d \in Pending(r) /\ \A i \in 1..Len(q.pending) : q.pending[i].id # d),
         s # All =>
           \/ f.queued \/ f.failed \/ call[d].cut
           \/ call[d].best /\ (~call[d].observed \/ d \in replayed'),
         d \notin overlap => ~(f.queued /\ f.failed)
  PROVE  DeliveryIInv'
<1>1. DeliveryTypes
  BY DEF DeliveryIInv
<1>2. /\ recovery'[r] = q /\ file'[d] = f /\ settled'[d] = s
      /\ \A e \in Deliveries \ {d} : file'[e] = file[e] /\ settled'[e] = settled[e]
      /\ \A x \in Recoveries \ {r} : recovery'[x] = recovery[x]
      /\ settled[d] \in SUBSET All
  BY <1>1 DEF DeliveryTypes
<1>3. DeliveryTypes'
  BY <1>1 DEF DeliveryTypes
<1>4. \A e \in Deliveries :
        settled[e] \subseteq settled'[e] /\ (settled[e] = All => settled'[e] = All)
  <2>1. settled[d] = All => s = All
    OBVIOUS
  <2> QED
    BY <1>2, <2>1
<1>5. (\A e \in Deliveries : CallOK(call[e], file[e], settled[e]))'
  <2> SUFFICES ASSUME NEW e \in Deliveries PROVE CallOK(call[e], file'[e], settled'[e])
    OBVIOUS
  <2>1. CallOK(call[e], file[e], settled[e])
    BY DEF DeliveryIInv
  <2>2. file'[e].queued \/ file'[e].failed => call[e].durable
    BY <1>2, <2>1 DEF CallOK
  <2> QED
    BY <1>4, <2>1, <2>2 DEF CallOK
<1>6. (\A x \in Recoveries : RecoveryOK(recovery[x], call, settled, replayed))'
  <2> SUFFICES ASSUME NEW x \in Recoveries
               PROVE  RecoveryOK(recovery'[x], call, settled', replayed')
    OBVIOUS
  <2>1. CASE x = r
    BY <1>2, <2>1
  <2>2. CASE x # r
    <3>1. recovery'[x] = recovery[x] /\ RecoveryOK(recovery[x], call, settled, replayed)
      BY <1>2, <2>2 DEF DeliveryIInv
    <3>2. recovery[x].st \in {"send", "ack"} => recovery[x].pending[1].id \in Deliveries
      BY <1>1, <3>1, PendingFacts DEF RecoveryOK, Busy
    <3>3. recovery[x].st = "send" =>
            /\ recovery[x].next \in All
            /\ DealtWith(recovery[x].next - 1, settled'[recovery[x].pending[1].id],
                         call[recovery[x].pending[1].id].best)
      BY <1>4, <3>1, <3>2, DealtWithMore DEF RecoveryOK
    <3>4. recovery[x].st = "ack" =>
            \/ settled'[recovery[x].pending[1].id] = All
            \/ call[recovery[x].pending[1].id].best
      BY <1>4, <3>1, <3>2 DEF RecoveryOK
    <3>5. recovery[x].st \in {"send", "ack"} => recovery[x].pending[1].id \in replayed'
      BY <3>1 DEF RecoveryOK
    <3> QED
      BY <3>1, <3>3, <3>4, <3>5, SMTT(20) DEF RecoveryOK
  <2> QED
    BY <2>1, <2>2
<1>7. NothingLost'
  <2> SUFFICES ASSUME NEW e \in Deliveries, call[e].durable, settled'[e] # All
               PROVE  \/ file'[e].queued \/ file'[e].failed
                      \/ call[e].cut
                      \/ call[e].best /\ (~call[e].observed \/ e \in replayed')
    BY DEF NothingLost
  <2>1. CASE e = d
    BY <1>2, <2>1
  <2>2. CASE e # d
    BY <1>2, <2>2 DEF DeliveryIInv, NothingLost
  <2> QED
    BY <2>1, <2>2
<1>8. FailedLeavesQueue'
  BY <1>2 DEF DeliveryIInv, FailedLeavesQueue
<1>9. /\ \A x \in Recoveries \ {r} : Pending(x)' = Pending(x)
      /\ Pending(r)' \subseteq Pending(r)
      /\ f = file[d] \/ (d \in Pending(r) /\ d \notin Pending(r)')
  <2>1. \A x \in Recoveries \ {r} : Pending(x)' = Pending(x)
    BY <1>2 DEF Pending
  <2>2. \A e \in Pending(r)' : \E i \in 1..Len(q.pending) : q.pending[i].id = e
    BY <1>2, <1>3, PendingFacts DEF Pending, RecoveryRecord
  <2>3. \A i \in 1..Len(q.pending) : q.pending[i].id \in Pending(r)
    BY <1>1, PendingFacts
  <2> QED
    BY <2>1, <2>2, <2>3
<1>10. AliveIsNotFailed'
  <2> SUFFICES ASSUME NEW e \in Deliveries \ overlap, Alive(call[e]) PROVE ~file'[e].failed
    BY DEF AliveIsNotFailed, Alive
  <2>1. CASE e = d
    <3>1. d \notin Pending(r)
      BY <2>1 DEF DeliveryIInv, OneAttempt
    <3> QED
      BY <1>2, <1>9, <2>1, <3>1 DEF DeliveryIInv, AliveIsNotFailed
  <2>2. CASE e # d
    BY <1>2, <2>2 DEF DeliveryIInv, AliveIsNotFailed
  <2> QED
    BY <2>1, <2>2
<1>11. OneAttempt'
  <2>1. \A x \in Recoveries : Pending(x)' \subseteq Pending(x)
    BY <1>9
  <2> SUFFICES ASSUME NEW x \in Recoveries, NEW e \in Pending(x)' \ overlap
               PROVE  ~Alive(call[e]) /\ \A y \in Recoveries : e \in Pending(y)' => y = x
    BY DEF OneAttempt, Alive
  <2>2. e \in Pending(x) \ overlap
    BY <2>1
  <2> QED
    BY <2>1, <2>2 DEF DeliveryIInv, OneAttempt
<1>12. EntriesMatch'
  <2> SUFFICES ASSUME NEW x \in Recoveries, NEW i \in 1..Len(recovery'[x].pending),
                      NEW e, e = recovery'[x].pending[i].id, e \notin overlap
               PROVE  /\ file'[e].queued
                      /\ recovery'[x].pending[i] =
                           [id |-> e, retryCount |-> file'[e].retryCount,
                            lastAttempt |-> file'[e].lastAttempt, enqueued |-> file'[e].enqueued]
    BY SMTT(20) DEF EntriesMatch, Entry
  <2>1. PICK j \in 1..Len(recovery[x].pending) : recovery'[x].pending[i] = recovery[x].pending[j]
    BY <1>2
  <2>2. file[e].queued /\ recovery'[x].pending[i] = Entry(e)
    BY <2>1 DEF DeliveryIInv, EntriesMatch
  <2>3. e \in Deliveries /\ e \in Pending(x) /\ e \in Pending(x)'
    <3>1. /\ recovery'[x].pending \in Seq(EntryRecord)
          /\ DOMAIN recovery'[x].pending = 1..Len(recovery'[x].pending)
      BY <1>3 DEF DeliveryTypes, RecoveryRecord
    <3> QED
      BY <1>1, <2>1, <3>1, PendingFacts DEF Pending
  <2>4. file'[e] = file[e]
    <3>1. CASE e = d /\ f # file[d]
      <4>1. d \in Pending(r) /\ x # r
        BY <1>9, <2>3, <3>1
      <4> QED
        BY <2>3, <3>1, <4>1 DEF DeliveryIInv, OneAttempt
    <3>2. CASE e = d /\ f = file[d]
      BY <1>2, <3>2
    <3>3. CASE e # d
      BY <1>2, <2>3, <3>3
    <3> QED
      BY <3>1, <3>2, <3>3
  <2> QED
    BY <2>2, <2>4 DEF Entry
<1> QED
  BY <1>3, <1>5, <1>6, <1>7, <1>8, <1>10, <1>11, <1>12 DEF DeliveryIInv

\* Recoveries begin or are gone, and calls are broken off.
LEMMA GatewayStep ==
  ASSUME DeliveryIInv, now' \in Times,
         UNCHANGED <<file, settled, replayed, overlap>>,
         call' \in [Deliveries -> CallRecord],
         \A d \in Deliveries : call'[d] = call[d] \/ call'[d] = Ended(call[d], "dead"),
         recovery' \in [Recoveries -> RecoveryRecord],
         \A r \in Recoveries :
           \/ recovery'[r] = recovery[r]
           \/ recovery'[r].pending = <<>> /\ recovery'[r].st \notin Busy \cup {"loop"}
  PROVE  DeliveryIInv'
<1>1. DeliveryTypes
  BY DEF DeliveryIInv
<1>2. DeliveryTypes'
  BY <1>1 DEF DeliveryTypes
<1>3. \A d \in Deliveries :
        /\ call'[d].durable = call[d].durable /\ call'[d].best = call[d].best
        /\ call'[d].observed = call[d].observed /\ call'[d].cut = call[d].cut
        /\ call'[d] = call[d] \/ (call'[d].st = "dead" /\ ~call'[d].partial)
  <2>1. \A c \in CallRecord :
          /\ Ended(c, "dead").durable = c.durable /\ Ended(c, "dead").best = c.best
          /\ Ended(c, "dead").observed = c.observed /\ Ended(c, "dead").cut = c.cut
          /\ Ended(c, "dead").st = "dead" /\ ~Ended(c, "dead").partial
    BY DEF Ended, CallRecord
  <2> QED
    BY <1>1, <2>1 DEF DeliveryTypes
<1>4. (\A d \in Deliveries : CallOK(call[d], file[d], settled[d]))'
  <2> SUFFICES ASSUME NEW d \in Deliveries PROVE CallOK(call'[d], file[d], settled[d])
    OBVIOUS
  <2>1. CallOK(call[d], file[d], settled[d])
    BY DEF DeliveryIInv
  <2> QED
    BY <1>3, <2>1 DEF CallOK
<1>5. (\A r \in Recoveries : RecoveryOK(recovery[r], call, settled, replayed))'
  <2> SUFFICES ASSUME NEW r \in Recoveries
               PROVE  RecoveryOK(recovery'[r], call', settled, replayed)
    OBVIOUS
  <2>1. CASE recovery'[r] = recovery[r]
    <3>1. RecoveryOK(recovery[r], call, settled, replayed)
      BY DEF DeliveryIInv
    <3>2. \A i \in 1..Len(recovery[r].pending) : recovery[r].pending[i].id \in Deliveries
      BY <1>1, PendingFacts
    <3>3. recovery[r].st \in {"send", "ack"} => recovery[r].pending[1].id \in Deliveries
      BY <1>1, <3>1, PendingFacts DEF RecoveryOK, Busy
    <3> QED
      BY <1>3, <2>1, <3>1, <3>2, <3>3 DEF RecoveryOK
  <2>2. CASE recovery'[r].pending = <<>> /\ recovery'[r].st \notin Busy \cup {"loop"}
    BY <2>2 DEF RecoveryOK, Busy
  <2> QED
    BY <2>1, <2>2
<1>6. NothingLost'
  BY <1>3 DEF DeliveryIInv, NothingLost
<1>7. FailedLeavesQueue'
  BY DEF DeliveryIInv, FailedLeavesQueue
<1>8. \A d \in Deliveries : Alive(call[d])' => Alive(call[d])
  BY <1>3 DEF Alive
<1>9. AliveIsNotFailed'
  BY <1>8 DEF DeliveryIInv, AliveIsNotFailed
<1>10. \A r \in Recoveries : Pending(r)' \subseteq Pending(r)
  <2> SUFFICES ASSUME NEW r \in Recoveries PROVE Pending(r)' \subseteq Pending(r)
    OBVIOUS
  <2>1. CASE recovery'[r] = recovery[r]
    BY <2>1 DEF Pending
  <2>2. CASE recovery'[r].pending = <<>>
    BY <2>2 DEF Pending
  <2> QED
    BY <2>1, <2>2
<1>11. OneAttempt'
  <2> SUFFICES ASSUME NEW r \in Recoveries, NEW d \in Pending(r)' \ overlap
               PROVE  ~Alive(call[d])' /\ \A x \in Recoveries : d \in Pending(x)' => x = r
    BY DEF OneAttempt
  <2>1. d \in Pending(r) \ overlap /\ d \in Deliveries
    BY <1>1, <1>10, PendingFacts
  <2> QED
    BY <1>8, <1>10, <2>1 DEF DeliveryIInv, OneAttempt
<1>12. EntriesMatch'
  <2> SUFFICES ASSUME NEW r \in Recoveries, NEW i \in 1..Len(recovery'[r].pending),
                      NEW e, e = recovery'[r].pending[i].id, e \notin overlap
               PROVE  file[e].queued /\ recovery'[r].pending[i] = Entry(e)
    BY SMTT(20) DEF EntriesMatch, Entry
  <2>1. recovery'[r] = recovery[r]
    OBVIOUS
  <2> QED
    BY <2>1 DEF DeliveryIInv, EntriesMatch
<1> QED
  BY <1>2, <1>4, <1>5, <1>6, <1>7, <1>9, <1>11, <1>12 DEF DeliveryIInv

\* The entry a recovery is at, and the recovery when it has passed to the next.
LEMMA PassedFacts ==
  ASSUME DeliveryIInv, NEW r \in Recoveries, recovery[r].pending # <<>>
  PROVE  /\ Current(r).id \in Deliveries /\ Current(r).id \in Pending(r)
         /\ call[Current(r).id].durable
         /\ Passed(r) \in RecoveryRecord
         /\ RecoveryOK(Passed(r), call, settled, replayed)
         /\ \A i \in 1..Len(Passed(r).pending) :
              /\ \E j \in 1..Len(recovery[r].pending) :
                   Passed(r).pending[i] = recovery[r].pending[j]
              /\ Passed(r).pending[i].id # Current(r).id
<1>1. DeliveryTypes /\ RecoveryOK(recovery[r], call, settled, replayed)
  BY DEF DeliveryIInv
<1>2. recovery[r].pending \in Seq(EntryRecord) /\ recovery[r] \in RecoveryRecord
  BY <1>1 DEF DeliveryTypes, RecoveryRecord
<1>3. Len(recovery[r].pending) \in Nat /\ 1 \in 1..Len(recovery[r].pending)
  BY <1>2
<1>4. /\ Current(r).id \in Deliveries /\ Current(r).id \in Pending(r)
      /\ call[Current(r).id].durable
  BY <1>1, <1>3, PendingFacts DEF Current, RecoveryOK
<1>5. PICK t \in Seq(EntryRecord) :
        /\ t = Tail(recovery[r].pending) /\ Len(t) = Len(recovery[r].pending) - 1
        /\ \A i \in 1..Len(t) : t[i] = recovery[r].pending[i + 1]
  BY <1>2, HeadTailProperties
<1>6. PICK q : q = Passed(r)
  OBVIOUS
<1>7. q.st = "loop" /\ q.pending = t /\ q.next = 1 /\ q \in RecoveryRecord
  <2>1. q = [recovery[r] EXCEPT !.st = "loop", !.pending = t, !.next = 1, !.read = 0]
    BY <1>5, <1>6 DEF Passed
  <2>2. 1 \in 1..Payloads + 1 /\ "loop" \in RecoveryStates
    BY DeliveryAssumption DEF RecoveryStates
  <2> QED
    BY <1>2, <2>1, <2>2 DEF RecoveryRecord
<1>8. \A i \in 1..Len(t) :
        i + 1 \in 1..Len(recovery[r].pending) /\ i + 1 # 1
  BY <1>3, <1>5
<1>9. \A i \in 1..Len(t) :
        /\ \E j \in 1..Len(recovery[r].pending) : t[i] = recovery[r].pending[j]
        /\ t[i].id # Current(r).id
        /\ call[t[i].id].durable
  BY <1>1, <1>3, <1>5, <1>8 DEF RecoveryOK, Current
<1>10. \A i, j \in 1..Len(t) : t[i].id = t[j].id => i = j
  <2> SUFFICES ASSUME NEW i \in 1..Len(t), NEW j \in 1..Len(t), t[i].id = t[j].id PROVE i = j
    OBVIOUS
  <2>1. i + 1 = j + 1
    BY <1>1, <1>5, <1>8 DEF RecoveryOK
  <2> QED
    BY <2>1
<1>11. RecoveryOK(q, call, settled, replayed)
  BY <1>7, <1>9, <1>10 DEF RecoveryOK, Busy
<1> QED
  BY <1>4, <1>6, <1>7, <1>9, <1>11

\* A recovery r is through with its entry d, whose file is then f.
PassesOn(r, d, f) ==
  /\ d = Current(r).id
  /\ recovery' = [recovery EXCEPT ![r] = Passed(r)] /\ file' = [file EXCEPT ![d] = f]
  /\ UNCHANGED <<now, call, settled, replayed, overlap>>

LEMMA PassStep ==
  ASSUME DeliveryIInv, NEW r \in Recoveries, recovery[r].pending # <<>>,
         NEW d, NEW f \in FileRecord, PassesOn(r, d, f),
         settled[d] # All =>
           \/ f.queued \/ f.failed \/ call[d].cut
           \/ call[d].best /\ (~call[d].observed \/ d \in replayed),
         d \notin overlap => ~(f.queued /\ f.failed)
  PROVE  DeliveryIInv'
<1> /\ d = Current(r).id
    /\ recovery' = [recovery EXCEPT ![r] = Passed(r)] /\ file' = [file EXCEPT ![d] = f]
    /\ UNCHANGED <<now, call, settled, replayed, overlap>>
  BY DEF PassesOn
<1>1. DeliveryTypes
  BY DEF DeliveryIInv
<1>2. d \in Deliveries /\ d \in Pending(r) /\ call[d].durable
  BY PassedFacts
<1>3. PICK s \in SUBSET All :
        s = settled[d] /\ settled[d] \subseteq s /\ settled' = [settled EXCEPT ![d] = s]
  BY <1>1, <1>2 DEF DeliveryTypes
<1>4. PICK q \in RecoveryRecord :
        /\ q = Passed(r) /\ RecoveryOK(q, call, settled', replayed')
        /\ \A i \in 1..Len(q.pending) :
             /\ \E j \in 1..Len(recovery[r].pending) : q.pending[i] = recovery[r].pending[j]
             /\ q.pending[i].id # d
  BY PassedFacts
<1>5. replayed' = replayed /\ replayed' \subseteq Deliveries
  BY <1>1 DEF DeliveryTypes
<1>6. recovery' = [recovery EXCEPT ![r] = q] /\ now' = now /\ call' = call /\ overlap' = overlap
  BY <1>4
<1>7. s # All =>
           \/ f.queued \/ f.failed \/ call[d].cut
           \/ call[d].best /\ (~call[d].observed \/ d \in replayed')
  BY <1>3, <1>5
<1>8. \A i \in 1..Len(q.pending) :
        \E j \in 1..Len(recovery[r].pending) : q.pending[i] = recovery[r].pending[j]
  BY <1>4
<1>9. f = file[d] \/ (d \in Pending(r) /\ \A i \in 1..Len(q.pending) : q.pending[i].id # d)
  BY <1>2, <1>4
<1>10. RecoveryOK(q, call, settled', replayed')
  BY <1>4
<1> QED
  BY ONLY DeliveryIInv, r \in Recoveries, f \in FileRecord, q \in RecoveryRecord,
          file' = [file EXCEPT ![d] = f], d \notin overlap => ~(f.queued /\ f.failed),
          <1>2, <1>3, <1>5, <1>6, <1>7, <1>8, <1>9, <1>10, RecoveryStep

\* A recovery r goes on with its entry d as q, without a change of the queue.
Stays(r, d, q, s) ==
  /\ d = Current(r).id
  /\ recovery' = [recovery EXCEPT ![r] = q] /\ settled' = [settled EXCEPT ![d] = s]
  /\ UNCHANGED <<now, file, call, overlap>>

LEMMA StayStep ==
  ASSUME DeliveryIInv, NEW r \in Recoveries, recovery[r].pending # <<>>,
         NEW d, NEW q \in RecoveryRecord, NEW s \in SUBSET All, Stays(r, d, q, s),
         replayed' \in {replayed, replayed \cup {d}},
         settled[d] \subseteq s, q.pending = recovery[r].pending,
         q.st \in Busy,
         q.st \in {"send", "ack"} => d \in replayed',
         q.st = "send" => q.next \in All /\ DealtWith(q.next - 1, s, call[d].best),
         q.st = "ack" => s = All \/ call[d].best
  PROVE  DeliveryIInv'
<1> /\ d = Current(r).id
    /\ recovery' = [recovery EXCEPT ![r] = q] /\ settled' = [settled EXCEPT ![d] = s]
    /\ UNCHANGED <<now, file, call, overlap>>
  BY DEF Stays
<1>1. DeliveryTypes /\ RecoveryOK(recovery[r], call, settled, replayed)
  BY DEF DeliveryIInv
<1>2. d \in Deliveries /\ call[d].durable /\ d = q.pending[1].id
  BY PassedFacts DEF Current
<1>3. settled'[d] = s
  BY <1>1, <1>2 DEF DeliveryTypes
<1>4. RecoveryOK(q, call, settled', replayed')
  <2>1. /\ q.pending # <<>> /\ q.st \in Busy /\ q.st # "loop"
        /\ \A i \in 1..Len(q.pending) : call[q.pending[i].id].durable
        /\ \A i, j \in 1..Len(q.pending) : q.pending[i].id = q.pending[j].id => i = j
    BY <1>1 DEF RecoveryOK, Busy
  <2> QED
    BY <1>2, <1>3, <2>1, SMTT(20) DEF RecoveryOK
<1>5. file[d] \in FileRecord /\ file' = [file EXCEPT ![d] = file[d]]
  BY <1>1, <1>2 DEF DeliveryTypes
<1>6. /\ s # All =>
           \/ file[d].queued \/ file[d].failed \/ call[d].cut
           \/ call[d].best /\ (~call[d].observed \/ d \in replayed')
      /\ d \notin overlap => ~(file[d].queued /\ file[d].failed)
  <2>1. s # All => settled[d] # All
    OBVIOUS
  <2> QED
    BY <1>2, <2>1 DEF DeliveryIInv, NothingLost, FailedLeavesQueue
<1>7. replayed \subseteq replayed' /\ replayed' \subseteq Deliveries
  BY <1>1, <1>2 DEF DeliveryTypes
<1>8. \A i \in 1..Len(q.pending) :
        \E j \in 1..Len(recovery[r].pending) : q.pending[i] = recovery[r].pending[j]
  OBVIOUS
<1> QED
  BY <1>2, <1>4, <1>5, <1>6, <1>7, <1>8, RecoveryStep

-----------------------------------------------------------------------------
(* Calls *)

\* What the steps of a call leave as it is.
SameDelivery(c, e) ==
  e.durable = c.durable /\ e.best = c.best /\ e.observed = c.observed /\ (c.cut => e.cut)

\* A call that has ended, or goes on to close its entry.
LEMMA EndedFacts ==
  ASSUME NEW c \in CallRecord, NEW st \in CallStates
  PROVE  /\ Ended(c, st) \in CallRecord /\ SameDelivery(c, Ended(c, st))
         /\ Ended(c, st).st = st /\ ~Ended(c, st).partial
<1>1. PICK no \in BOOLEAN : ~no /\ no = FALSE
  OBVIOUS
<1>2. 1 \in All /\ 0 \in Nat
  BY DeliveryAssumption DEF All
<1>3. PICK e : e = [c EXCEPT !.st = st, !.next = 1, !.partial = no, !.read = 0]
  OBVIOUS
<1>4. e \in CallRecord /\ SameDelivery(c, e) /\ e.st = st /\ e.partial = no
  BY <1>2, <1>3 DEF CallRecord, SameDelivery
<1> QED
  BY <1>1, <1>3, <1>4 DEF Ended

\* What a call needs before it is through with the payload it is at.
Covered(c, f, s) ==
  /\ c.st = "send"
  /\ f.queued \/ f.failed => c.durable
  /\ c.partial => c.best /\ c.observed
  /\ ~c.cut
  /\ \A p \in 1..c.next : p \in s \/ (c.best /\ (c.partial \/ ~c.observed))

LEMMA ClosingFacts ==
  ASSUME NEW c \in CallRecord, NEW f \in FileRecord, NEW s \in SUBSET All,
         Covered(c, f, s), c.next = Payloads
  PROVE  /\ Closing(c) \in CallRecord /\ SameDelivery(c, Closing(c))
         /\ CallOK(Closing(c), f, s)
<1>1. CASE ~c.durable
  <2>1. PICK e \in CallRecord :
          e = Ended(c, "done") /\ SameDelivery(c, e) /\ e.st = "done" /\ ~e.partial
    BY EndedFacts DEF CallStates
  <2>2. CallOK(e, f, s)
    BY <1>1, <2>1 DEF CallOK, SameDelivery, Covered
  <2> QED
    BY <1>1, <2>1, <2>2 DEF Closing
<1>2. CASE c.durable
  <2>1. PICK st \in {"fail", "ack"} : st = IF c.partial THEN "fail" ELSE "ack"
    OBVIOUS
  <2>2. PICK e : e = [c EXCEPT !.st = st]
    OBVIOUS
  <2>3. e \in CallRecord /\ SameDelivery(c, e) /\ e.st = st /\ e.partial = c.partial
    BY <2>2 DEF CallRecord, SameDelivery, CallStates
  <2>4. st = "ack" => s = All \/ (c.best /\ ~c.observed)
    BY <1>2, <2>1 DEF Covered, All
  <2>5. CallOK(e, f, s)
    BY <1>2, <2>1, <2>3, <2>4 DEF CallOK, SameDelivery, Covered
  <2> QED
    BY <1>2, <2>1, <2>2, <2>3, <2>5 DEF Closing
<1> QED
  BY <1>1, <1>2

\* The call that goes on has dealt with every payload before the one it is at.
LEMMA AdvancedFacts ==
  ASSUME NEW c \in CallRecord, NEW f \in FileRecord, NEW s \in SUBSET All, Covered(c, f, s)
  PROVE  /\ Advanced(c) \in CallRecord /\ SameDelivery(c, Advanced(c))
         /\ CallOK(Advanced(c), f, s)
<1>1. CASE c.next = Payloads
  BY <1>1, ClosingFacts DEF Advanced
<1>2. CASE c.next # Payloads
  <2> c.next \in 1..Payloads /\ Payloads \in Nat
    BY DeliveryAssumption DEF CallRecord, All
  <2>1. PICK n \in All : n = c.next + 1 /\ n - 1 = c.next
    BY <1>2 DEF All
  <2>2. PICK e : e = [c EXCEPT !.next = n]
    OBVIOUS
  <2>3. /\ e \in CallRecord /\ SameDelivery(c, e) /\ e.st = c.st /\ e.partial = c.partial
        /\ e.next = n /\ e.cut = c.cut
    BY <2>2 DEF CallRecord, SameDelivery
  <2>4. CallOK(e, f, s)
    BY <2>1, <2>3 DEF CallOK, SameDelivery, Covered
  <2> QED
    BY <1>2, <2>1, <2>2, <2>3, <2>4 DEF Advanced
<1> QED
  BY <1>1, <1>2

\* A call that throws keeps its entry, unless an AbortError has ended it.
LEMMA ThrownFacts ==
  ASSUME NEW c \in CallRecord, NEW f \in FileRecord, NEW s, NEW before,
         NEW cut \in BOOLEAN,
         c.st = "send", CallOK(c, f, before)
  PROVE  /\ Thrown(c, cut) \in CallRecord /\ SameDelivery(c, Thrown(c, cut))
         /\ CallOK(Thrown(c, cut), f, s)
<1> ~c.cut
  BY DEF CallOK
<1>1. CASE ~c.durable
  <2>1. PICK e \in CallRecord :
          e = Ended(c, "done") /\ SameDelivery(c, e) /\ e.st = "done" /\ ~e.partial
    BY EndedFacts DEF CallStates
  <2>2. CallOK(e, f, s)
    BY <1>1, <2>1 DEF CallOK, SameDelivery
  <2> QED
    BY <1>1, <2>1, <2>2 DEF Thrown
<1>2. CASE c.durable
  <2>1. PICK st \in {"fail", "ack"} : st = IF cut THEN "ack" ELSE "fail"
    OBVIOUS
  <2>2. PICK e : e = [c EXCEPT !.st = st, !.cut = cut]
    OBVIOUS
  <2>3. e \in CallRecord /\ SameDelivery(c, e) /\ e.st = st /\ e.partial = c.partial /\ e.cut = cut
    BY <2>2 DEF CallRecord, SameDelivery, CallStates
  <2>4. CallOK(e, f, s)
    BY <1>2, <2>1, <2>3 DEF CallOK, SameDelivery
  <2> QED
    BY <1>2, <2>1, <2>2, <2>3, <2>4 DEF Thrown
<1> QED
  BY <1>1, <1>2

\* A payload that fails is skipped under bestEffort, and noted if somebody listens.
LEMMA FailedFacts ==
  ASSUME NEW c \in CallRecord, NEW f \in FileRecord, NEW s \in SUBSET All,
         NEW cut \in BOOLEAN, c.st = "send", CallOK(c, f, s)
  PROVE  /\ Failed(c, cut) \in CallRecord /\ SameDelivery(c, Failed(c, cut))
         /\ CallOK(Failed(c, cut), f, s)
<1>1. CASE ~c.best
  BY <1>1, ThrownFacts DEF Failed
<1>2. CASE c.best
  <2>1. PICK b \in BOOLEAN : b = (c.partial \/ c.observed) /\ (b <=> c.partial \/ c.observed)
    BY DEF CallRecord
  <2>2. PICK e : e = [c EXCEPT !.partial = b]
    OBVIOUS
  <2>3. /\ e \in CallRecord /\ SameDelivery(c, e) /\ e.st = "send" /\ e.next = c.next
        /\ e.partial = b /\ e.cut = c.cut
    BY <2>2 DEF CallRecord, SameDelivery
  <2>4. \A p \in 1..c.next : p = c.next \/ p \in 1..c.next - 1
    BY DEF CallRecord, All
  <2>5. Covered(e, f, s)
    BY <1>2, <2>1, <2>3, <2>4 DEF Covered, CallOK, SameDelivery
  <2>6. /\ Advanced(e) \in CallRecord /\ SameDelivery(e, Advanced(e))
        /\ CallOK(Advanced(e), f, s)
    BY <2>3, <2>5, AdvancedFacts
  <2>7. Failed(c, cut) = Advanced(e)
    BY <1>2, <2>1, <2>2 DEF Failed
  <2> QED
    BY <2>3, <2>6, <2>7 DEF SameDelivery
<1> QED
  BY <1>1, <1>2

LEMMA BeginInv ==
  ASSUME DeliveryIInv, NEW d \in Deliveries, NEW k \in Kinds, Begin(d, k)
  PROVE  DeliveryIInv'
<1>1. DeliveryTypes /\ CallOK(call[d], file[d], settled[d])
  BY DEF DeliveryIInv
<1>2. call[d] \in CallRecord /\ file[d] \in FileRecord /\ settled[d] \in SUBSET All
  BY <1>1 DEF DeliveryTypes
<1>3. k.best \in BOOLEAN /\ k.observed \in BOOLEAN /\ k.durable \in BOOLEAN
  BY DeliveryAssumption
<1>4. /\ call[d].st = "new" /\ ~call[d].durable /\ call[d].next = 1 /\ ~call[d].partial
      /\ ~call[d].cut /\ ~file[d].queued /\ ~file[d].failed
  BY <1>1 DEF Begin, CallOK
<1>5. PICK c : c = [call[d] EXCEPT !.st = "send", !.best = k.best,
                                   !.observed = k.observed, !.durable = k.durable]
  OBVIOUS
<1>6. /\ c \in CallRecord /\ c.st = "send" /\ c.durable = k.durable /\ c.next = 1
      /\ c.partial = call[d].partial /\ c.cut = call[d].cut
  BY <1>2, <1>3, <1>4, <1>5 DEF CallRecord, CallStates
<1>7. PICK f \in FileRecord :
        /\ file' = [file EXCEPT ![d] = f]
        /\ f.queued \/ f.failed => k.durable
        /\ k.durable => f.queued
        /\ ~f.failed
  <2>1. CASE k.durable
    <3>1. PICK yes \in BOOLEAN : yes = TRUE /\ yes
      OBVIOUS
    <3>2. PICK f : f = [file[d] EXCEPT !.queued = yes, !.enqueued = now]
      OBVIOUS
    <3>3. f \in FileRecord /\ f.queued = yes /\ f.failed = file[d].failed
      BY <1>1, <1>2, <3>2 DEF FileRecord, DeliveryTypes
    <3>4. file' = [file EXCEPT ![d] = f]
      BY <2>1, <3>1, <3>2 DEF Begin
    <3> QED
      BY <1>4, <2>1, <3>1, <3>3, <3>4
  <2>2. CASE ~k.durable
    <3>1. file' = [file EXCEPT ![d] = file[d]]
      BY <1>1, <2>2 DEF Begin, DeliveryTypes
    <3> QED
      BY <1>2, <1>4, <2>2, <3>1
  <2> QED
    BY <2>1, <2>2
<1>8. call' = [call EXCEPT ![d] = c] /\ settled' = [settled EXCEPT ![d] = settled[d]]
  BY <1>1, <1>5 DEF Begin, DeliveryTypes
<1>9. now' = now /\ recovery' = recovery /\ replayed' = replayed /\ overlap' = overlap
  BY DEF Begin
<1>10. CallOK(c, f, settled[d])
  BY <1>4, <1>6, <1>7 DEF CallOK
<1> QED
  BY <1>2, <1>4, <1>6, <1>7, <1>8, <1>9, <1>10, CallStep

\* A call goes on to c, without a change of the queue.
LEMMA GoesOn ==
  ASSUME DeliveryIInv, NEW d \in Deliveries, Alive(call[d]),
         NEW c \in CallRecord, NEW s \in SUBSET All,
         call' = [call EXCEPT ![d] = c], settled' = [settled EXCEPT ![d] = s],
         UNCHANGED <<now, file, recovery, replayed, overlap>>,
         settled[d] \subseteq s, CallOK(c, file[d], s),
         c.durable = call[d].durable, c.best = call[d].best, c.observed = call[d].observed,
         call[d].cut => c.cut
  PROVE  DeliveryIInv'
<1>1. DeliveryTypes
  BY DEF DeliveryIInv
<1>2. file[d] \in FileRecord /\ file' = [file EXCEPT ![d] = file[d]]
  BY <1>1 DEF DeliveryTypes
<1>3. c.durable /\ s # All =>
        \/ file[d].queued \/ file[d].failed \/ c.cut
        \/ c.best /\ (~c.observed \/ d \in replayed)
  <2>1. s # All => settled[d] # All
    OBVIOUS
  <2> QED
    BY <2>1 DEF DeliveryIInv, NothingLost
<1> QED
  BY <1>2, <1>3, CallStep

LEMMA SendPayloadInv ==
  ASSUME DeliveryIInv, NEW d \in Deliveries, SendPayload(d)
  PROVE  DeliveryIInv'
<1>0. FALSE \in BOOLEAN
  OBVIOUS
<1>1. /\ DeliveryTypes /\ CallOK(call[d], file[d], settled[d])
      /\ call[d].st = "send" /\ Alive(call[d])
      /\ UNCHANGED <<now, file, recovery, replayed, overlap>>
  BY DEF DeliveryIInv, SendPayload, Alive
<1>2. call[d] \in CallRecord /\ file[d] \in FileRecord /\ settled[d] \in SUBSET All
  BY <1>1 DEF DeliveryTypes
<1>3. /\ call[d].next \in All /\ Payloads \in All
      /\ \A p \in 1..call[d].next : p = call[d].next \/ p \in 1..call[d].next - 1
  <2>1. call[d].next \in All /\ Payloads \in All
    BY <1>2, DeliveryAssumption DEF CallRecord, All
  <2>2. call[d].next \in Nat
    BY <2>1 DEF All
  <2> QED
    BY <2>1, <2>2
<1>4. settled = [settled EXCEPT ![d] = settled[d]]
  BY <1>1 DEF DeliveryTypes
<1>5. CASE /\ Settle(d, call[d].next)
           /\ call' = [call EXCEPT ![d] = Advanced(@)]
  <2>1. PICK s \in SUBSET All :
          /\ s = settled[d] \cup {call[d].next} /\ settled' = [settled EXCEPT ![d] = s]
          /\ settled[d] \subseteq s
    BY <1>2, <1>3, <1>5 DEF Settle
  <2>2. Covered(call[d], file[d], s)
    BY <1>1, <1>3, <2>1 DEF Covered, CallOK
  <2>3. PICK c \in CallRecord :
          /\ c = Advanced(call[d]) /\ SameDelivery(call[d], c) /\ CallOK(c, file[d], s)
    BY <1>2, <2>2, AdvancedFacts
  <2>4. call' = [call EXCEPT ![d] = c]
    BY <1>5, <2>3
  <2> QED
    BY <1>1, <2>1, <2>3, <2>4, GoesOn DEF SameDelivery
<1>6. ASSUME NEW cut \in BOOLEAN, call' = [call EXCEPT ![d] = Failed(@, cut)], UNCHANGED settled
      PROVE  DeliveryIInv'
  <2>1. PICK c \in CallRecord :
          /\ c = Failed(call[d], cut) /\ SameDelivery(call[d], c)
          /\ CallOK(c, file[d], settled[d])
    BY <1>1, <1>2, FailedFacts
  <2>2. call' = [call EXCEPT ![d] = c] /\ settled' = [settled EXCEPT ![d] = settled[d]]
    BY <1>4, <1>6, <2>1
  <2> QED
    BY <1>1, <1>2, <2>1, <2>2, GoesOn DEF SameDelivery
<1>7. CASE call' = [call EXCEPT ![d] = Thrown(@, FALSE)] /\ UNCHANGED settled
  <2>1. PICK c \in CallRecord :
          /\ c = Thrown(call[d], FALSE) /\ SameDelivery(call[d], c)
          /\ CallOK(c, file[d], settled[d])
    BY <1>0, <1>1, <1>2, ThrownFacts
  <2>2. call' = [call EXCEPT ![d] = c] /\ settled' = [settled EXCEPT ![d] = settled[d]]
    BY <1>4, <1>7, <2>1
  <2> QED
    BY <1>1, <1>2, <2>1, <2>2, GoesOn DEF SameDelivery
<1>8. CASE Settle(d, Payloads) /\ call' = [call EXCEPT ![d] = Thrown(@, FALSE)]
  <2>1. PICK s \in SUBSET All :
          /\ s = settled[d] \cup {Payloads} /\ settled' = [settled EXCEPT ![d] = s]
          /\ settled[d] \subseteq s
    BY <1>2, <1>3, <1>8 DEF Settle
  <2>2. PICK c \in CallRecord :
          /\ c = Thrown(call[d], FALSE) /\ SameDelivery(call[d], c) /\ CallOK(c, file[d], s)
    BY <1>0, <1>1, <1>2, ThrownFacts
  <2>3. call' = [call EXCEPT ![d] = c]
    BY <1>8, <2>2
  <2> QED
    BY <1>1, <2>1, <2>2, <2>3, GoesOn DEF SameDelivery
<1> QED
  BY <1>5, <1>6, <1>7, <1>8 DEF SendPayload

LEMMA AbortInv ==
  ASSUME DeliveryIInv, NEW d \in Deliveries, Abort(d)
  PROVE  DeliveryIInv'
<1>1. DeliveryTypes /\ CallOK(call[d], file[d], settled[d]) /\ Alive(call[d])
  BY DEF DeliveryIInv, Abort, Alive
<1>2. call[d] \in CallRecord /\ settled[d] \in SUBSET All
  BY <1>1 DEF DeliveryTypes
<1>3. PICK yes \in BOOLEAN : yes = TRUE /\ yes
  OBVIOUS
<1>4. PICK c : c = [call[d] EXCEPT !.aborted = yes]
  OBVIOUS
<1>5. /\ c \in CallRecord /\ c.aborted = yes /\ c.st = call[d].st /\ c.next = call[d].next
      /\ c.best = call[d].best /\ c.observed = call[d].observed
      /\ c.durable = call[d].durable /\ c.partial = call[d].partial /\ c.cut = call[d].cut
  BY <1>2, <1>4 DEF CallRecord
<1>6. /\ call' = [call EXCEPT ![d] = c] /\ settled' = [settled EXCEPT ![d] = settled[d]]
      /\ UNCHANGED <<now, file, recovery, replayed, overlap>>
  BY <1>1, <1>3, <1>4 DEF Abort, DeliveryTypes
<1>7. CallOK(c, file[d], settled[d])
  BY <1>1, <1>3, <1>5 DEF CallOK
<1> QED
  BY <1>1, <1>2, <1>3, <1>5, <1>6, <1>7, GoesOn

\* A call ends, with the entry f.
LEMMA CallEnds ==
  ASSUME DeliveryIInv, NEW d \in Deliveries, Alive(call[d]), NEW f \in FileRecord,
         call' = [call EXCEPT ![d] = Ended(@, "done")], file' = [file EXCEPT ![d] = f],
         UNCHANGED <<now, recovery, settled, replayed, overlap>>,
         call[d].durable, f.failed = file[d].failed,
         settled[d] # All =>
           \/ f.queued \/ f.failed \/ call[d].cut
           \/ call[d].best /\ (~call[d].observed \/ d \in replayed)
  PROVE  DeliveryIInv'
<1>1. DeliveryTypes
  BY DEF DeliveryIInv
<1>2. /\ call[d] \in CallRecord /\ settled[d] \in SUBSET All
      /\ settled' = [settled EXCEPT ![d] = settled[d]]
  BY <1>1 DEF DeliveryTypes
<1>3. PICK c \in CallRecord :
        c = Ended(call[d], "done") /\ SameDelivery(call[d], c) /\ c.st = "done" /\ ~c.partial
  BY <1>2, EndedFacts DEF CallStates
<1>4. call' = [call EXCEPT ![d] = c]
  BY <1>3
<1>5. CallOK(c, f, settled[d])
  BY <1>3 DEF CallOK, SameDelivery
<1>6. c.durable /\ settled[d] # All =>
        \/ f.queued \/ f.failed \/ c.cut
        \/ c.best /\ (~c.observed \/ d \in replayed)
  BY <1>3 DEF SameDelivery
<1> QED
  BY <1>2, <1>3, <1>4, <1>5, <1>6, CallStep DEF SameDelivery

LEMMA AckInv ==
  ASSUME DeliveryIInv, NEW d \in Deliveries, Ack(d)
  PROVE  DeliveryIInv'
<1>1. /\ DeliveryTypes /\ CallOK(call[d], file[d], settled[d]) /\ Alive(call[d])
      /\ file[d] \in FileRecord /\ file = [file EXCEPT ![d] = file[d]]
  BY DEF DeliveryIInv, DeliveryTypes, Ack, Alive
<1>2. /\ call[d].durable
      /\ settled[d] = All \/ call[d].cut \/ (call[d].best /\ ~call[d].observed)
  BY <1>1 DEF CallOK, Ack
<1>3. PICK no \in BOOLEAN : no = FALSE
  OBVIOUS
<1>4. PICK f : f = [file[d] EXCEPT !.queued = no]
  OBVIOUS
<1>5. f \in FileRecord /\ f.failed = file[d].failed
  BY <1>1, <1>4 DEF FileRecord
<1>6. Unlinked(d) = [file EXCEPT ![d] = f]
  BY <1>3, <1>4 DEF Unlinked
<1>7. PICK g \in FileRecord : file' = [file EXCEPT ![d] = g] /\ g.failed = file[d].failed
  BY <1>1, <1>5, <1>6 DEF Ack
<1>8. /\ call' = [call EXCEPT ![d] = Ended(@, "done")]
      /\ UNCHANGED <<now, recovery, settled, replayed, overlap>>
  BY DEF Ack
<1> QED
  BY <1>1, <1>2, <1>7, <1>8, CallEnds

LEMMA ReadToFailInv ==
  ASSUME DeliveryIInv, NEW d \in Deliveries, ReadToFail(d)
  PROVE  DeliveryIInv'
<1>1. /\ DeliveryTypes /\ CallOK(call[d], file[d], settled[d]) /\ Alive(call[d])
      /\ file[d] \in FileRecord /\ call[d] \in CallRecord /\ settled[d] \in SUBSET All
      /\ file' = [file EXCEPT ![d] = file[d]] /\ settled' = [settled EXCEPT ![d] = settled[d]]
      /\ UNCHANGED <<now, file, recovery, settled, replayed, overlap>>
  BY DEF DeliveryIInv, DeliveryTypes, ReadToFail, Alive
<1>2. call[d].durable
  BY <1>1 DEF CallOK, ReadToFail
<1>3. CASE file[d].queued
  <2>1. PICK c : c = [call[d] EXCEPT !.st = "update", !.read = file[d].retryCount]
    OBVIOUS
  <2>2. /\ c \in CallRecord /\ c.st = "update" /\ c.durable = call[d].durable
        /\ c.best = call[d].best /\ c.observed = call[d].observed
        /\ c.cut = call[d].cut /\ c.partial = call[d].partial
    BY <1>1, <2>1 DEF CallRecord, CallStates, FileRecord
  <2>3. call' = [call EXCEPT ![d] = c]
    BY <1>3, <2>1 DEF ReadToFail
  <2>4. CallOK(c, file[d], settled[d])
    BY <1>1, <1>2, <2>2 DEF CallOK
  <2> QED
    BY <1>1, <2>2, <2>3, <2>4, GoesOn
<1>4. CASE ~file[d].queued
  <2>1. call' = [call EXCEPT ![d] = Ended(@, "done")]
    BY <1>4 DEF ReadToFail
  <2>2. settled[d] # All =>
          \/ file[d].queued \/ file[d].failed \/ call[d].cut
          \/ call[d].best /\ (~call[d].observed \/ d \in replayed)
    BY <1>2 DEF DeliveryIInv, NothingLost
  <2> QED
    BY <1>1, <1>2, <2>1, <2>2, CallEnds
<1> QED
  BY <1>3, <1>4

\* The entry that failDelivery writes.
LEMMA RewrittenFacts ==
  ASSUME DeliveryTypes, NEW d \in Deliveries, NEW n \in Nat
  PROVE  \E f \in FileRecord :
           Rewritten(d, n) = [file EXCEPT ![d] = f] /\ f.queued /\ f.failed = file[d].failed
<1>1. file[d] \in FileRecord /\ now \in Times \cup {NoTime} /\ n + 1 \in Nat
  BY DEF DeliveryTypes
<1>2. PICK yes \in BOOLEAN : yes = TRUE /\ yes
  OBVIOUS
<1>3. PICK f : f = [file[d] EXCEPT !.queued = yes, !.retryCount = n + 1, !.lastAttempt = now]
  OBVIOUS
<1>4. f \in FileRecord /\ f.queued = yes /\ f.failed = file[d].failed
  BY <1>1, <1>3 DEF FileRecord
<1>5. Rewritten(d, n) = [file EXCEPT ![d] = f]
  BY <1>2, <1>3 DEF Rewritten
<1> QED
  BY <1>2, <1>4, <1>5

LEMMA WriteFailedInv ==
  ASSUME DeliveryIInv, NEW d \in Deliveries, WriteFailed(d)
  PROVE  DeliveryIInv'
<1>1. /\ DeliveryTypes /\ CallOK(call[d], file[d], settled[d]) /\ Alive(call[d])
      /\ file[d] \in FileRecord /\ file = [file EXCEPT ![d] = file[d]] /\ call[d].read \in Nat
  BY DEF DeliveryIInv, DeliveryTypes, WriteFailed, Alive, CallRecord
<1>2. call[d].durable
  BY <1>1 DEF CallOK, WriteFailed
<1>3. PICK f \in FileRecord :
        /\ Rewritten(d, call[d].read) = [file EXCEPT ![d] = f]
        /\ f.queued /\ f.failed = file[d].failed
  BY <1>1, RewrittenFacts
<1>4. PICK g \in FileRecord :
        file' = [file EXCEPT ![d] = g] /\ g.failed = file[d].failed /\ (g.queued \/ g = file[d])
  BY <1>1, <1>3 DEF WriteFailed
<1>5. settled[d] # All =>
        \/ g.queued \/ g.failed \/ call[d].cut
        \/ call[d].best /\ (~call[d].observed \/ d \in replayed)
  BY <1>2, <1>4 DEF DeliveryIInv, NothingLost
<1>6. /\ call' = [call EXCEPT ![d] = Ended(@, "done")]
      /\ UNCHANGED <<now, recovery, settled, replayed, overlap>>
  BY DEF WriteFailed
<1> QED
  BY <1>1, <1>2, <1>4, <1>5, <1>6, CallEnds

-----------------------------------------------------------------------------
(* Recoveries *)

\* The entries of the queue, sorted: each of them once.
LEMMA SortedFacts ==
  ASSUME DeliveryTypes, NEW ds \in SUBSET Deliveries, NEW s \in Sorted(ds)
  PROVE  /\ s \in Seq(EntryRecord)
         /\ \A i \in 1..Len(s) : s[i].id \in ds /\ s[i] = Entry(s[i].id)
         /\ \A i, j \in 1..Len(s) : s[i].id = s[j].id => i = j
<1>1. \A d \in ds : Entry(d) \in EntryRecord /\ Entry(d).id = d
  BY DEF Entry, EntryRecord, DeliveryTypes, FileRecord
<1>2. PICK E : E = {Entry(d) : d \in ds}
  OBVIOUS
<1>3. IsFiniteSet(ds)
  BY FS_Subset, DeliveryAssumption
<1>4. IsFiniteSet(E)
  <2>1. PICK g : g = [d \in ds |-> Entry(d)]
    OBVIOUS
  <2>2. g \in [ds -> E] /\ \A e \in E : \E d \in ds : g[d] = e
    BY <1>2, <2>1
  <2>3. g \in Surjection(ds, E)
    BY <2>2 DEF Surjection
  <2> QED
    BY <1>3, <2>3, FS_Surjection
<1>5. PICK n \in Nat : n = Cardinality(E)
  BY <1>4, FS_CardinalityType
<1>6. s \in [1..n -> E] /\ \A i, j \in 1..n : i # j => s[i] # s[j]
  BY <1>2, <1>5 DEF Sorted, SetToSeqs
<1>7. s \in Seq(E) /\ Len(s) = n
  BY <1>6
<1>8. E \subseteq EntryRecord
  BY <1>1, <1>2
<1>9. s \in Seq(EntryRecord)
  BY <1>6, <1>7, <1>8
<1>10. \A i \in 1..n : s[i].id \in ds /\ s[i] = Entry(s[i].id)
  <2> SUFFICES ASSUME NEW i \in 1..n PROVE s[i].id \in ds /\ s[i] = Entry(s[i].id)
    OBVIOUS
  <2>1. s[i] \in E
    BY <1>6
  <2>2. PICK d \in ds : s[i] = Entry(d)
    BY <1>2, <2>1
  <2> QED
    BY <1>1, <2>2
<1> QED
  BY <1>6, <1>7, <1>9, <1>10

LEMMA LoadInv ==
  ASSUME DeliveryIInv, NEW r \in Recoveries, Load(r)
  PROVE  DeliveryIInv'
<1>1. DeliveryTypes /\ recovery[r].st = "load" /\ RecoveryOK(recovery[r], call, settled, replayed)
  BY DEF DeliveryIInv, Load
<1>2. /\ UNCHANGED <<now, file, call, settled, replayed>>
  BY DEF Load
<1>3. PICK Q \in SUBSET Deliveries : Q = {d \in Deliveries : file[d].queued}
  OBVIOUS
<1>4. PICK p \in Sorted(Q) :
        recovery' = [recovery EXCEPT ![r] =
                       [NoRecovery EXCEPT !.st = "loop", !.pending = p,
                                          !.deadline = now + Budget]]
  BY <1>3 DEF Load
<1>5. overlap' = overlap \cup
        {d \in Q : Alive(call[d]) \/ \E x \in Recoveries \ {r} : d \in Pending(x)}
  BY <1>3 DEF Load
<1>6. /\ p \in Seq(EntryRecord)
      /\ \A i \in 1..Len(p) : p[i].id \in Q /\ p[i] = Entry(p[i].id)
      /\ \A i, j \in 1..Len(p) : p[i].id = p[j].id => i = j
  BY <1>1, SortedFacts
<1>7. PICK q : q = [NoRecovery EXCEPT !.st = "loop", !.pending = p, !.deadline = now + Budget]
  OBVIOUS
<1>8. /\ q = [st |-> "loop", pending |-> p, deadline |-> now + Budget, next |-> 1, read |-> 0]
      /\ now + Budget \in Nat /\ 1 \in 1..Payloads + 1 /\ "loop" \in RecoveryStates
  <2>1. q = [st |-> "loop", pending |-> p, deadline |-> now + Budget, next |-> 1, read |-> 0]
    BY <1>7 DEF NoRecovery
  <2>2. now \in Nat /\ Budget \in Nat /\ Payloads \in Nat
    BY <1>1, DeliveryAssumption DEF DeliveryTypes, Times
  <2> QED
    BY <2>1, <2>2 DEF RecoveryStates
<1>9. q \in RecoveryRecord /\ q.st = "loop" /\ q.pending = p /\ q.next = 1
  BY <1>6, <1>8 DEF RecoveryRecord
<1>10. /\ recovery'[r] = q
       /\ \A x \in Recoveries \ {r} : recovery'[x] = recovery[x]
  BY <1>1, <1>4, <1>7 DEF DeliveryTypes
<1>11. overlap \subseteq overlap' /\ overlap' \subseteq Deliveries
  BY <1>1, <1>3, <1>5 DEF DeliveryTypes
<1>12. DeliveryTypes'
  <2>1. recovery' = [recovery EXCEPT ![r] = q]
    BY <1>4, <1>7
  <2> QED
    BY <1>1, <1>2, <1>9, <1>11, <2>1 DEF DeliveryTypes
<1>13. (\A d \in Deliveries : CallOK(call[d], file[d], settled[d]))'
  BY <1>2 DEF DeliveryIInv
<1>14. \A d \in Q : call[d].durable
  BY <1>3 DEF DeliveryIInv, CallOK
<1>15. (\A x \in Recoveries : RecoveryOK(recovery[x], call, settled, replayed))'
  <2> SUFFICES ASSUME NEW x \in Recoveries
               PROVE  RecoveryOK(recovery'[x], call, settled, replayed)
    BY <1>2
  <2>1. CASE x = r
    <3>1. RecoveryOK(q, call, settled, replayed)
      BY <1>6, <1>9, <1>14 DEF RecoveryOK, Busy
    <3> QED
      BY <1>10, <2>1, <3>1
  <2>2. CASE x # r
    BY <1>10, <2>2 DEF DeliveryIInv
  <2> QED
    BY <2>1, <2>2
<1>16. NothingLost' /\ FailedLeavesQueue' /\ AliveIsNotFailed'
  BY <1>2, <1>11 DEF DeliveryIInv, NothingLost, FailedLeavesQueue, AliveIsNotFailed, Alive
<1>17. /\ \A x \in Recoveries \ {r} : Pending(x)' = Pending(x)
       /\ Pending(r)' \subseteq Q
  <2>1. \A x \in Recoveries \ {r} : Pending(x)' = Pending(x)
    BY <1>10 DEF Pending
  <2>2. DOMAIN p = 1..Len(p)
    BY <1>6
  <2> QED
    BY <1>6, <1>9, <1>10, <2>1, <2>2 DEF Pending
<1>18. OneAttempt'
  <2> SUFFICES ASSUME NEW x \in Recoveries, NEW d \in Pending(x)' \ overlap'
               PROVE  ~Alive(call[d]) /\ \A y \in Recoveries : d \in Pending(y)' => y = x
    BY <1>2 DEF OneAttempt, Alive
  <2>1. CASE x = r
    <3>1. d \in Q
      BY <1>17, <2>1
    <3>2. ~Alive(call[d]) /\ \A y \in Recoveries \ {r} : d \notin Pending(y)
      BY <1>5, <3>1
    <3> QED
      BY <1>17, <2>1, <3>2
  <2>2. CASE x # r
    <3>1. d \in Pending(x) \ overlap
      BY <1>11, <1>17, <2>2
    <3>2. ~Alive(call[d]) /\ \A y \in Recoveries : d \in Pending(y) => y = x
      BY <3>1 DEF DeliveryIInv, OneAttempt
    <3>3. d \notin Pending(r)'
      BY <1>5, <1>17, <2>2, <3>1
    <3> QED
      BY <1>17, <2>2, <3>2, <3>3
  <2> QED
    BY <2>1, <2>2
<1>19. EntriesMatch'
  <2> SUFFICES ASSUME NEW x \in Recoveries, NEW i \in 1..Len(recovery'[x].pending),
                      NEW e, e = recovery'[x].pending[i].id, e \notin overlap'
               PROVE  file[e].queued /\ recovery'[x].pending[i] = Entry(e)
    BY <1>2 DEF EntriesMatch, Entry
  <2>1. CASE x = r
    BY <1>3, <1>6, <1>9, <1>10, <2>1
  <2>2. CASE x # r
    <3>1. recovery'[x] = recovery[x] /\ e \notin overlap
      BY <1>10, <1>11, <2>2
    <3> QED
      BY <3>1 DEF DeliveryIInv, EntriesMatch
  <2> QED
    BY <2>1, <2>2
<1> QED
  BY <1>12, <1>13, <1>15, <1>16, <1>18, <1>19 DEF DeliveryIInv

\* A recovery that is done, or is to load the queue, has no list.
LEMMA IdleFacts ==
  ASSUME NEW st \in {"load", "done"}
  PROVE  /\ [NoRecovery EXCEPT !.st = st] \in RecoveryRecord
         /\ [NoRecovery EXCEPT !.st = st].st = st
         /\ [NoRecovery EXCEPT !.st = st].pending = <<>>
         /\ NoRecovery \in RecoveryRecord /\ NoRecovery.pending = <<>> /\ NoRecovery.st = "off"
<1>1. /\ NoRecovery \in RecoveryRecord /\ NoRecovery.pending = <<>> /\ NoRecovery.st = "off"
  BY DeliveryAssumption DEF NoRecovery, RecoveryRecord, RecoveryStates
<1> QED
  BY <1>1 DEF RecoveryRecord, RecoveryStates, Busy

\* What is needed of a recovery that is at an entry.
LEMMA AtEntry ==
  ASSUME DeliveryIInv, NEW r \in Recoveries, recovery[r].pending # <<>>
  PROVE  \E d \in Deliveries :
           /\ d = Current(r).id /\ d \in Pending(r) /\ call[d].durable
           /\ DeliveryTypes /\ RecoveryOK(recovery[r], call, settled, replayed)
           /\ recovery[r] \in RecoveryRecord /\ file[d] \in FileRecord
           /\ settled[d] \in SUBSET All
           /\ settled = [settled EXCEPT ![d] = settled[d]]
           /\ file = [file EXCEPT ![d] = file[d]]
           /\ d \notin overlap =>
                file[d].queued /\ ~file[d].failed /\ Current(r) = Entry(d)
           /\ settled[d] # All =>
                \/ file[d].queued \/ file[d].failed \/ call[d].cut
                \/ call[d].best /\ (~call[d].observed \/ d \in replayed)
<1>1. DeliveryTypes /\ RecoveryOK(recovery[r], call, settled, replayed)
  BY DEF DeliveryIInv
<1>2. PICK d \in Deliveries : d = Current(r).id /\ d \in Pending(r) /\ call[d].durable
  BY PassedFacts
<1>3. /\ recovery[r] \in RecoveryRecord /\ file[d] \in FileRecord
      /\ settled[d] \in SUBSET All
      /\ settled = [settled EXCEPT ![d] = settled[d]]
      /\ file = [file EXCEPT ![d] = file[d]]
  BY <1>1 DEF DeliveryTypes
<1>4. 1 \in 1..Len(recovery[r].pending)
  BY <1>3 DEF RecoveryRecord
<1>5. d \notin overlap => file[d].queued /\ Current(r) = Entry(d)
  BY <1>2, <1>4 DEF DeliveryIInv, EntriesMatch, Current
<1>6. d \notin overlap => ~file[d].failed
  BY <1>5 DEF DeliveryIInv, FailedLeavesQueue
<1>7. settled[d] # All =>
        \/ file[d].queued \/ file[d].failed \/ call[d].cut
        \/ call[d].best /\ (~call[d].observed \/ d \in replayed)
  BY <1>2 DEF DeliveryIInv, NothingLost
<1> QED
  BY <1>1, <1>2, <1>3, <1>5, <1>6, <1>7

\* A recovery changes to a state st of its work on the entry, without a change of the queue.
TurnsTo(r, d, st, n, k, s) ==
  /\ d = Current(r).id
  /\ recovery' = [recovery EXCEPT ![r] = [@ EXCEPT !.st = st, !.next = n, !.read = k]]
  /\ settled' = [settled EXCEPT ![d] = s]
  /\ UNCHANGED <<now, file, call, overlap>>

LEMMA TurnTo ==
  ASSUME DeliveryIInv, NEW r \in Recoveries, recovery[r].pending # <<>>, NEW st \in Busy,
         NEW d, NEW s \in SUBSET All, NEW n \in 1..Payloads + 1, NEW k \in Nat,
         TurnsTo(r, d, st, n, k, s),
         replayed' \in {replayed, replayed \cup {d}},
         settled[d] \subseteq s,
         st \in {"send", "ack"} => d \in replayed',
         st = "send" => n \in All /\ DealtWith(n - 1, s, call[d].best),
         st = "ack" => s = All \/ call[d].best
  PROVE  DeliveryIInv'
<1>1. recovery[r] \in RecoveryRecord
  BY AtEntry
<1>2. PICK q : q = [recovery[r] EXCEPT !.st = st, !.next = n, !.read = k]
  OBVIOUS
<1>3. q \in RecoveryRecord /\ q.st = st /\ q.next = n /\ q.pending = recovery[r].pending
  BY <1>1, <1>2 DEF RecoveryRecord, RecoveryStates
<1>4. Stays(r, d, q, s)
  BY <1>2 DEF Stays, TurnsTo
<1> QED
  BY <1>3, <1>4, StayStep

LEMMA NextEntryInv ==
  ASSUME DeliveryIInv, NEW r \in Recoveries, NextEntry(r)
  PROVE  DeliveryIInv'
<1>1. /\ DeliveryTypes /\ RecoveryOK(recovery[r], call, settled, replayed)
      /\ recovery[r].st = "loop" /\ recovery[r].next = 1 /\ recovery[r] \in RecoveryRecord
      /\ UNCHANGED <<now, file, call, settled, overlap>>
  BY DEF DeliveryIInv, NextEntry, RecoveryOK, DeliveryTypes
<1>2. CASE /\ recovery' = [recovery EXCEPT ![r] = [NoRecovery EXCEPT !.st = "done"]]
           /\ UNCHANGED replayed
  <2>1. PICK q \in RecoveryRecord :
          q = [NoRecovery EXCEPT !.st = "done"] /\ q.st = "done" /\ q.pending = <<>>
    BY IdleFacts
  <2>2. recovery' = [recovery EXCEPT ![r] = q]
    BY <1>2, <2>1
  <2>3. /\ recovery' \in [Recoveries -> RecoveryRecord]
        /\ \A x \in Recoveries :
             \/ recovery'[x] = recovery[x]
             \/ recovery'[x].pending = <<>> /\ recovery'[x].st \notin Busy \cup {"loop"}
    BY <1>1, <2>1, <2>2 DEF DeliveryTypes, Busy
  <2>4. /\ now' \in Times /\ call' \in [Deliveries -> CallRecord]
        /\ \A d \in Deliveries : call'[d] = call[d]
        /\ UNCHANGED <<file, settled, replayed, overlap>>
    BY <1>1, <1>2 DEF DeliveryTypes
  <2> QED
    BY <2>3, <2>4, GatewayStep
<1>3. ASSUME recovery[r].pending # <<>>,
             \/ /\ recovery' = [recovery EXCEPT ![r].st = "move"]
                /\ UNCHANGED replayed
             \/ /\ recovery' = [recovery EXCEPT ![r] = Passed(r)]
                /\ UNCHANGED replayed
             \/ /\ recovery' = [recovery EXCEPT ![r].st = "send"]
                /\ replayed' = replayed \cup {Current(r).id}
      PROVE  DeliveryIInv'
  <2>1. PICK d \in Deliveries :
           /\ d = Current(r).id
           /\ file[d] \in FileRecord /\ settled[d] \in SUBSET All
           /\ settled = [settled EXCEPT ![d] = settled[d]]
           /\ file = [file EXCEPT ![d] = file[d]]
           /\ d \notin overlap => file[d].queued /\ ~file[d].failed
           /\ settled[d] # All =>
                \/ file[d].queued \/ file[d].failed \/ call[d].cut
                \/ call[d].best /\ (~call[d].observed \/ d \in replayed)
    BY <1>3, AtEntry
  <2>2. PICK k \in Nat : k = recovery[r].read
    BY <1>1 DEF RecoveryRecord
  <2>3. /\ 1 \in All /\ 1 \in 1..Payloads + 1
        /\ DealtWith(1 - 1, settled[d], call[d].best)
    BY DeliveryAssumption DEF All, DealtWith
  <2>4. \A st \in Busy :
          [recovery[r] EXCEPT !.st = st] = [recovery[r] EXCEPT !.st = st, !.next = 1, !.read = k]
    BY <1>1, <2>2 DEF RecoveryRecord
  <2>5. CASE recovery' = [recovery EXCEPT ![r].st = "move"] /\ UNCHANGED replayed
    <3>1. PICK st \in Busy : st = "move"
      BY DEF Busy
    <3>2. TurnsTo(r, d, st, 1, k, settled[d])
      BY <1>1, <2>1, <2>4, <2>5, <3>1 DEF TurnsTo
    <3>3. replayed' \in {replayed, replayed \cup {d}} /\ st \notin {"send", "ack"}
      BY <2>5, <3>1
    <3> QED
      BY <1>3, <2>1, <2>3, <3>2, <3>3, TurnTo
  <2>6. CASE recovery' = [recovery EXCEPT ![r] = Passed(r)] /\ UNCHANGED replayed
    <3>1. PassesOn(r, d, file[d])
      BY <1>1, <2>1, <2>6 DEF PassesOn
    <3> QED
      BY <1>3, <2>1, <3>1, PassStep
  <2>7. CASE /\ recovery' = [recovery EXCEPT ![r].st = "send"]
             /\ replayed' = replayed \cup {Current(r).id}
    <3>1. PICK st \in Busy : st = "send"
      BY DEF Busy
    <3>2. TurnsTo(r, d, st, 1, k, settled[d])
      BY <1>1, <2>1, <2>4, <2>7, <3>1 DEF TurnsTo
    <3>3. replayed' \in {replayed, replayed \cup {d}} /\ d \in replayed' /\ st # "ack"
      BY <2>1, <2>7, <3>1
    <3> QED
      BY <1>3, <2>1, <2>3, <3>2, <3>3, TurnTo
  <2> QED
    BY <1>3, <2>5, <2>6, <2>7
<1> QED
  BY <1>2, <1>3 DEF NextEntry

LEMMA ResendInv ==
  ASSUME DeliveryIInv, NEW r \in Recoveries, Resend(r)
  PROVE  DeliveryIInv'
<1>1. /\ DeliveryTypes /\ RecoveryOK(recovery[r], call, settled, replayed)
      /\ recovery[r].st = "send" /\ recovery[r].pending # <<>>
      /\ UNCHANGED <<now, file, call, replayed, overlap>>
  BY DEF DeliveryIInv, Resend, RecoveryOK, Busy
<1>2. PICK d \in Deliveries :
        /\ d = Current(r).id /\ recovery[r] \in RecoveryRecord
        /\ settled[d] \in SUBSET All /\ settled = [settled EXCEPT ![d] = settled[d]]
  BY <1>1, AtEntry
<1>3. PICK n \in All : n = recovery[r].next
  BY <1>1 DEF RecoveryOK
<1>4. DealtWith(n - 1, settled[d], call[d].best) /\ d \in replayed'
  BY <1>1, <1>2, <1>3 DEF RecoveryOK, Current
<1>5. PICK k \in Nat : k = recovery[r].read
  BY <1>2 DEF RecoveryRecord
<1>6. n \in Nat /\ Payloads \in All /\ n \in 1..Payloads + 1 /\ n + 1 \in 1..Payloads + 1
  BY DeliveryAssumption DEF All
<1>7. PICK on : on = [recovery[r] EXCEPT !.next = @ + 1,
                                         !.st = IF n = Payloads THEN "ack" ELSE "send"]
  OBVIOUS
\* The payload is dealt with: it is sent, or skipped under bestEffort.
<1>8. ASSUME NEW s \in SUBSET All, settled[d] \subseteq s, n \in s \/ call[d].best,
             settled' = [settled EXCEPT ![d] = s],
             recovery' = [recovery EXCEPT ![r] = on]
      PROVE  DeliveryIInv'
  <2>1. PICK st \in Busy : st = IF n = Payloads THEN "ack" ELSE "send"
    BY DEF Busy
  <2>2. PICK m \in 1..Payloads + 1 : m = n + 1 /\ m - 1 = n
    BY <1>6
  <2>3. on = [recovery[r] EXCEPT !.st = st, !.next = m, !.read = k]
    BY <1>2, <1>3, <1>5, <1>7, <2>1, <2>2 DEF RecoveryRecord
  <2>4. \A p \in 1..n : p \in s \/ call[d].best
    <3>1. \A p \in 1..n : p = n \/ p \in 1..n - 1
      BY <1>6
    <3> QED
      BY <1>4, <1>8, <3>1 DEF DealtWith
  <2>5. st = "send" => m \in All /\ DealtWith(m - 1, s, call[d].best)
    BY <1>6, <2>1, <2>2, <2>4 DEF All, DealtWith
  <2>6. st = "ack" => s = All \/ call[d].best
    BY <2>1, <2>4 DEF All
  <2>7. TurnsTo(r, d, st, m, k, s)
    BY <1>1, <1>2, <1>8, <2>3 DEF TurnsTo
  <2>8. replayed' \in {replayed, replayed \cup {d}}
    BY <1>1
  <2> QED
    BY <1>1, <1>4, <1>8, <2>5, <2>6, <2>7, <2>8, TurnTo
\* The payload fails, or what comes after it.
<1>9. ASSUME NEW s \in SUBSET All, settled[d] \subseteq s,
             settled' = [settled EXCEPT ![d] = s],
             NEW st \in {"fail", "move"}, recovery' = [recovery EXCEPT ![r].st = st]
      PROVE  DeliveryIInv'
  <2>1. st \in Busy /\ st \notin {"send", "ack"}
    BY DEF Busy
  <2>2. TurnsTo(r, d, st, n, k, s)
    <3>1. [recovery[r] EXCEPT !.st = st] = [recovery[r] EXCEPT !.st = st, !.next = n, !.read = k]
      BY <1>2, <1>3, <1>5 DEF RecoveryRecord
    <3> QED
      BY <1>1, <1>2, <1>9, <3>1 DEF TurnsTo
  <2>3. replayed' \in {replayed, replayed \cup {d}}
    BY <1>1
  <2> QED
    BY <1>1, <1>6, <1>9, <2>1, <2>2, <2>3, TurnTo
<1>10. CASE Settle(d, n) /\ recovery' = [recovery EXCEPT ![r] = on]
  <2>1. PICK s \in SUBSET All : s = settled[d] \cup {n} /\ settled' = [settled EXCEPT ![d] = s]
    BY <1>2, <1>10 DEF Settle
  <2> QED
    BY <1>8, <1>10, <2>1
<1>11. CASE call[d].best /\ recovery' = [recovery EXCEPT ![r] = on] /\ UNCHANGED settled
  BY <1>2, <1>8, <1>11
<1>12. CASE /\ \E st \in {"fail", "move"} : recovery' = [recovery EXCEPT ![r].st = st]
            /\ UNCHANGED settled
  BY <1>2, <1>9, <1>12
<1>13. CASE /\ Settle(d, Payloads)
            /\ \E st \in {"fail", "move"} : recovery' = [recovery EXCEPT ![r].st = st]
  <2>1. PICK s \in SUBSET All :
          s = settled[d] \cup {Payloads} /\ settled' = [settled EXCEPT ![d] = s]
    BY <1>2, <1>6, <1>13 DEF Settle
  <2> QED
    BY <1>9, <1>13, <2>1
<1> QED
  BY <1>2, <1>3, <1>7, <1>10, <1>11, <1>12, <1>13 DEF Resend

LEMMA AckRecoveredInv ==
  ASSUME DeliveryIInv, NEW r \in Recoveries, AckRecovered(r)
  PROVE  DeliveryIInv'
<1>1. /\ DeliveryTypes /\ RecoveryOK(recovery[r], call, settled, replayed)
      /\ recovery[r].st = "ack" /\ recovery[r].pending # <<>>
      /\ UNCHANGED <<now, call, settled, replayed, overlap>>
  BY DEF DeliveryIInv, AckRecovered, RecoveryOK, Busy
<1>2. PICK d \in Deliveries :
        /\ d = Current(r).id /\ recovery[r] \in RecoveryRecord /\ file[d] \in FileRecord
        /\ settled[d] \in SUBSET All /\ settled = [settled EXCEPT ![d] = settled[d]]
        /\ d \notin overlap => ~file[d].failed
  BY <1>1, AtEntry
<1>3. (settled[d] = All \/ call[d].best) /\ d \in replayed
  BY <1>1, <1>2 DEF RecoveryOK, Current
<1>4. CASE file' = Unlinked(d) /\ recovery' = [recovery EXCEPT ![r] = Passed(r)]
  <2>1. PICK no \in BOOLEAN : no = FALSE
    OBVIOUS
  <2>2. PICK f : f = [file[d] EXCEPT !.queued = no]
    OBVIOUS
  <2>3. f \in FileRecord /\ f.queued = no /\ f.failed = file[d].failed
    BY <1>2, <2>2 DEF FileRecord
  <2>4. file' = [file EXCEPT ![d] = f]
    BY <1>4, <2>1, <2>2 DEF Unlinked
  <2>5. PassesOn(r, d, f)
    BY <1>1, <1>2, <1>4, <2>4 DEF PassesOn
  <2> QED
    BY <1>1, <1>2, <1>3, <2>1, <2>3, <2>5, PassStep
<1>5. CASE recovery' = [recovery EXCEPT ![r].st = "fail"] /\ UNCHANGED file
  <2>1. PICK st \in Busy : st = "fail"
    BY DEF Busy
  <2>2. PICK n \in 1..Payloads + 1 : n = recovery[r].next
    BY <1>2 DEF RecoveryRecord
  <2>3. PICK k \in Nat : k = recovery[r].read
    BY <1>2 DEF RecoveryRecord
  <2>4. TurnsTo(r, d, st, n, k, settled[d])
    <3>1. [recovery[r] EXCEPT !.st = st] = [recovery[r] EXCEPT !.st = st, !.next = n, !.read = k]
      BY <1>2, <2>2, <2>3 DEF RecoveryRecord
    <3> QED
      BY <1>1, <1>2, <1>5, <2>1, <3>1 DEF TurnsTo
  <2>5. replayed' \in {replayed, replayed \cup {d}} /\ st \notin {"send", "ack"}
    BY <1>1, <2>1
  <2>6. recovery[r].pending # <<>>
    BY <1>1
  <2> QED
    BY <1>2, <2>4, <2>5, <2>6, TurnTo
<1> QED
  BY <1>2, <1>4, <1>5 DEF AckRecovered

LEMMA MoveToFailedInv ==
  ASSUME DeliveryIInv, NEW r \in Recoveries, MoveToFailed(r)
  PROVE  DeliveryIInv'
<1>1. /\ DeliveryTypes /\ recovery[r].pending # <<>>
      /\ recovery' = [recovery EXCEPT ![r] = Passed(r)]
      /\ UNCHANGED <<now, call, settled, replayed, overlap>>
  BY DEF DeliveryIInv, MoveToFailed, RecoveryOK, Busy
<1>2. PICK d \in Deliveries :
        /\ d = Current(r).id /\ file[d] \in FileRecord
        /\ file = [file EXCEPT ![d] = file[d]]
        /\ d \notin overlap => ~file[d].failed
        /\ settled[d] # All =>
             \/ file[d].queued \/ file[d].failed \/ call[d].cut
             \/ call[d].best /\ (~call[d].observed \/ d \in replayed)
  BY <1>1, AtEntry
<1>3. CASE file[d].queued /\ file' = MovedToFailed(d)
  <2>1. PICK no \in BOOLEAN, yes \in BOOLEAN : no = FALSE /\ yes = TRUE /\ yes /\ ~no
    OBVIOUS
  <2>2. PICK f : f = [file[d] EXCEPT !.queued = no, !.failed = yes]
    OBVIOUS
  <2>3. f \in FileRecord /\ f.queued = no /\ f.failed = yes
    BY <1>2, <2>2 DEF FileRecord
  <2>4. file' = [file EXCEPT ![d] = f]
    BY <1>2, <1>3, <2>1, <2>2 DEF MovedToFailed
  <2>5. PassesOn(r, d, f)
    BY <1>1, <1>2, <2>4 DEF PassesOn
  <2> QED
    BY <1>1, <1>2, <2>1, <2>3, <2>5, PassStep
<1>4. CASE file' = file
  <2>1. PassesOn(r, d, file[d])
    BY <1>1, <1>2, <1>4 DEF PassesOn
  <2> QED
    BY <1>1, <1>2, <2>1, PassStep
<1> QED
  BY <1>2, <1>3, <1>4 DEF MoveToFailed, MovedToFailed

LEMMA ReadToFailAgainInv ==
  ASSUME DeliveryIInv, NEW r \in Recoveries, ReadToFailAgain(r)
  PROVE  DeliveryIInv'
<1>1. /\ DeliveryTypes /\ recovery[r].pending # <<>>
      /\ UNCHANGED <<now, file, call, settled, replayed, overlap>>
  BY DEF DeliveryIInv, ReadToFailAgain, RecoveryOK, Busy
<1>2. PICK d \in Deliveries :
        /\ d = Current(r).id /\ file[d] \in FileRecord /\ recovery[r] \in RecoveryRecord
        /\ file = [file EXCEPT ![d] = file[d]]
        /\ settled[d] \in SUBSET All /\ settled = [settled EXCEPT ![d] = settled[d]]
        /\ d \notin overlap => ~file[d].failed
        /\ settled[d] # All =>
             \/ file[d].queued \/ file[d].failed \/ call[d].cut
             \/ call[d].best /\ (~call[d].observed \/ d \in replayed)
  BY <1>1, AtEntry
<1>3. CASE file[d].queued
  <2>1. PICK st \in Busy : st = "update"
    BY DEF Busy
  <2>2. PICK n \in 1..Payloads + 1 : n = recovery[r].next
    BY <1>2 DEF RecoveryRecord
  <2>3. PICK k \in Nat : k = file[d].retryCount
    BY <1>2 DEF FileRecord
  <2>4. TurnsTo(r, d, st, n, k, settled[d])
    <3>1. [recovery[r] EXCEPT !.st = st, !.read = k]
            = [recovery[r] EXCEPT !.st = st, !.next = n, !.read = k]
      BY <1>2, <2>2 DEF RecoveryRecord
    <3>2. recovery' = [recovery EXCEPT ![r] = [recovery[r] EXCEPT !.st = st, !.read = k]]
      BY <1>2, <1>3, <2>1, <2>3 DEF ReadToFailAgain
    <3> QED
      BY <1>1, <1>2, <3>1, <3>2 DEF TurnsTo
  <2>5. replayed' \in {replayed, replayed \cup {d}} /\ st \notin {"send", "ack"}
    BY <1>1, <2>1
  <2> QED
    BY <1>1, <1>2, <2>4, <2>5, TurnTo
<1>4. CASE ~file[d].queued
  <2>1. recovery' = [recovery EXCEPT ![r] = Passed(r)]
    BY <1>2, <1>4 DEF ReadToFailAgain
  <2>2. PassesOn(r, d, file[d])
    BY <1>1, <1>2, <2>1 DEF PassesOn
  <2> QED
    BY <1>1, <1>2, <2>2, PassStep
<1> QED
  BY <1>3, <1>4

LEMMA WriteFailedAgainInv ==
  ASSUME DeliveryIInv, NEW r \in Recoveries, WriteFailedAgain(r)
  PROVE  DeliveryIInv'
<1>1. /\ DeliveryTypes /\ recovery[r].pending # <<>>
      /\ recovery' = [recovery EXCEPT ![r] = Passed(r)]
      /\ UNCHANGED <<now, call, settled, replayed, overlap>>
  BY DEF DeliveryIInv, WriteFailedAgain, RecoveryOK, Busy
<1>2. PICK d \in Deliveries :
        /\ d = Current(r).id /\ file[d] \in FileRecord /\ recovery[r] \in RecoveryRecord
        /\ file = [file EXCEPT ![d] = file[d]]
        /\ d \notin overlap => ~file[d].failed
        /\ settled[d] # All =>
             \/ file[d].queued \/ file[d].failed \/ call[d].cut
             \/ call[d].best /\ (~call[d].observed \/ d \in replayed)
  BY <1>1, AtEntry
<1>3. CASE file' = Rewritten(d, recovery[r].read)
  <2>1. recovery[r].read \in Nat
    BY <1>2 DEF RecoveryRecord
  <2>2. PICK f \in FileRecord :
          /\ Rewritten(d, recovery[r].read) = [file EXCEPT ![d] = f]
          /\ f.queued /\ f.failed = file[d].failed
    BY <1>1, <2>1, RewrittenFacts
  <2>3. PassesOn(r, d, f)
    BY <1>1, <1>2, <1>3, <2>2 DEF PassesOn
  <2> QED
    BY <1>1, <1>2, <2>2, <2>3, PassStep
<1>4. CASE file' = file
  <2>1. PassesOn(r, d, file[d])
    BY <1>1, <1>2, <1>4 DEF PassesOn
  <2> QED
    BY <1>1, <1>2, <2>1, PassStep
<1> QED
  BY <1>2, <1>3, <1>4 DEF WriteFailedAgain

-----------------------------------------------------------------------------
(* Gateways *)

LEMMA CrashInv ==
  ASSUME DeliveryIInv, NEW r \in Recoveries, CrashAndRestart(r)
  PROVE  DeliveryIInv'
<1>1. DeliveryTypes /\ UNCHANGED <<now, file, settled, replayed, overlap>>
  BY DEF DeliveryIInv, CrashAndRestart
<1>2. \A d \in Deliveries : call'[d] = call[d] \/ call'[d] = Ended(call[d], "dead")
  BY DEF CrashAndRestart
<1>3. call' \in [Deliveries -> CallRecord]
  <2>1. \A d \in Deliveries :
          call[d] \in CallRecord /\ Ended(call[d], "dead") \in CallRecord
    BY <1>1, EndedFacts DEF DeliveryTypes, CallStates
  <2> QED
    BY <2>1 DEF CrashAndRestart
<1>4. PICK q \in RecoveryRecord :
        q = [NoRecovery EXCEPT !.st = "load"] /\ q.st = "load" /\ q.pending = <<>>
  BY IdleFacts
<1>5. NoRecovery \in RecoveryRecord /\ NoRecovery.pending = <<>> /\ NoRecovery.st = "off"
  BY IdleFacts
<1>6. recovery' = [x \in Recoveries |-> IF x = r THEN q ELSE NoRecovery]
  BY <1>4 DEF CrashAndRestart
<1>7. /\ recovery' \in [Recoveries -> RecoveryRecord]
      /\ \A x \in Recoveries :
           recovery'[x].pending = <<>> /\ recovery'[x].st \notin Busy \cup {"loop"}
  BY <1>4, <1>5, <1>6 DEF Busy
<1>8. now' \in Times
  BY <1>1 DEF DeliveryTypes
<1> QED
  BY <1>1, <1>2, <1>3, <1>7, <1>8, GatewayStep

LEMMA RestartInPlaceInv ==
  ASSUME DeliveryIInv, NEW r \in Recoveries, RestartInPlace(r)
  PROVE  DeliveryIInv'
<1>1. DeliveryTypes /\ UNCHANGED <<now, file, call, settled, replayed, overlap>>
  BY DEF DeliveryIInv, RestartInPlace
<1>2. PICK q \in RecoveryRecord :
        q = [NoRecovery EXCEPT !.st = "load"] /\ q.st = "load" /\ q.pending = <<>>
  BY IdleFacts
<1>3. recovery' = [recovery EXCEPT ![r] = q]
  BY <1>2 DEF RestartInPlace
<1>4. /\ recovery' \in [Recoveries -> RecoveryRecord]
      /\ \A x \in Recoveries :
           \/ recovery'[x] = recovery[x]
           \/ recovery'[x].pending = <<>> /\ recovery'[x].st \notin Busy \cup {"loop"}
  BY <1>1, <1>2, <1>3 DEF DeliveryTypes, Busy
<1>5. now' \in Times /\ call' \in [Deliveries -> CallRecord]
  BY <1>1 DEF DeliveryTypes
<1> QED
  BY <1>1, <1>4, <1>5, GatewayStep

\* Time passes, or nothing happens.
LEMMA QuietInv ==
  ASSUME DeliveryIInv, Tick \/ UNCHANGED vars
  PROVE  DeliveryIInv'
<1>1. DeliveryTypes /\ UNCHANGED <<file, call, recovery, settled, replayed, overlap>>
  BY DEF DeliveryIInv, Tick, vars
<1>2. now' \in Times
  BY <1>1, DeliveryAssumption DEF DeliveryTypes, Times, Tick, vars
<1>3. call' \in [Deliveries -> CallRecord] /\ recovery' \in [Recoveries -> RecoveryRecord]
  BY <1>1 DEF DeliveryTypes
<1> QED
  BY <1>1, <1>2, <1>3, GatewayStep

LEMMA DeliveryNextInv == DeliveryIInv /\ [Next]_vars => DeliveryIInv'
<1> SUFFICES ASSUME DeliveryIInv, [Next]_vars PROVE DeliveryIInv'
  OBVIOUS
<1>1. ASSUME NEW d \in Deliveries,
             \/ \E k \in Kinds : Begin(d, k)
             \/ SendPayload(d) \/ Abort(d) \/ Ack(d) \/ ReadToFail(d) \/ WriteFailed(d)
      PROVE  DeliveryIInv'
  BY <1>1, BeginInv, SendPayloadInv, AbortInv, AckInv, ReadToFailInv, WriteFailedInv
<1>2. ASSUME NEW r \in Recoveries,
             \/ Load(r) \/ NextEntry(r) \/ Resend(r) \/ AckRecovered(r) \/ MoveToFailed(r)
             \/ ReadToFailAgain(r) \/ WriteFailedAgain(r)
             \/ CrashAndRestart(r) \/ RestartInPlace(r)
      PROVE  DeliveryIInv'
  BY <1>2, LoadInv, NextEntryInv, ResendInv, AckRecoveredInv, MoveToFailedInv,
     ReadToFailAgainInv, WriteFailedAgainInv, CrashInv, RestartInPlaceInv
<1>3. ASSUME Tick \/ UNCHANGED vars PROVE DeliveryIInv'
  BY <1>3, QuietInv
<1> QED
  BY <1>1, <1>2, <1>3 DEF Next

-----------------------------------------------------------------------------
(* The theorems *)

LEMMA DeliveryInvariant == Spec => []DeliveryIInv
<1> QED
  BY DeliveryInitInv, DeliveryNextInv, PTL DEF Spec

LEMMA DeliveryFollows == DeliveryIInv => DeliveryInv
<1> SUFFICES ASSUME DeliveryIInv PROVE DeliveryInv
  OBVIOUS
<1>1. DeliveryTypes
  BY DEF DeliveryIInv
<1>2. \A d \in Deliveries :
        /\ file[d] \in [queued : BOOLEAN, failed : BOOLEAN, retryCount : Nat,
                        lastAttempt : 0..MaxTime \cup {NoTime}, enqueued : 0..MaxTime]
        /\ call[d].st \in {"new", "send", "ack", "fail", "update", "done", "dead"}
        /\ call[d].next \in All
        /\ file[d].queued \/ file[d].failed => call[d].durable
        /\ settled[d] \subseteq All
  <2> SUFFICES ASSUME NEW d \in Deliveries
               PROVE  /\ file[d] \in FileRecord
                      /\ call[d].st \in CallStates /\ call[d].next \in All
                      /\ file[d].queued \/ file[d].failed => call[d].durable
                      /\ settled[d] \subseteq All
    BY DEF FileRecord, Times, CallStates
  <2>1. call[d] \in CallRecord /\ CallOK(call[d], file[d], settled[d])
    BY <1>1 DEF DeliveryIInv, DeliveryTypes
  <2>2. call[d].st \in CallStates /\ call[d].next \in All
    BY <2>1 DEF CallRecord
  <2> QED
    BY <1>1, <2>1, <2>2 DEF DeliveryTypes, CallOK
<1>3. \A r \in Recoveries :
        /\ recovery[r].st \in {"off", "load", "loop", "send", "ack", "fail", "update", "move",
                               "done"}
        /\ recovery[r].st \in {"send", "ack", "fail", "update", "move"} =>
             recovery[r].pending # <<>> /\ recovery[r].next \in 1..Payloads + 1
  <2> SUFFICES ASSUME NEW r \in Recoveries
               PROVE  /\ recovery[r].st \in RecoveryStates
                      /\ recovery[r].st \in Busy =>
                           recovery[r].pending # <<>> /\ recovery[r].next \in 1..Payloads + 1
    BY DEF RecoveryStates, Busy
  <2>1. recovery[r] \in RecoveryRecord /\ RecoveryOK(recovery[r], call, settled, replayed)
    BY <1>1 DEF DeliveryIInv, DeliveryTypes
  <2> QED
    BY <2>1 DEF RecoveryRecord, RecoveryOK
<1>4. now \in 0..MaxTime /\ replayed \cup overlap \subseteq Deliveries
  BY <1>1 DEF DeliveryTypes, Times
<1>5. TypeOK
  BY <1>2, <1>3, <1>4 DEF TypeOK
<1> QED
  BY <1>5 DEF DeliveryIInv, DeliveryInv

\* No payload is lost without an entry, at any crash, restart or failure of the file system
\* (deliver.ts:487, delivery-queue.ts:286), and an entry that was given up leaves the queue.
THEOREM NoPayloadIsLost == Spec => []DeliveryInv
<1> QED
  BY DeliveryInvariant, DeliveryFollows, PTL

LEMMA OnlyNextEntrySends ==
  ASSUME DeliveryIInv, Next, NEW r \in Recoveries,
         recovery[r].st = "loop", recovery'[r].st = "send"
  PROVE  NextEntry(r)
<1>1. DeliveryTypes
  BY DEF DeliveryIInv
<1>2. \A x \in Recoveries \ {r} :
        \A q : recovery' = [recovery EXCEPT ![x] = q] => recovery'[r] = recovery[r]
  BY <1>1 DEF DeliveryTypes
<1>3. recovery' # recovery
  OBVIOUS
<1>4. PICK x \in Recoveries :
        \/ Load(x) \/ NextEntry(x) \/ Resend(x) \/ AckRecovered(x) \/ MoveToFailed(x)
        \/ ReadToFailAgain(x) \/ WriteFailedAgain(x)
        \/ CrashAndRestart(x) \/ RestartInPlace(x)
  BY <1>3 DEF Next, Begin, SendPayload, Abort, Ack, ReadToFail, WriteFailed, Tick
<1>5. ~CrashAndRestart(x)
  <2> SUFFICES ASSUME CrashAndRestart(x) PROVE FALSE
    OBVIOUS
  <2>1. recovery'[r] = [NoRecovery EXCEPT !.st = "load"] \/ recovery'[r] = NoRecovery
    BY DEF CrashAndRestart
  <2> QED
    BY <2>1 DEF NoRecovery
<1>6. x = r
  <2> SUFFICES ASSUME x # r PROVE FALSE
    OBVIOUS
  <2>1. \E q : recovery' = [recovery EXCEPT ![x] = q]
    <3>1. CASE Load(x)
      BY <3>1 DEF Load
    <3>2. CASE NextEntry(x)
      BY <3>2 DEF NextEntry
    <3>3. CASE Resend(x)
      BY <3>3 DEF Resend
    <3>4. CASE AckRecovered(x) \/ MoveToFailed(x)
      BY <3>4 DEF AckRecovered, MoveToFailed
    <3>5. CASE ReadToFailAgain(x) \/ WriteFailedAgain(x) \/ RestartInPlace(x)
      BY <3>5 DEF ReadToFailAgain, WriteFailedAgain, RestartInPlace
    <3> QED
      BY <1>4, <1>5, <3>1, <3>2, <3>3, <3>4, <3>5
  <2> QED
    BY <1>2, <2>1
<1> QED
  BY <1>4, <1>5, <1>6 DEF Load, Resend, AckRecovered, MoveToFailed, ReadToFailAgain,
                          WriteFailedAgain, RestartInPlace

LEMMA AttemptIsDue ==
  ASSUME DeliveryIInv, Next, NEW r \in Recoveries,
         recovery[r].st = "loop", recovery'[r].st = "send"
  PROVE  LET d == Current(r).id IN
           \/ d \in overlap
           \/ /\ file[d].queued /\ file[d].retryCount < MaxRetries
              /\ \/ file[d].lastAttempt = NoTime
                 \/ now >= file[d].lastAttempt + BackoffOf(file[d].retryCount + 1)
<1>1. DeliveryTypes /\ NextEntry(r)
  BY OnlyNextEntrySends DEF DeliveryIInv
<1>2. /\ recovery[r].pending # <<>>
      /\ Current(r).retryCount < MaxRetries /\ Eligible(Current(r))
  <2>1. \A st : recovery' = [recovery EXCEPT ![r].st = st] => recovery'[r].st = st
    BY <1>1 DEF DeliveryTypes, RecoveryRecord
  <2>2. recovery' # [recovery EXCEPT ![r] = [NoRecovery EXCEPT !.st = "done"]]
    BY <1>1 DEF DeliveryTypes, NoRecovery
  <2>3. recovery[r].pending # <<>>
    BY <1>1, <2>2 DEF NextEntry
  <2>4. recovery' # [recovery EXCEPT ![r].st = "move"]
    BY <2>1
  <2>5. recovery' # [recovery EXCEPT ![r] = Passed(r)]
    <3>1. Passed(r).st = "loop"
      BY <1>1 DEF Passed, DeliveryTypes, RecoveryRecord
    <3> QED
      BY <1>1, <3>1 DEF DeliveryTypes
  <2> QED
    BY <1>1, <2>2, <2>3, <2>4, <2>5 DEF NextEntry
<1>3. PICK d \in Deliveries :
        /\ d = Current(r).id
        /\ d \notin overlap => file[d].queued /\ Current(r) = Entry(d)
  BY <1>2, AtEntry
<1>4. ASSUME d \notin overlap
      PROVE  /\ file[d].queued /\ file[d].retryCount < MaxRetries
             /\ \/ file[d].lastAttempt = NoTime
                \/ now >= file[d].lastAttempt + BackoffOf(file[d].retryCount + 1)
  <2>1. /\ file[d].queued
        /\ Current(r).retryCount = file[d].retryCount
        /\ Current(r).lastAttempt = file[d].lastAttempt
    BY <1>3, <1>4 DEF Entry
  <2> QED
    BY <1>2, <2>1 DEF Eligible
<1> QED
  BY <1>3, <1>4

\* What a recovery has loaded is still what the file says, unless attempts overlapped: so it
\* attempts an entry only when that is due (delivery-queue.ts:312, :323).
THEOREM AttemptsComeDue == Spec => AttemptsAreDue
<1>1. DeliveryIInv /\ [Next]_vars =>
        [\A r \in Recoveries :
           recovery[r].st = "loop" /\ recovery'[r].st = "send" =>
             LET d == Current(r).id IN
               \/ d \in overlap
               \/ /\ file[d].queued /\ file[d].retryCount < MaxRetries
                  /\ \/ file[d].lastAttempt = NoTime
                     \/ now >= file[d].lastAttempt + BackoffOf(file[d].retryCount + 1)]_vars
  <2> SUFFICES ASSUME DeliveryIInv, Next, NEW r \in Recoveries,
                      recovery[r].st = "loop", recovery'[r].st = "send"
               PROVE  LET d == Current(r).id IN
                        \/ d \in overlap
                        \/ /\ file[d].queued /\ file[d].retryCount < MaxRetries
                           /\ \/ file[d].lastAttempt = NoTime
                              \/ now >= file[d].lastAttempt + BackoffOf(file[d].retryCount + 1)
    OBVIOUS
  <2> QED
    BY AttemptIsDue
<1> QED
  BY <1>1, DeliveryInvariant, PTL DEF Spec, AttemptsAreDue

-----------------------------------------------------------------------------
(* Replies: the inductive invariant *)

\* The replies of the turn in the order they go to the channel: those it has got and
\* those in the dispatcher's chain.
Way == delivered \o sendChain
Among(w, r) == \E i \in DOMAIN w : w[i] = r
Ahead(w, x, y) == \E i, j \in DOMAIN w : i < j /\ w[i] = x /\ w[j] = y
OnWay(r) == Among(Way, r)
Precedes(x, y) == Ahead(Way, x, y)
InPipe(n) == Among(pipe, n)

\* The turn has ended well: its blocks are flown and what is left are final payloads.
Flown == turn \in {"finishing", "over"} /\ ~failed

ReplyTypes ==
  /\ turn \in {"running", "flushing", "finishing", "over"}
  /\ texts \in 0..MaxTexts /\ sending \in 0..texts /\ pipe \in Seq(1..texts)
  /\ finals \subseteq 0..texts /\ lost \subseteq 0..texts
  /\ converting \subseteq 1..texts /\ sentBlocks \subseteq 1..texts /\ late \subseteq 1..texts
  /\ toolsOut \in 0..MaxTools /\ toolsDone \in 0..toolsOut
  /\ sendChain \in Seq(Replies) /\ delivered \in Seq(Replies)
  /\ pendingReplies \in Int
  /\ pipeAborted \in BOOLEAN /\ failed \in BOOLEAN /\ completeCalled \in BOOLEAN
  /\ clearing \in BOOLEAN /\ registered \in BOOLEAN /\ missed \in BOOLEAN

\* Blocks leave the pipeline in their order; those before one that was sent were sent
\* or have failed, and none is late unless streaming was given up.
PipeOK ==
  /\ \A i, j \in DOMAIN pipe : i < j => pipe[i] < pipe[j]
  /\ \A i \in DOMAIN pipe : \A n \in sentBlocks \cup {sending} : n < pipe[i]
  /\ \A n \in sentBlocks : sending # 0 => n < sending
  /\ sending # 0 => ~pipeAborted /\ sending \in converting
  /\ converting \subseteq late \cup {sending}
  /\ ~pipeAborted => late = {} /\ \A n \in 1..texts : InPipe(n) \/ n \in sentBlocks \cup lost \cup {sending}
  /\ \A m \in sentBlocks \cup {sending} : \A n \in 1..texts : n < m => n \in sentBlocks \cup lost

\* A block is on its way if the pipeline has noted it or given it up.
BlocksOK ==
  \A n \in 1..MaxTexts :
    /\ OnWay(Block(n)) => n \in sentBlocks \cup late
    /\ n \in sentBlocks => OnWay(Block(n)) \/ n \in lost

\* Final payloads are of a turn that has ended, of texts that no block has brought, and
\* go in order; then every text is on its way or something has failed for it.
FinalsOK ==
  /\ turn \in {"running", "flushing"} => ~failed
  /\ \A n \in 0..MaxTexts : OnWay(Final(n)) => n <= texts
  /\ turn = "over" => finals = {}
  /\ failed => finals \subseteq {0} /\ \A n \in 1..MaxTexts : ~OnWay(Final(n))
  /\ ~failed => 0 \notin finals
  /\ ~failed /\ ~Flown => finals = {} /\ \A n \in 0..MaxTexts : ~OnWay(Final(n))
  /\ \A n \in 1..MaxTexts : n \in finals \/ OnWay(Final(n)) => n \notin sentBlocks
  /\ \A m \in 0..MaxTexts, n \in finals : OnWay(Final(m)) => m < n
  /\ Flown =>
       /\ pipe = <<>> /\ sending = 0 /\ toolsDone = toolsOut
       /\ \A n \in 1..texts : n \in finals \/ OnWay(Final(n)) \/ OnWay(Block(n)) \/ n \in lost

\* The count is exact while the dispatcher is registered, and when it is not, all is said.
DispatcherOK ==
  /\ registered => pendingReplies = Len(sendChain) + 1
  /\ clearing => completeCalled
  /\ completeCalled <=> turn = "over"
  /\ ~registered => completeCalled /\ (sendChain = <<>> \/ missed)
  /\ ~registered /\ ~failed =>
       \A n \in 1..texts : HasGot(Block(n)) \/ HasGot(Final(n)) \/ n \in lost

\* A reply x may go before a reply y.
RightlyAhead(x, y) ==
  /\ "tool" \notin {x.kind, y.kind} /\ y.text # 0 =>
       \/ x.text <= y.text
       \/ y.text \in lost
       \/ x.kind = "block" /\ x.text \in late
       \/ y.kind = "block" /\ y.text \in late
  /\ x.kind = "final" /\ x.text # 0 => y.kind = "final" \/ (y.kind = "block" /\ y.text \in late)

InOrder == \A x, y \in Replies : Precedes(x, y) => RightlyAhead(x, y)

ReplyIInv == ReplyTypes /\ PipeOK /\ BlocksOK /\ FinalsOK /\ DispatcherOK /\ InOrder

-----------------------------------------------------------------------------
(* Sequences that grow at the end and shrink at the head *)

LEMMA AppendAmong ==
  ASSUME NEW R, NEW w \in Seq(R), NEW r \in R
  PROVE  /\ \A x : Among(Append(w, r), x) <=> Among(w, x) \/ x = r
         /\ \A x, y : Ahead(Append(w, r), x, y) <=> Ahead(w, x, y) \/ (Among(w, x) /\ y = r)
<1> DEFINE v == Append(w, r)
<1>1. /\ Len(w) \in Nat /\ DOMAIN w = 1..Len(w) /\ DOMAIN v = 1..(Len(w) + 1)
      /\ \A i \in 1..Len(w) : v[i] = w[i]
      /\ v[Len(w) + 1] = r
  OBVIOUS
<1> HIDE DEF v
<1>2. \A x : Among(v, x) <=> Among(w, x) \/ x = r
  BY <1>1 DEF Among
<1>3. ASSUME NEW x, NEW y, Ahead(v, x, y) PROVE Ahead(w, x, y) \/ (Among(w, x) /\ y = r)
  <2>1. PICK i \in DOMAIN v, j \in DOMAIN v : i < j /\ v[i] = x /\ v[j] = y
    BY <1>3 DEF Ahead
  <2>2. i \in DOMAIN w /\ w[i] = x
    BY <1>1, <2>1
  <2> QED
    BY <1>1, <2>1, <2>2 DEF Ahead, Among
<1>4. ASSUME NEW x, NEW y, Ahead(w, x, y) PROVE Ahead(v, x, y)
  <2>1. PICK i \in DOMAIN w, j \in DOMAIN w : i < j /\ w[i] = x /\ w[j] = y
    BY <1>4 DEF Ahead
  <2>2. i \in DOMAIN v /\ j \in DOMAIN v /\ v[i] = x /\ v[j] = y
    BY <1>1, <2>1
  <2> QED
    BY <2>1, <2>2 DEF Ahead
<1>5. ASSUME NEW x, Among(w, x) PROVE Ahead(v, x, r)
  <2>1. PICK i \in DOMAIN w : w[i] = x
    BY <1>5 DEF Among
  <2>2. i \in DOMAIN v /\ v[i] = x /\ Len(w) + 1 \in DOMAIN v /\ i < Len(w) + 1 /\ v[Len(w) + 1] = r
    BY <1>1, <2>1
  <2> QED
    BY <2>2 DEF Ahead
<1> QED
  BY <1>2, <1>3, <1>4, <1>5 DEF v

LEMMA TailIs ==
  ASSUME NEW R, NEW c \in Seq(R), c # <<>>
 
PROVE  /\ Tail(c) \in Seq(R) /\ Head(c) \in R /\ Len(Tail(c)) = Len(c) - 1 /\ Len(c) \in Nat \ {0}
         /\ c[1] = Head(c) /\ DOMAIN c = 1..Len(c) /\ DOMAIN Tail(c) = 1..(Len(c) - 1)
         /\ \A i \in DOMAIN Tail(c) : Tail(c)[i] = c[i + 1]
  OBVIOUS

LEMMA HeadAmong ==
  ASSUME NEW R, NEW c \in Seq(R), c # <<>>
  PROVE  \A x : Among(c, x) <=> x = Head(c) \/ Among(Tail(c), x)
<1>1. /\ Tail(c) \in Seq(R) /\ Head(c) \in R /\ Len(Tail(c)) = Len(c) - 1 /\ Len(c) \in Nat \ {0}
      /\ c[1] = Head(c) /\ DOMAIN c = 1..Len(c) /\ DOMAIN Tail(c) = 1..(Len(c) - 1)
      /\ \A i \in DOMAIN Tail(c) : Tail(c)[i] = c[i + 1]
  BY TailIs
<1> DEFINE t == Tail(c)
<1>2. ASSUME NEW x, Among(c, x), x # Head(c) PROVE Among(t, x)
  <2>1. PICK i \in DOMAIN c : c[i] = x
    BY <1>2 DEF Among
  <2>2. i - 1 \in DOMAIN t /\ t[i - 1] = c[(i - 1) + 1] /\ (i - 1) + 1 = i
    BY <1>1, <1>2, <2>1
  <2> QED
    BY <2>1, <2>2 DEF Among
<1>3. ASSUME NEW x, x = Head(c) \/ Among(t, x) PROVE Among(c, x)
  <2>1. CASE x = Head(c)
    BY <1>1, <2>1 DEF Among
  <2>2. CASE Among(t, x)
    <3>1. PICK i \in DOMAIN t : t[i] = x
      BY <2>2 DEF Among
    <3>2. i + 1 \in DOMAIN c /\ c[i + 1] = x
      BY <1>1, <3>1
    <3> QED
      BY <3>2 DEF Among
  <2> QED
    BY <1>3, <2>1, <2>2
<1> QED
  BY <1>2, <1>3

\* The first reply of the chain is delivered, and is where it was.
LEMMA WayTaken ==
  ASSUME NEW R, NEW d \in Seq(R), NEW c \in Seq(R), c # <<>>
  PROVE  Append(d, Head(c)) \o Tail(c) = d \o c
<1> DEFINE v == Append(d, Head(c)) \o Tail(c)
           w == d \o c
<1>1. /\ Tail(c) \in Seq(R) /\ Head(c) \in R /\ Len(Tail(c)) = Len(c) - 1 /\ Len(c) \in Nat \ {0}
      /\ c[1] = Head(c) /\ \A i \in 1..Len(Tail(c)) : Tail(c)[i] = c[i + 1]
  BY TailIs
<1>2. /\ Append(d, Head(c)) \in Seq(R) /\ Len(Append(d, Head(c))) = Len(d) + 1
      /\ \A i \in 1..Len(d) : Append(d, Head(c))[i] = d[i]
      /\ Append(d, Head(c))[Len(d) + 1] = Head(c) /\ Len(d) \in Nat
  BY <1>1
<1>3. w \in Seq(R) /\ v \in Seq(R) /\ Len(w) = Len(d) + Len(c) /\ Len(v) = Len(d) + Len(c)
  BY <1>1, <1>2
<1>4. ASSUME NEW i \in 1..Len(w) PROVE v[i] = w[i]
  <2>1. CASE i \in 1..Len(d)
    BY <1>1, <1>2, <1>3, <2>1
  <2>2. CASE i = Len(d) + 1
    BY <1>1, <1>2, <1>3, <2>2
  <2>3. CASE i > Len(d) + 1
    <3>1. v[i] = Tail(c)[i - (Len(d) + 1)]
      BY <1>1, <1>2, <1>3, <2>3
    <3>2. Tail(c)[i - (Len(d) + 1)] = c[i - Len(d)]
      <4>1. i - (Len(d) + 1) \in 1..Len(Tail(c)) /\ (i - (Len(d) + 1)) + 1 = i - Len(d)
        BY <1>1, <1>2, <1>3, <2>3
      <4> QED
        BY <1>1, <4>1
    <3>3. w[i] = c[i - Len(d)]
      BY <1>1, <1>2, <1>3, <2>3
    <3> QED
      BY <3>1, <3>2, <3>3
  <2> QED
    BY <1>2, <1>3, <2>1, <2>2, <2>3
<1> HIDE DEF v, w
<1>5. v = w
  BY <1>3, <1>4, SeqEqual
<1> QED
  BY <1>5 DEF v, w

\* What is lost from the head of the chain is missing, and nothing else.
LEMMA WayLost ==
  ASSUME NEW R, NEW d \in Seq(R), NEW c \in Seq(R), c # <<>>
  PROVE  /\ \A x : Among(d \o Tail(c), x) => Among(d \o c, x)
         /\ \A x : Among(d \o c, x) => x = Head(c) \/ Among(d \o Tail(c), x)
         /\ \A x, y : Ahead(d \o Tail(c), x, y) => Ahead(d \o c, x, y)
<1> DEFINE v == d \o Tail(c)
           w == d \o c
<1>1. /\ Tail(c) \in Seq(R) /\ Head(c) \in R /\ Len(Tail(c)) = Len(c) - 1 /\ Len(c) \in Nat \ {0}
      /\ c[1] = Head(c) /\ \A i \in 1..Len(Tail(c)) : Tail(c)[i] = c[i + 1]
  BY TailIs
<1>2. /\ Len(d) \in Nat /\ DOMAIN w = 1..(Len(d) + Len(c)) /\ DOMAIN v = 1..(Len(d) + Len(c) - 1)
      /\ \A i \in 1..Len(d) : v[i] = d[i] /\ w[i] = d[i]
      /\ w[Len(d) + 1] = Head(c)
  BY <1>1
<1>3. ASSUME NEW i \in DOMAIN v, i > Len(d) PROVE v[i] = w[i + 1]
  <2>1. v[i] = Tail(c)[i - Len(d)]
    BY <1>1, <1>2, <1>3
  <2>2. Tail(c)[i - Len(d)] = c[(i - Len(d)) + 1]
    BY <1>1, <1>2, <1>3
  <2>3. w[i + 1] = c[(i + 1) - Len(d)]
    BY <1>1, <1>2, <1>3
  <2>4. (i + 1) - Len(d) = (i - Len(d)) + 1
    BY <1>2, <1>3
  <2> QED
    BY <2>1, <2>2, <2>3, <2>4
<1> DEFINE At(i) == IF i <= Len(d) THEN i ELSE i + 1
<1>4. /\ \A i \in DOMAIN v : At(i) \in DOMAIN w /\ v[i] = w[At(i)]
      /\ \A i, j \in DOMAIN v : i < j => At(i) < At(j)
  <2>1. Len(d) \in Nat /\ Len(c) \in Nat
    BY <1>1, <1>2
  <2> HIDE DEF v, w
  <2>2. ASSUME NEW i \in DOMAIN v PROVE At(i) \in DOMAIN w /\ v[i] = w[At(i)] /\ i \in Int
    <3>1. i \in Int /\ 1 <= i /\ i <= Len(d) + Len(c) - 1
      BY <1>2, <2>1
    <3>2. CASE i <= Len(d)
      BY <1>2, <2>1, <3>1, <3>2
    <3>3. CASE ~(i <= Len(d))
      <4>1. i > Len(d) /\ At(i) = i + 1
        BY <2>1, <3>1, <3>3
      <4> QED
        BY <1>2, <1>3, <2>1, <3>1, <4>1
    <3> QED
      BY <3>2, <3>3
  <2>3. \A i, j \in Int : i < j => At(i) < At(j)
    BY <2>1
  <2> QED
    BY <2>2, <2>3
<1>5. ASSUME NEW k \in DOMAIN w, w[k] # Head(c) PROVE \E i \in DOMAIN v : v[i] = w[k]
  <2>1. CASE k <= Len(d)
    BY <1>1, <1>2, <2>1
  <2>2. CASE k > Len(d)
    <3>1. k # Len(d) + 1
      BY <1>2, <1>5
    <3>2. k - 1 \in DOMAIN v /\ k - 1 > Len(d) /\ (k - 1) + 1 = k
      BY <1>1, <1>2, <2>2, <3>1
    <3> QED
      BY <1>3, <3>2
  <2> QED
    BY <1>2, <2>1, <2>2
<1> HIDE DEF v, w, At
<1>6. /\ \A x : Among(v, x) => Among(w, x)
      /\ \A x : Among(w, x) => x = Head(c) \/ Among(v, x)
  BY <1>4, <1>5 DEF Among
<1>7. ASSUME NEW x, NEW y, Ahead(v, x, y) PROVE Ahead(w, x, y)
  <2>1. PICK i \in DOMAIN v, j \in DOMAIN v : i < j /\ v[i] = x /\ v[j] = y
    BY <1>7 DEF Ahead
  <2>2. At(i) \in DOMAIN w /\ At(j) \in DOMAIN w /\ At(i) < At(j) /\ w[At(i)] = x /\ w[At(j)] = y
    BY <1>4, <2>1
  <2> QED
    BY <2>2 DEF Ahead
<1> QED
  BY <1>6, <1>7 DEF v, w

\* What has been delivered is on the way too, in the same order.
LEMMA WayBegins ==
  ASSUME NEW R, NEW d \in Seq(R), NEW c \in Seq(R)
  PROVE  /\ d \o c \in Seq(R)
         /\ \A x : Among(d, x) => Among(d \o c, x)
         /\ \A x, y : Ahead(d, x, y) => Ahead(d \o c, x, y)
         /\ c = <<>> => d \o c = d
         /\ \A r \in R : d \o Append(c, r) = Append(d \o c, r)
<1> DEFINE w == d \o c
<1>1. w \in Seq(R) /\ DOMAIN d \subseteq DOMAIN w /\ \A i \in DOMAIN d : w[i] = d[i]
  OBVIOUS
<1>2. c = <<>> => w = d
  OBVIOUS
<1>3. ASSUME NEW r \in R PROVE d \o Append(c, r) = Append(d \o c, r)
  <2>1. <<r>> \in Seq(R)
    OBVIOUS
  <2>2. Append(c, r) = c \o <<r>> /\ Append(w, r) = w \o <<r>>
    BY ONLY w \in Seq(R), <1>1, c \in Seq(R), r \in R, AppendIsConcat
  <2>3. d \o (c \o <<r>>) = (d \o c) \o <<r>>
    BY ONLY <2>1, d \in Seq(R), c \in Seq(R), ConcatAssociative
  <2> QED
    BY <2>2, <2>3
<1> HIDE DEF w
<1>4. \A x : Among(d, x) => Among(w, x)
  BY <1>1 DEF Among
<1>5. \A x, y : Ahead(d, x, y) => Ahead(w, x, y)
  BY <1>1 DEF Ahead
<1> QED
  BY <1>1, <1>2, <1>3, <1>4, <1>5 DEF w

-----------------------------------------------------------------------------
(* Replies and their way *)

LEMMA ReplyKinds ==
  ASSUME NEW x \in Replies
  PROVE  \/ x.kind = "block" /\ x.text \in 1..MaxTexts /\ x = Block(x.text)
         \/ x.kind = "tool" /\ x.text \in 1..MaxTools /\ x = Tool(x.text)
         \/ x.kind = "final" /\ x.text \in 0..MaxTexts /\ x = Final(x.text)
  BY DEF Replies, Block, Tool, Final

LEMMA ReplyFields ==
  ASSUME NEW n, NEW m
  PROVE  /\ Block(n).kind = "block" /\ Block(n).text = n
         /\ Tool(n).kind = "tool" /\ Tool(n).text = n
         /\ Final(n).kind = "final" /\ Final(n).text = n
         /\ Block(n) # Final(m) /\ Block(n) # Tool(m) /\ Final(n) # Tool(m)
         /\ (Block(n) = Block(m) <=> n = m) /\ (Final(n) = Final(m) <=> n = m)
         /\ (n \in 1..MaxTexts => Block(n) \in Replies)
         /\ (n \in 0..MaxTexts => Final(n) \in Replies)
         /\ (n \in 1..MaxTools => Tool(n) \in Replies)
  BY DEF Replies, Block, Tool, Final

\* A reply more is on its way, behind the others.
WayGrows(r) ==
  /\ \A x : Among(Way', x) <=> Among(Way, x) \/ x = r
  /\ \A x, y : Ahead(Way', x, y) <=> Ahead(Way, x, y) \/ (Among(Way, x) /\ y = r)

\* The first reply of the chain is off its way.
WayShrinks ==
  /\ \A x : Among(Way', x) => Among(Way, x)
  /\ \A x : Among(Way, x) => x = Head(sendChain) \/ Among(Way', x)
  /\ \A x, y : Ahead(Way', x, y) => Ahead(Way, x, y)

LEMMA EnqueueGrows ==
  ASSUME ReplyTypes, NEW r \in Replies, EnqueueReply(r), UNCHANGED delivered
  PROVE  WayGrows(r)
<1>1. delivered \in Seq(Replies) /\ sendChain \in Seq(Replies)
  BY DEF ReplyTypes
<1>2. Way \in Seq(Replies) /\ Way' = Append(Way, r)
  BY <1>1, WayBegins DEF Way, EnqueueReply
<1> QED
  BY <1>2, AppendAmong DEF WayGrows

LEMMA SameWay ==
  ASSUME UNCHANGED <<delivered, sendChain>>
  PROVE  Way' = Way /\ \A r : HasGot(r)' <=> HasGot(r)
  BY DEF Way, HasGot

-----------------------------------------------------------------------------
(* Replies: every step keeps the invariant *)

LEMMA ReplyInitInv == ReplyAssumption /\ ReplyInit => ReplyIInv
<1> SUFFICES ASSUME ReplyInit, ReplyAssumption PROVE ReplyIInv
  OBVIOUS
<1>1. Way = <<>>
  BY DEF ReplyInit, Way
<1>2. \A x : ~Among(Way, x)
  BY <1>1 DEF Among
<1>3. \A x, y : ~Ahead(Way, x, y)
  BY <1>1 DEF Ahead
<1>4. ReplyTypes
  <2>1. <<>> \in Seq(1..0) /\ <<>> \in Seq(Replies)
    OBVIOUS
  <2>2. MaxTexts \in Nat /\ MaxTools \in Nat
    BY DEF ReplyAssumption
  <2>3. pipe \in Seq(1..texts) /\ sendChain \in Seq(Replies) /\ delivered \in Seq(Replies)
    BY <2>1 DEF ReplyInit
  <2>4. /\ texts \in 0..MaxTexts /\ sending \in 0..texts /\ finals \subseteq 0..texts /\ lost \subseteq 0..texts
        /\ converting \subseteq 1..texts /\ sentBlocks \subseteq 1..texts /\ late \subseteq 1..texts
        /\ toolsOut \in 0..MaxTools /\ toolsDone \in 0..toolsOut /\ pendingReplies \in Int
    BY <2>2 DEF ReplyInit
  <2>5. /\ pipeAborted \in BOOLEAN /\ failed \in BOOLEAN /\ completeCalled \in BOOLEAN
        /\ clearing \in BOOLEAN /\ registered \in BOOLEAN /\ missed \in BOOLEAN
    BY DEF ReplyInit
  <2>6. turn \in {"running", "flushing", "finishing", "over"}
    BY DEF ReplyInit
  <2> QED
    BY <2>3, <2>4, <2>5, <2>6 DEF ReplyTypes
<1>5. PipeOK
  BY DEF ReplyInit, PipeOK
<1>6. BlocksOK /\ FinalsOK /\ InOrder
  BY <1>2, <1>3 DEF ReplyInit, BlocksOK, FinalsOK, InOrder, OnWay, Precedes, Flown
<1>7. DispatcherOK
  BY DEF ReplyInit, DispatcherOK
<1> QED
  BY <1>4, <1>5, <1>6, <1>7 DEF ReplyIInv

LEMMA EnqueueBlockInv == ReplyIInv /\ ReplyAssumption /\ EnqueueBlock => ReplyIInv'
<1> SUFFICES ASSUME ReplyIInv, EnqueueBlock, ReplyAssumption PROVE ReplyIInv'
  OBVIOUS
<1> USE DEF dispatcherVars
<1>1. Way' = Way /\ \A r : HasGot(r)' <=> HasGot(r)
  BY SameWay DEF EnqueueBlock
<1>2. /\ texts \in Nat /\ texts' = texts + 1 /\ texts' \in 0..MaxTexts /\ turn = "running" /\ turn' = turn
      /\ MaxTexts \in Nat
  BY DEF EnqueueBlock, ReplyIInv, ReplyTypes, ReplyAssumption
<1>3. pipe \in Seq(1..texts) /\ pipe \in Seq(1..texts') /\ texts' \in 1..texts'
  <2>1. 1..texts \subseteq 1..texts'
    BY <1>2
  <2> QED
    BY <1>2, <2>1 DEF ReplyIInv, ReplyTypes
<1>4. ReplyTypes'
  <2>1. pipe' \in Seq(1..texts')
    <3>1. Append(pipe, texts') \in Seq(1..texts')
      BY <1>3
    <3> QED
      BY <1>2, <1>3, <3>1 DEF EnqueueBlock
  <2> QED
    BY <1>2, <2>1 DEF EnqueueBlock, ReplyIInv, ReplyTypes
<1>5. PipeOK'
  <2>1. /\ Len(pipe) \in Nat /\ DOMAIN pipe = 1..Len(pipe)
        /\ \A i \in DOMAIN pipe : pipe[i] \in 1..texts
        /\ \A x : Among(Append(pipe, texts'), x) <=> Among(pipe, x) \/ x = texts'
        /\ DOMAIN Append(pipe, texts') = 1..(Len(pipe) + 1)
        /\ \A i \in DOMAIN pipe : Append(pipe, texts')[i] = pipe[i]
        /\ Append(pipe, texts')[Len(pipe) + 1] = texts'
    <3>1. \A x : Among(Append(pipe, texts'), x) <=> Among(pipe, x) \/ x = texts'
      BY <1>3, AppendAmong
    <3> QED
      <4>1. /\ Len(pipe) \in Nat /\ DOMAIN pipe = 1..Len(pipe)
            /\ \A i \in DOMAIN pipe : pipe[i] \in 1..texts
        <5> DEFINE S == 1..texts
        <5>1. pipe \in Seq(S)
          BY <1>3
        <5> HIDE DEF S
        <5>2. Len(pipe) \in Nat /\ DOMAIN pipe = 1..Len(pipe) /\ \A i \in DOMAIN pipe : pipe[i] \in S
          BY ONLY <5>1
        <5> QED
          BY <5>2 DEF S
      <4> DEFINE b == texts'
      <4>2. b \in 1..b /\ pipe \in Seq(1..b)
        BY <1>3
      <4> HIDE DEF b
      <4>3. /\ DOMAIN Append(pipe, b) = 1..(Len(pipe) + 1)
            /\ \A i \in 1..Len(pipe) : Append(pipe, b)[i] = pipe[i]
            /\ Append(pipe, b)[Len(pipe) + 1] = b
        BY <4>2
      <4> QED
        BY <3>1, <4>1, <4>3 DEF b
  <2>2. sentBlocks \subseteq 1..texts /\ late \subseteq 1..texts /\ sending \in 0..texts
    BY DEF ReplyIInv, ReplyTypes
  <2>3. CASE pipeAborted
    <3>1. pipe' = pipe
      BY <2>3 DEF EnqueueBlock
    <3> QED
      BY <1>2, <2>2, <2>3, <3>1 DEF EnqueueBlock, ReplyIInv, PipeOK
  <2>4. CASE ~pipeAborted
    <3>1. pipe' = Append(pipe, texts')
      BY <1>2, <2>4 DEF EnqueueBlock
    <3>2. \A i, j \in DOMAIN pipe' : i < j => pipe'[i] < pipe'[j]
      BY <1>2, <2>1, <3>1 DEF ReplyIInv, PipeOK
    <3>3. \A i \in DOMAIN pipe' : \A n \in sentBlocks \cup {sending} : n < pipe'[i]
      BY <1>2, <2>1, <2>2, <3>1 DEF ReplyIInv, PipeOK
    <3>4. late = {} /\ \A n \in 1..texts' : Among(pipe', n) \/ n \in sentBlocks \cup lost \cup {sending}
      BY <1>2, <2>1, <2>4, <3>1 DEF ReplyIInv, PipeOK, InPipe
    <3>5. \A m \in sentBlocks \cup {sending} : \A n \in 1..texts' : n < m => n \in sentBlocks \cup lost
      BY <1>2, <2>2 DEF ReplyIInv, PipeOK
    <3> QED
      BY <3>2, <3>3, <3>4, <3>5 DEF EnqueueBlock, ReplyIInv, PipeOK, InPipe
  <2> QED
    BY <2>3, <2>4
<1>6. BlocksOK' /\ InOrder'
  BY <1>1 DEF EnqueueBlock, ReplyIInv, BlocksOK, InOrder, OnWay, Precedes, RightlyAhead
<1>7. FinalsOK'
  BY <1>1, <1>2 DEF EnqueueBlock, ReplyIInv, FinalsOK, OnWay, Flown
<1>8. DispatcherOK'
  BY <1>2 DEF EnqueueBlock, ReplyIInv, DispatcherOK
<1> QED
  BY <1>4, <1>5, <1>6, <1>7, <1>8 DEF ReplyIInv

LEMMA SendBlockInv == ReplyIInv /\ SendBlock => ReplyIInv'
<1> SUFFICES ASSUME ReplyIInv, SendBlock PROVE ReplyIInv'
  OBVIOUS
<1> USE DEF dispatcherVars
<1>1. Way' = Way /\ \A r : HasGot(r)' <=> HasGot(r)
  BY SameWay DEF SendBlock
<1>2. pipe \in Seq(1..texts) /\ pipe # <<>> /\ pipe' = Tail(pipe) /\ texts \in Nat /\ sending = 0
  BY DEF SendBlock, ReplyIInv, ReplyTypes
<1> DEFINE h == Head(pipe)
<1>3. /\ pipe' \in Seq(1..texts) /\ h \in 1..texts /\ Len(pipe) \in Nat \ {0}
      /\ pipe[1] = h /\ DOMAIN pipe = 1..Len(pipe) /\ DOMAIN pipe' = 1..(Len(pipe) - 1)
      /\ \A i \in DOMAIN pipe' : pipe'[i] = pipe[i + 1]
      /\ \A x : Among(pipe, x) <=> x = h \/ Among(pipe', x)
  <2> DEFINE S == 1..texts
  <2>1. pipe \in Seq(S) /\ pipe # <<>> /\ pipe' = Tail(pipe)
    BY <1>2
  <2> HIDE DEF S
  <2> DEFINE t == Tail(pipe)
  <2>2. /\ t \in Seq(S) /\ h \in S /\ Len(pipe) \in Nat \ {0}
        /\ pipe[1] = h /\ DOMAIN pipe = 1..Len(pipe) /\ DOMAIN t = 1..(Len(pipe) - 1)
        /\ \A i \in DOMAIN t : t[i] = pipe[i + 1]
        /\ \A x : Among(pipe, x) <=> x = h \/ Among(t, x)
    <3>1. pipe \in Seq(S) /\ pipe # <<>>
      BY <2>1
    <3>2. /\ Tail(pipe) \in Seq(S) /\ Head(pipe) \in S /\ Len(pipe) \in Nat \ {0}
          /\ pipe[1] = Head(pipe) /\ DOMAIN pipe = 1..Len(pipe)
          /\ DOMAIN Tail(pipe) = 1..(Len(pipe) - 1)
          /\ \A i \in DOMAIN Tail(pipe) : Tail(pipe)[i] = pipe[i + 1]
      BY ONLY <3>1
    <3>3. \A x : Among(pipe, x) <=> x = Head(pipe) \/ Among(Tail(pipe), x)
      BY ONLY <3>1, HeadAmong
    <3> QED
      BY <3>2, <3>3
  <2>3. pipe' = t
    BY <2>1
  <2> HIDE DEF t
  <2> QED
    BY <2>2, <2>3 DEF S
<1>4. pipe' \in Seq(1..texts) /\ \A i \in DOMAIN pipe : pipe[i] \in 1..texts
  BY <1>2, <1>3
<1> HIDE DEF h
<1>5. ReplyTypes'
  <2>1. sending' \in 0..texts' /\ converting' \subseteq 1..texts'
    <3>1. texts' = texts /\ sending \in 0..texts /\ converting \subseteq 1..texts
      BY DEF SendBlock, ReplyIInv, ReplyTypes
    <3>2. CASE pipeAborted
      BY <3>1, <3>2 DEF SendBlock
    <3>3. CASE ~pipeAborted
      <4>1. sending' = h /\ converting' = converting \cup {h}
        BY <3>3 DEF SendBlock, h
      <4> QED
        BY <1>2, <1>3, <3>1, <4>1
    <3> QED
      BY <3>2, <3>3
  <2>2. pipe' \in Seq(1..texts')
    BY <1>3 DEF SendBlock
  <2> QED
    BY <2>1, <2>2 DEF SendBlock, ReplyIInv, ReplyTypes
<1>6. PipeOK'
  <2>1. \A i, j \in DOMAIN pipe' : i < j => pipe'[i] < pipe'[j]
    BY <1>3 DEF ReplyIInv, PipeOK
  <2>2. \A i \in DOMAIN pipe' : h < pipe'[i] /\ \A n \in sentBlocks \cup {0} : n < pipe'[i]
    <3>1. ASSUME NEW i \in DOMAIN pipe'
          PROVE h < pipe'[i] /\ \A n \in sentBlocks \cup {0} : n < pipe'[i]
      <4>1. i + 1 \in DOMAIN pipe /\ 1 \in DOMAIN pipe /\ 1 < i + 1 /\ pipe'[i] = pipe[i + 1]
        BY <1>3, <3>1
      <4> QED
        BY <1>2, <1>3, <4>1 DEF ReplyIInv, PipeOK
    <3> QED
      BY <3>1
  <2>3. \A n \in sentBlocks : n < h
    BY <1>2, <1>3 DEF ReplyIInv, PipeOK
  <2>4. CASE pipeAborted
    BY <1>2, <2>1, <2>2, <2>4 DEF SendBlock, ReplyIInv, PipeOK
  <2>5. CASE ~pipeAborted
    <3>1. sending' = h /\ converting' = converting \cup {h}
      BY <2>5 DEF SendBlock, h
    <3>2. late = {} /\ converting \subseteq {0} /\ \A n \in 1..texts : Among(pipe, n) \/ n \in sentBlocks \cup lost
      BY <1>2, <2>5 DEF ReplyIInv, PipeOK, InPipe
    <3>3. \A n \in 1..texts : n < h => ~Among(pipe, n)
      <4>1. ASSUME NEW i \in DOMAIN pipe' PROVE pipe'[i] \in 1..texts /\ h < pipe'[i]
        BY <1>4, <2>2, <1>3
      <4>2. \A n \in 1..texts : n < h => ~Among(pipe', n)
        BY <1>3, <4>1 DEF Among
      <4> QED
        BY <1>3, <4>2
    <3>4. converting = {}
      BY <3>2 DEF ReplyIInv, ReplyTypes
    <3>5. \A n \in 1..texts : Among(pipe', n) \/ n \in sentBlocks \cup lost \cup {h}
      BY <1>3, <3>2
    <3>6. \A n \in 1..texts : n < h => n \in sentBlocks \cup lost
      BY <3>2, <3>3
    <3> QED
      BY <2>1, <2>2, <2>3, <2>5, <3>1, <3>2, <3>4, <3>5, <3>6
         DEF SendBlock, ReplyIInv, PipeOK, InPipe
  <2> QED
    BY <2>4, <2>5
<1>7. BlocksOK' /\ InOrder'
  BY <1>1 DEF SendBlock, ReplyIInv, BlocksOK, InOrder, OnWay, Precedes, RightlyAhead
<1>8. FinalsOK'
  BY <1>1, <1>2 DEF SendBlock, ReplyIInv, FinalsOK, OnWay, Flown
<1>9. DispatcherOK'
  BY <1>1 DEF SendBlock, ReplyIInv, DispatcherOK
<1> QED
  BY <1>5, <1>6, <1>7, <1>8, <1>9 DEF ReplyIInv

LEMMA BlockTimesOutInv == ReplyIInv /\ BlockTimesOut => ReplyIInv'
<1> SUFFICES ASSUME ReplyIInv, BlockTimesOut PROVE ReplyIInv'
  OBVIOUS
<1> USE DEF dispatcherVars
<1>1. Way' = Way /\ \A r : HasGot(r)' <=> HasGot(r)
  BY SameWay DEF BlockTimesOut
<1>2. texts \in Nat /\ sending \in 1..texts /\ sending' = 0 /\ late' = late \cup {sending}
  BY DEF BlockTimesOut, ReplyIInv, ReplyTypes
<1>3. ReplyTypes'
  BY <1>2 DEF BlockTimesOut, ReplyIInv, ReplyTypes
<1>4. PipeOK'
  <2>1. /\ sentBlocks \subseteq 1..texts /\ \A i \in DOMAIN pipe : pipe[i] \in 1..texts
    BY DEF ReplyIInv, ReplyTypes
  <2>2. \A i \in DOMAIN pipe : \A n \in sentBlocks \cup {0} : n < pipe[i]
    BY <1>2, <2>1 DEF ReplyIInv, PipeOK
  <2> QED
    BY <1>2, <2>2 DEF BlockTimesOut, ReplyIInv, PipeOK
<1>5. BlocksOK'
  BY <1>1, <1>2 DEF BlockTimesOut, ReplyIInv, BlocksOK, OnWay
<1>6. InOrder'
  BY <1>1, <1>2 DEF BlockTimesOut, ReplyIInv, InOrder, Precedes, RightlyAhead
<1>7. FinalsOK'
  BY <1>1, <1>2 DEF BlockTimesOut, ReplyIInv, FinalsOK, OnWay, Flown
<1>8. DispatcherOK'
  BY <1>1 DEF BlockTimesOut, ReplyIInv, DispatcherOK
<1> QED
  BY <1>3, <1>4, <1>5, <1>6, <1>7, <1>8 DEF ReplyIInv

LEMMA BlockConvertedInv == ReplyIInv /\ ReplyAssumption /\ (\E b \in converting : BlockConverted(b)) => ReplyIInv'
<1> SUFFICES ASSUME ReplyIInv, ReplyAssumption, NEW b \in converting, BlockConverted(b)
             PROVE ReplyIInv'
  OBVIOUS
<1> USE DEF dispatcherVars
<1>1. /\ texts \in Nat /\ texts \in 0..MaxTexts /\ texts' = texts /\ b \in 1..texts /\ b \in 1..MaxTexts /\ late' = late
      /\ sentBlocks' \in {sentBlocks, sentBlocks \cup {b}} /\ lost' \in {lost, lost \cup {b}}
      /\ converting' = converting \ {b} /\ sending' = (IF sending = b THEN 0 ELSE sending)
      /\ (sentBlocks' # sentBlocks => sending = b) /\ pipe' = pipe /\ pipeAborted' = pipeAborted
      /\ b \in late \/ b = sending
  BY DEF BlockConverted, ReplyIInv, ReplyTypes, PipeOK, ReplyAssumption
<1>2. sending = b => b \in sentBlocks' \cup lost'
  BY DEF BlockConverted
<1>3. ~Flown \/ sending # b
  BY <1>1 DEF ReplyIInv, FinalsOK
<1>4. ReplyTypes'
  <2>1. /\ sendChain' \in Seq(Replies) /\ pendingReplies' \in Int /\ missed' \in BOOLEAN
        /\ completeCalled' = completeCalled /\ clearing' = clearing /\ registered' = registered
    <3>1. Block(b) \in Replies /\ sendChain \in Seq(Replies) /\ pendingReplies \in Int /\ missed \in BOOLEAN
      BY <1>1, ReplyFields DEF ReplyIInv, ReplyTypes
    <3>2. Append(sendChain, Block(b)) \in Seq(Replies)
      BY <3>1
    <3> QED
      <4>1. CASE EnqueueReply(Block(b))
        BY <3>1, <3>2, <4>1 DEF EnqueueReply, ReplyIInv, ReplyTypes
      <4>2. CASE UNCHANGED <<dispatcherVars, missed>>
        BY <3>1, <4>2
      <4> QED
        BY <4>1, <4>2 DEF BlockConverted
  <2> QED
    BY <1>1, <2>1 DEF BlockConverted, ReplyIInv, ReplyTypes
<1>5. PipeOK'
  <2>1. /\ sentBlocks \subseteq 1..texts /\ \A i \in DOMAIN pipe : pipe[i] \in 1..texts
        /\ sending \in 0..texts
    BY DEF ReplyIInv, ReplyTypes
  <2>2. CASE sending = b
    <3>1. sending' = 0 /\ sentBlocks' \subseteq sentBlocks \cup {sending} /\ lost \subseteq lost'
          /\ sentBlocks \cup {sending} \subseteq sentBlocks' \cup lost'
      BY <1>1, <1>2, <2>2
    <3>2. \A i \in DOMAIN pipe : \A n \in sentBlocks \cup {sending, 0} : n < pipe[i]
      BY <2>1 DEF ReplyIInv, PipeOK
    <3>3. \A m \in sentBlocks' \cup {0} : \A n \in 1..texts : n < m => n \in sentBlocks' \cup lost'
      BY <1>1, <2>1, <3>1 DEF ReplyIInv, PipeOK
    <3>4. ~pipeAborted => late = {} /\ \A n \in 1..texts : InPipe(n) \/ n \in sentBlocks' \cup lost' \cup {0}
      BY <3>1 DEF ReplyIInv, PipeOK
    <3>5. converting \ {b} \subseteq late
      BY <2>2 DEF ReplyIInv, PipeOK
    <3> QED
      BY <1>1, <3>1, <3>2, <3>3, <3>4, <3>5 DEF ReplyIInv, PipeOK, InPipe
  <2>3. CASE sending # b
    <3>1. sending' = sending /\ sentBlocks' = sentBlocks /\ lost \subseteq lost'
      BY <1>1, <2>3
    <3> QED
      BY <1>1, <2>3, <3>1 DEF ReplyIInv, PipeOK, InPipe
  <2> QED
    BY <2>2, <2>3
<1>6. CASE EnqueueReply(Block(b))
  <2>1. UNCHANGED delivered /\ Block(b) \in Replies
    BY <1>1, ReplyFields DEF BlockConverted
  <2>2. WayGrows(Block(b))
    BY <1>6, <2>1, EnqueueGrows DEF ReplyIInv
  <2>3. /\ \A n : OnWay(Block(n))' <=> OnWay(Block(n)) \/ n = b
        /\ \A n : OnWay(Final(n))' <=> OnWay(Final(n))
    BY <2>2, ReplyFields DEF WayGrows, OnWay
  <2>4. BlocksOK'
    <3>1. sentBlocks \subseteq sentBlocks' /\ b \in sentBlocks' \cup late
      <4>1. sendChain' = Append(sendChain, Block(b)) /\ sendChain \in Seq(Replies)
        BY <1>6 DEF EnqueueReply, ReplyIInv, ReplyTypes
      <4>2. sendChain' # sendChain
        <5>1. Len(Append(sendChain, Block(b))) = Len(sendChain) + 1 /\ Len(sendChain) \in Nat
          BY <2>1, <4>1
        <5> QED
          BY <4>1, <5>1
      <4> QED
        BY <1>1, <4>2 DEF BlockConverted
    <3> QED
      BY <1>1, <2>3, <3>1 DEF ReplyIInv, BlocksOK
  <2>5. InOrder'
    <3> SUFFICES ASSUME NEW x \in Replies, NEW y \in Replies, Ahead(Way, x, y) \/ (Among(Way, x) /\ y = Block(b))
                 PROVE  RightlyAhead(x, y)'
      BY <2>2 DEF InOrder, Precedes, WayGrows
    <3>1. CASE Ahead(Way, x, y)
      BY <1>1, <3>1 DEF ReplyIInv, InOrder, Precedes, RightlyAhead
    <3>2. CASE Among(Way, x) /\ y = Block(b) /\ b \in late
      BY <1>1, <3>2, ReplyFields DEF RightlyAhead
    <3>3. CASE Among(Way, x) /\ y = Block(b) /\ b = sending
      <4>1. y.kind = "block" /\ y.text = b
        BY <3>3, ReplyFields
      <4>2. CASE x.kind = "block" /\ x.text \in 1..MaxTexts /\ x = Block(x.text)
        <5>1. x.text \in sentBlocks \cup late
          BY <3>3, <4>2 DEF ReplyIInv, BlocksOK, OnWay
        <5>2. x.text \in sentBlocks => x.text < b
          BY <1>1, <3>3 DEF ReplyIInv, PipeOK
        <5> QED
          BY <1>1, <4>1, <4>2, <5>1, <5>2 DEF RightlyAhead
      <4>3. CASE x.kind = "tool"
        BY <4>3 DEF RightlyAhead
      <4>4. CASE x.kind = "final" /\ x.text \in 0..MaxTexts /\ x = Final(x.text)
        <5>1. x.text = 0
          BY <1>3, <3>3, <4>4 DEF ReplyIInv, FinalsOK, OnWay
        <5> QED
          BY <1>1, <4>1, <4>4, <5>1 DEF RightlyAhead
      <4> QED
        BY <4>2, <4>3, <4>4, ReplyKinds
    <3> QED
      BY <1>1, <3>1, <3>2, <3>3
  <2>6. FinalsOK'
    <3>1. UNCHANGED <<turn, failed, finals, texts, toolsDone, toolsOut>>
      BY DEF BlockConverted
    <3>2. \A n \in 1..MaxTexts : n \in finals \/ OnWay(Final(n)) => n \notin sentBlocks'
      BY <1>1, <1>3 DEF ReplyIInv, FinalsOK
    <3>3. Flown => sending' = 0
      BY <1>1, <1>3 DEF ReplyIInv, FinalsOK
    <3> QED
      BY <1>1, <2>3, <3>1, <3>2, <3>3 DEF ReplyIInv, FinalsOK, Flown
  <2>7. DispatcherOK'
    <3>1. /\ UNCHANGED <<turn, failed, delivered, texts, registered, completeCalled, clearing>>
          /\ pendingReplies' = pendingReplies + 1 /\ missed' = (missed \/ ~registered)
          /\ \A x : HasGot(x)' <=> HasGot(x)
      BY <1>6 DEF BlockConverted, EnqueueReply, HasGot
    <3>2. Len(sendChain') = Len(sendChain) + 1 /\ Len(sendChain) \in Nat
      BY <1>6, <2>1 DEF EnqueueReply, ReplyIInv, ReplyTypes
    <3> QED
      BY <1>1, <3>1, <3>2 DEF ReplyIInv, DispatcherOK, ReplyTypes
  <2> QED
    BY <1>4, <1>5, <2>4, <2>5, <2>6, <2>7 DEF ReplyIInv
<1>7. CASE ~EnqueueReply(Block(b))
  <2>1. sentBlocks' = sentBlocks /\ lost' = lost \cup {b} /\ UNCHANGED <<delivered, dispatcherVars, missed>>
    BY <1>7 DEF BlockConverted
  <2>2. Way' = Way /\ \A r : HasGot(r)' <=> HasGot(r)
    BY <2>1, SameWay
  <2>3. BlocksOK' /\ InOrder'
    BY <1>1, <2>1, <2>2 DEF ReplyIInv, BlocksOK, InOrder, OnWay, Precedes, RightlyAhead
  <2>4. FinalsOK'
    <3>1. UNCHANGED <<turn, failed, finals, texts, toolsDone, toolsOut>>
      BY DEF BlockConverted
    <3>2. Flown => sending' = 0
      BY <1>1, <1>3 DEF ReplyIInv, FinalsOK
    <3> QED
      BY <1>1, <2>1, <2>2, <3>1, <3>2 DEF ReplyIInv, FinalsOK, OnWay, Flown
  <2>5. DispatcherOK'
    <3>1. UNCHANGED <<turn, failed>>
      BY DEF BlockConverted
    <3> QED
      BY <1>1, <2>1, <2>2, <3>1 DEF ReplyIInv, DispatcherOK
  <2> QED
    BY <1>4, <1>5, <2>3, <2>4, <2>5 DEF ReplyIInv
<1> QED
  BY <1>6, <1>7

LEMMA EnqueueToolInv == ReplyIInv /\ ReplyAssumption /\ EnqueueTool => ReplyIInv'
<1> SUFFICES ASSUME ReplyIInv, ReplyAssumption, EnqueueTool PROVE ReplyIInv'
  OBVIOUS
<1> USE DEF dispatcherVars, pipeVars
<1>1. Way' = Way /\ \A r : HasGot(r)' <=> HasGot(r)
  BY SameWay DEF EnqueueTool
<1>2. ReplyTypes'
  BY DEF EnqueueTool, ReplyIInv, ReplyTypes, ReplyAssumption
<1>3. PipeOK'
  BY DEF EnqueueTool, ReplyIInv, PipeOK, InPipe
<1>4. BlocksOK' /\ InOrder'
  BY <1>1 DEF EnqueueTool, ReplyIInv, BlocksOK, InOrder, OnWay, Precedes, RightlyAhead
<1>5. FinalsOK'
  BY <1>1 DEF EnqueueTool, ReplyIInv, FinalsOK, OnWay, Flown
<1>6. DispatcherOK'
  BY <1>1 DEF EnqueueTool, ReplyIInv, DispatcherOK
<1> QED
  BY <1>2, <1>3, <1>4, <1>5, <1>6 DEF ReplyIInv

LEMMA ToolConvertedInv == ReplyIInv /\ ReplyAssumption /\ ToolConverted => ReplyIInv'
<1> SUFFICES ASSUME ReplyIInv, ReplyAssumption, ToolConverted PROVE ReplyIInv'
  OBVIOUS
<1> USE DEF dispatcherVars, pipeVars
<1> DEFINE r == Tool(toolsDone + 1)
<1>1. /\ UNCHANGED <<turn, texts, pipeVars, toolsOut, finals, failed, delivered, lost, late>>
      /\ toolsDone \in 0..toolsOut /\ toolsDone < toolsOut /\ toolsDone' = toolsDone + 1 /\ toolsOut \in 0..MaxTools
      /\ EnqueueReply(r) \/ UNCHANGED <<dispatcherVars, missed>>
  BY DEF ToolConverted, ReplyIInv, ReplyTypes
<1>2. r \in Replies /\ r.kind = "tool" /\ \A n : r # Block(n) /\ r # Final(n)
  <2>1. toolsDone + 1 \in 1..MaxTools
    BY <1>1 DEF ReplyAssumption
  <2> QED
    BY <2>1, ReplyFields
<1>3. toolsDone' \in 0..toolsOut'
  BY <1>1 DEF ReplyAssumption
<1>4. ~Flown
  BY <1>1 DEF ReplyIInv, FinalsOK
<1>5. PipeOK'
  BY <1>1 DEF ReplyIInv, PipeOK, InPipe
<1> HIDE DEF r
<1>6. CASE EnqueueReply(r)
  <2>1. WayGrows(r)
    BY <1>1, <1>2, <1>6, EnqueueGrows DEF ReplyIInv
  <2>2. /\ \A n : OnWay(Block(n))' <=> OnWay(Block(n))
        /\ \A n : OnWay(Final(n))' <=> OnWay(Final(n))
    BY <1>2, <2>1 DEF WayGrows, OnWay
  <2>3. /\ sendChain' = Append(sendChain, r) /\ sendChain \in Seq(Replies) /\ sendChain' \in Seq(Replies)
        /\ Len(sendChain') = Len(sendChain) + 1 /\ Len(sendChain) \in Nat
    <3>1. sendChain' = Append(sendChain, r) /\ sendChain \in Seq(Replies)
      BY <1>6 DEF EnqueueReply, ReplyIInv, ReplyTypes
    <3> QED
      BY <1>2, <3>1
  <2>4. ReplyTypes'
    BY <1>1, <1>3, <1>6, <2>3 DEF EnqueueReply, ReplyIInv, ReplyTypes
  <2>5. BlocksOK'
    BY <1>1, <2>2 DEF ReplyIInv, BlocksOK
  <2>6. FinalsOK'
    BY <1>1, <1>4, <2>2 DEF ReplyIInv, FinalsOK, Flown
  <2>7. InOrder'
    <3> SUFFICES ASSUME NEW x \in Replies, NEW y \in Replies, Ahead(Way, x, y) \/ (Among(Way, x) /\ y = r)
                 PROVE  RightlyAhead(x, y)
      BY <1>1, <2>1 DEF InOrder, Precedes, WayGrows, RightlyAhead
    <3>1. CASE Ahead(Way, x, y)
      BY <3>1 DEF ReplyIInv, InOrder, Precedes
    <3>2. CASE Among(Way, x) /\ y = r
      <4>1. x.kind = "final" => x.text = 0
        BY <1>4, <3>2, ReplyKinds DEF ReplyIInv, FinalsOK, OnWay
      <4> QED
        BY <1>2, <3>2, <4>1 DEF RightlyAhead
    <3> QED
      BY <3>1, <3>2
  <2>8. DispatcherOK'
    <3>1. /\ pendingReplies' = pendingReplies + 1 /\ missed' = (missed \/ ~registered)
          /\ UNCHANGED <<registered, completeCalled, clearing>> /\ \A x : HasGot(x)' <=> HasGot(x)
      BY <1>1, <1>6 DEF EnqueueReply, HasGot
    <3> QED
      BY <1>1, <2>3, <3>1 DEF ReplyIInv, DispatcherOK, ReplyTypes
  <2> QED
    BY <1>5, <2>4, <2>5, <2>6, <2>7, <2>8 DEF ReplyIInv
<1>7. CASE UNCHANGED <<dispatcherVars, missed>>
  <2>1. Way' = Way /\ \A x : HasGot(x)' <=> HasGot(x)
    BY <1>1, <1>7, SameWay
  <2>2. ReplyTypes'
    BY <1>1, <1>3, <1>7 DEF ReplyIInv, ReplyTypes
  <2>3. BlocksOK' /\ InOrder'
    BY <1>1, <2>1 DEF ReplyIInv, BlocksOK, InOrder, OnWay, Precedes, RightlyAhead
  <2>4. FinalsOK'
    BY <1>1, <1>4, <2>1 DEF ReplyIInv, FinalsOK, OnWay, Flown
  <2>5. DispatcherOK'
    BY <1>1, <1>7, <2>1 DEF ReplyIInv, DispatcherOK
  <2> QED
    BY <1>5, <2>2, <2>3, <2>4, <2>5 DEF ReplyIInv
<1> QED
  BY <1>1, <1>6, <1>7

LEMMA AgentEndsInv == ReplyIInv /\ AgentEnds => ReplyIInv'
<1> SUFFICES ASSUME ReplyIInv, AgentEnds PROVE ReplyIInv'
  OBVIOUS
<1> USE DEF dispatcherVars, pipeVars
<1>1. Way' = Way /\ \A r : HasGot(r)' <=> HasGot(r)
  BY SameWay DEF AgentEnds
<1>2. ReplyTypes'
  BY DEF AgentEnds, ReplyIInv, ReplyTypes
<1>3. PipeOK'
  BY DEF AgentEnds, ReplyIInv, PipeOK, InPipe
<1>4. BlocksOK' /\ InOrder'
  BY <1>1 DEF AgentEnds, ReplyIInv, BlocksOK, InOrder, OnWay, Precedes, RightlyAhead
<1>5. FinalsOK'
  BY <1>1 DEF AgentEnds, ReplyIInv, FinalsOK, OnWay, Flown
<1>6. DispatcherOK'
  BY <1>1 DEF AgentEnds, ReplyIInv, DispatcherOK
<1> QED
  BY <1>2, <1>3, <1>4, <1>5, <1>6 DEF ReplyIInv

LEMMA AgentFailsInv == ReplyIInv /\ AgentFails => ReplyIInv'
<1> SUFFICES ASSUME ReplyIInv, AgentFails PROVE ReplyIInv'
  OBVIOUS
<1> USE DEF pipeVars
<1>1. Way' = Way /\ \A r : HasGot(r)' <=> HasGot(r)
  BY SameWay DEF AgentFails
<1>2. /\ turn = "running" /\ failed' /\ ~failed /\ finals = {} /\ \A n \in 0..MaxTexts : ~OnWay(Final(n))
      /\ registered /\ ~completeCalled
  BY DEF AgentFails, ReplyIInv, FinalsOK, DispatcherOK, Flown
<1>3. \/ turn' = "finishing" /\ finals' = {0} /\ completeCalled' = completeCalled /\ clearing' = clearing
      \/ turn' = "over" /\ finals' = {} /\ completeCalled' = TRUE /\ clearing' = TRUE
  BY <1>2 DEF AgentFails, MarkComplete
<1>4. ReplyTypes'
  <2>1. texts \in Nat
    BY DEF ReplyIInv, ReplyTypes
  <2>2. /\ turn' \in {"finishing", "over"} /\ finals' \subseteq {0} /\ completeCalled' \in BOOLEAN
        /\ clearing' \in BOOLEAN /\ failed' \in BOOLEAN
    BY <1>3 DEF AgentFails, ReplyIInv, ReplyTypes
  <2> QED
    BY <2>1, <2>2 DEF AgentFails, ReplyIInv, ReplyTypes
<1>5. PipeOK'
  BY DEF AgentFails, ReplyIInv, PipeOK, InPipe
<1>6. BlocksOK' /\ InOrder'
  BY <1>1 DEF AgentFails, ReplyIInv, BlocksOK, InOrder, OnWay, Precedes, RightlyAhead
<1>7. FinalsOK'
  <2>1. \A n \in 0..MaxTexts : ~OnWay(Final(n))'
    BY <1>1, <1>2 DEF OnWay
  <2>2. turn' \notin {"running", "flushing"} /\ (turn' = "over" => finals' = {}) /\ finals' \subseteq {0} /\ ~Flown'
    BY <1>2, <1>3 DEF Flown
  <2>3. \A n \in 1..MaxTexts : ~OnWay(Final(n))' /\ n \notin finals'
    BY <2>1, <2>2
  <2> QED
    BY <1>2, <2>1, <2>2, <2>3 DEF FinalsOK
<1>8. DispatcherOK'
  BY <1>1, <1>2, <1>3 DEF AgentFails, ReplyIInv, DispatcherOK
<1> QED
  BY <1>4, <1>5, <1>6, <1>7, <1>8 DEF ReplyIInv

LEMMA FlushedInv == ReplyIInv /\ ReplyAssumption /\ Flushed => ReplyIInv'
<1> SUFFICES ASSUME ReplyIInv, ReplyAssumption, Flushed PROVE ReplyIInv'
  OBVIOUS
<1> USE DEF pipeVars, dispatcherVars
<1>1. Way' = Way /\ \A r : HasGot(r)' <=> HasGot(r)
  BY SameWay DEF Flushed
<1>2. /\ turn = "flushing" /\ turn' = "finishing" /\ ~failed /\ pipe = <<>> /\ sending = 0 /\ toolsDone = toolsOut
      /\ \A n \in 0..MaxTexts : ~OnWay(Final(n))
      /\ texts \in 0..MaxTexts /\ texts' = texts
      /\ finals' = FinalPayloads
  BY DEF Flushed, ReplyIInv, ReplyTypes, FinalsOK, Flown
<1>3. finals' \subseteq (1..texts) \ sentBlocks
  BY <1>2 DEF FinalPayloads
<1>4. \A n \in 1..texts : n \in finals' \/ n \in sentBlocks \cup lost
  <2>1. CASE sentBlocks # {} /\ ~pipeAborted
    <3>1. \A n : ~InPipe(n)
      BY <1>2 DEF InPipe, Among
    <3> QED
      BY <1>2, <2>1, <3>1 DEF ReplyIInv, PipeOK
  <2>2. CASE ~(sentBlocks # {} /\ ~pipeAborted)
    BY <1>2, <2>2 DEF FinalPayloads
  <2> QED
    BY <2>1, <2>2
<1>5. ReplyTypes'
  <2>1. turn' \in {"finishing"} /\ finals' \subseteq 0..texts
    BY <1>2, <1>3
  <2> QED
    BY <2>1 DEF Flushed, ReplyIInv, ReplyTypes
<1>6. PipeOK'
  BY DEF Flushed, ReplyIInv, PipeOK, InPipe
<1>7. BlocksOK' /\ InOrder'
  BY <1>1 DEF Flushed, ReplyIInv, BlocksOK, InOrder, OnWay, Precedes, RightlyAhead
<1>8. FinalsOK'
  <2>1. \A n \in 0..MaxTexts : ~OnWay(Final(n))'
    BY <1>1, <1>2 DEF OnWay
  <2>2. UNCHANGED <<failed, pipe, sending, toolsDone, toolsOut, sentBlocks, lost>>
    BY DEF Flushed
  <2>3. \A n \in 1..texts : n \in finals' \/ OnWay(Block(n))' \/ n \in lost
    <3>1. 1..texts \subseteq 1..MaxTexts
      BY <1>2 DEF ReplyAssumption
    <3> QED
      BY <1>1, <1>2, <1>4, <3>1 DEF ReplyIInv, BlocksOK, OnWay
  <2>4. \A n \in 1..MaxTexts : n \in finals' \/ OnWay(Final(n))' => n \notin sentBlocks'
    BY <1>2, <1>3, <2>1, <2>2
  <2>5. 0 \notin finals'
    BY <1>2, <1>3
  <2> QED
    BY <1>2, <2>1, <2>2, <2>3, <2>4, <2>5 DEF FinalsOK, Flown
<1>9. DispatcherOK'
  BY <1>1, <1>2 DEF Flushed, ReplyIInv, DispatcherOK
<1> QED
  BY <1>5, <1>6, <1>7, <1>8, <1>9 DEF ReplyIInv

LEMMA FinalConvertedInv == ReplyIInv /\ ReplyAssumption /\ FinalConverted => ReplyIInv'
<1> SUFFICES ASSUME ReplyIInv, ReplyAssumption, FinalConverted PROVE ReplyIInv'
  OBVIOUS
<1> USE DEF pipeVars
<1>1. PICK n \in finals : (\A m \in finals : n <= m) /\ finals' = finals \ {n} /\ EnqueueReply(Final(n))
  BY DEF FinalConverted
<1> DEFINE r == Final(n)
<1>2. /\ turn = "finishing" /\ UNCHANGED <<turn, texts, pipeVars, toolsOut, toolsDone, failed, delivered, lost, late>>
      /\ n \in 0..texts /\ texts \in 0..MaxTexts /\ finals \subseteq 0..texts
  BY DEF FinalConverted, ReplyIInv, ReplyTypes
<1>3. n \in 0..MaxTexts /\ r \in Replies /\ r.kind = "final" /\ r.text = n
      /\ (\A m : r # Block(m)) /\ (\A m : r = Final(m) <=> m = n)
  <2>1. n \in 0..MaxTexts
    BY <1>2 DEF ReplyAssumption
  <2> QED
    BY <2>1, ReplyFields
<1>4. EnqueueReply(r)
  BY <1>1
<1> HIDE DEF r
<1>5. WayGrows(r)
  BY <1>2, <1>3, <1>4, EnqueueGrows DEF ReplyIInv
<1>6. /\ \A m : OnWay(Block(m))' <=> OnWay(Block(m))
      /\ \A m : OnWay(Final(m))' <=> OnWay(Final(m)) \/ m = n
  BY <1>3, <1>5 DEF WayGrows, OnWay
<1>7. /\ sendChain' = Append(sendChain, r) /\ sendChain \in Seq(Replies) /\ sendChain' \in Seq(Replies)
      /\ Len(sendChain') = Len(sendChain) + 1 /\ Len(sendChain) \in Nat
  <2>1. sendChain' = Append(sendChain, r) /\ sendChain \in Seq(Replies)
    BY <1>4 DEF EnqueueReply, ReplyIInv, ReplyTypes
  <2> QED
    BY <1>3, <2>1
<1>8. ReplyTypes'
  BY <1>1, <1>2, <1>4, <1>7 DEF EnqueueReply, ReplyIInv, ReplyTypes
<1>9. PipeOK'
  BY <1>2 DEF ReplyIInv, PipeOK, InPipe
<1>10. BlocksOK'
  BY <1>2, <1>6 DEF ReplyIInv, BlocksOK
<1>11. FinalsOK'
  <2>1. \A m \in 0..MaxTexts, k \in finals' : OnWay(Final(m))' => m < k
    BY <1>1, <1>2, <1>3, <1>6 DEF ReplyIInv, FinalsOK
  <2>2. failed => finals' \subseteq {0} /\ \A m \in 1..MaxTexts : ~OnWay(Final(m))'
    BY <1>1, <1>6 DEF ReplyIInv, FinalsOK
  <2>3. \A m \in 1..MaxTexts : m \in finals' \/ OnWay(Final(m))' => m \notin sentBlocks
    BY <1>1, <1>6 DEF ReplyIInv, FinalsOK
  <2>4. \A m \in 0..MaxTexts : OnWay(Final(m))' => m <= texts
    BY <1>2, <1>6 DEF ReplyIInv, FinalsOK
  <2>5. Flown => \A m \in 1..texts : m \in finals' \/ OnWay(Final(m))' \/ OnWay(Block(m))' \/ m \in lost
    BY <1>1, <1>6 DEF ReplyIInv, FinalsOK
  <2> QED
    BY <1>1, <1>2, <2>1, <2>2, <2>3, <2>4, <2>5 DEF ReplyIInv, FinalsOK, Flown
<1>12. InOrder'
  <2> SUFFICES ASSUME NEW x \in Replies, NEW y \in Replies, Ahead(Way, x, y) \/ (Among(Way, x) /\ y = r)
               PROVE  RightlyAhead(x, y)
    BY <1>2, <1>5 DEF InOrder, Precedes, WayGrows, RightlyAhead
  <2>1. CASE Ahead(Way, x, y)
    BY <2>1 DEF ReplyIInv, InOrder, Precedes
  <2>2. CASE Among(Way, x) /\ y = r
    <3>1. CASE n = 0 \/ x.kind = "tool"
      BY <1>3, <2>2, <3>1 DEF RightlyAhead
    <3>2. CASE n # 0 /\ x.kind = "block" /\ x.text \in 1..MaxTexts /\ x = Block(x.text)
      <4>1. x.text \in sentBlocks \cup late
        BY <2>2, <3>2 DEF ReplyIInv, BlocksOK, OnWay
      <4>2. n \in 1..texts /\ n \in 1..MaxTexts /\ n \notin sentBlocks
        BY <1>1, <1>2, <1>3, <3>2 DEF ReplyIInv, FinalsOK
      <4>3. x.text \in sentBlocks /\ n < x.text => n \in lost
        BY <4>2 DEF ReplyIInv, PipeOK
      <4> QED
        BY <1>3, <2>2, <3>2, <4>1, <4>2, <4>3 DEF RightlyAhead
    <3>3. CASE x.kind = "final" /\ x.text \in 0..MaxTexts /\ x = Final(x.text)
      <4>1. x.text < n
        BY <2>2, <3>3 DEF ReplyIInv, FinalsOK, OnWay
      <4> QED
        BY <1>3, <2>2, <3>3, <4>1 DEF RightlyAhead
    <3> QED
      BY <3>1, <3>2, <3>3, ReplyKinds
  <2> QED
    BY <2>1, <2>2
<1>13. DispatcherOK'
  <2>1. /\ pendingReplies' = pendingReplies + 1 /\ missed' = (missed \/ ~registered)
        /\ UNCHANGED <<registered, completeCalled, clearing>> /\ \A x : HasGot(x)' <=> HasGot(x)
    BY <1>2, <1>4 DEF EnqueueReply, HasGot
  <2> QED
    BY <1>2, <1>7, <2>1 DEF ReplyIInv, DispatcherOK, ReplyTypes
<1> QED
  BY <1>8, <1>9, <1>10, <1>11, <1>12, <1>13 DEF ReplyIInv

LEMMA TurnOverInv == ReplyIInv /\ TurnOver => ReplyIInv'
<1> SUFFICES ASSUME ReplyIInv, TurnOver PROVE ReplyIInv'
  OBVIOUS
<1> USE DEF pipeVars
<1>1. Way' = Way /\ \A r : HasGot(r)' <=> HasGot(r)
  BY SameWay DEF TurnOver
<1>2. /\ turn = "finishing" /\ turn' = "over" /\ completeCalled' = TRUE /\ clearing' = TRUE /\ finals' = {} /\ finals = {}
  BY DEF TurnOver, MarkComplete
<1>3. registered /\ ~completeCalled
  BY <1>2 DEF ReplyIInv, DispatcherOK
<1>4. ReplyTypes'
  BY <1>2 DEF TurnOver, ReplyIInv, ReplyTypes
<1>5. PipeOK'
  BY DEF TurnOver, ReplyIInv, PipeOK, InPipe
<1>6. BlocksOK' /\ InOrder'
  BY <1>1 DEF TurnOver, ReplyIInv, BlocksOK, InOrder, OnWay, Precedes, RightlyAhead
<1>7. FinalsOK'
  BY <1>1, <1>2 DEF TurnOver, ReplyIInv, FinalsOK, OnWay, Flown
<1>8. DispatcherOK'
  BY <1>1, <1>2, <1>3 DEF TurnOver, ReplyIInv, DispatcherOK
<1> QED
  BY <1>4, <1>5, <1>6, <1>7, <1>8 DEF ReplyIInv

\* The dispatcher is deregistered when its chain is empty and the turn is over, and then
\* nothing is left to be said.
LEMMA DispatcherGoesOn ==
  ASSUME FinalsOK', ReplyTypes', turn' = "over" <=> completeCalled',
         ~registered' => completeCalled' /\ sendChain' = <<>>
  PROVE  ~registered' /\ ~failed' =>
           \A n \in 1..texts' : HasGot(Block(n))' \/ HasGot(Final(n))' \/ n \in lost'
<1> SUFFICES ASSUME ~registered', ~failed', NEW n \in 1..texts'
             PROVE  HasGot(Block(n))' \/ HasGot(Final(n))' \/ n \in lost'
  OBVIOUS
<1>1. turn' = "over" /\ sendChain' = <<>> /\ delivered' \in Seq(Replies)
  BY DEF ReplyTypes
<1>2. Way' = delivered'
  BY <1>1 DEF Way
<1>3. finals' = {} /\ (n \in finals' \/ OnWay(Final(n))' \/ OnWay(Block(n))' \/ n \in lost')
  BY <1>1 DEF FinalsOK, Flown
<1> QED
  BY <1>2, <1>3 DEF OnWay, Among, HasGot

LEMMA DeliveredInv == ReplyIInv /\ ReplyAssumption /\ Delivered => ReplyIInv'
<1> SUFFICES ASSUME ReplyIInv, ReplyAssumption, Delivered PROVE ReplyIInv'
  OBVIOUS
<1> USE DEF pipeVars
<1> DEFINE r == Head(sendChain)
           left == IF pendingReplies - 1 = 1 /\ completeCalled THEN 0 ELSE pendingReplies - 1
<1>1. /\ UNCHANGED <<turn, texts, pipeVars, toolsOut, toolsDone, finals, failed, completeCalled, clearing, late, missed>>
      /\ sendChain' = Tail(sendChain) /\ sendChain \in Seq(Replies) /\ delivered \in Seq(Replies) /\ sendChain # <<>>
      /\ pendingReplies \in Int
  BY DEF Delivered, ReplyIInv, ReplyTypes
<1>2. pendingReplies' = left /\ registered' = (registered /\ left # 0)
  BY DEF Delivered, CountDown
<1>3. /\ sendChain' \in Seq(Replies) /\ r \in Replies /\ Len(sendChain) \in Nat \ {0}
      /\ Len(sendChain') = Len(sendChain) - 1
  BY <1>1, TailIs
<1>4. \/ delivered' = Append(delivered, r) /\ lost' = lost
      \/ /\ lost' = IF r.kind = "tool" THEN lost ELSE lost \cup {r.text}
         /\ delivered' = delivered
  BY DEF Delivered
<1>5. delivered' \in Seq(Replies) /\ Append(delivered, r) \in Seq(Replies)
  BY <1>1, <1>3, <1>4
<1>6. \A x : Among(delivered, x) => Among(delivered', x)
  <2>1. \A x : Among(Append(delivered, r), x) <=> Among(delivered, x) \/ x = r
    BY <1>1, <1>3, AppendAmong
  <2> QED
    BY <1>4, <2>1
<1>7. \A x : Among(Way', x) => Among(Way, x)
  <2>1. CASE delivered' = Append(delivered, r)
    BY <1>1, <2>1, WayTaken DEF Way
  <2>2. CASE delivered' = delivered
    BY <1>1, <2>2, WayLost DEF Way
  <2> QED
    BY <1>4, <2>1, <2>2
<1>8. \A x, y : Ahead(Way', x, y) => Ahead(Way, x, y)
  <2>1. CASE delivered' = Append(delivered, r)
    BY <1>1, <2>1, WayTaken DEF Way
  <2>2. CASE delivered' = delivered
    BY <1>1, <2>2, WayLost DEF Way
  <2> QED
    BY <1>4, <2>1, <2>2
<1>9. \A x : Among(Way, x) => Among(Way', x) \/ (x = r /\ (r.kind # "tool" => r.text \in lost'))
  <2>1. CASE delivered' = Append(delivered, r)
    BY <1>1, <2>1, WayTaken DEF Way
  <2>2. CASE delivered' = delivered /\ lost' = IF r.kind = "tool" THEN lost ELSE lost \cup {r.text}
    BY <1>1, <2>2, WayLost DEF Way
  <2> QED
    BY <1>4, <2>1, <2>2
<1>10. Among(Way, r)
  <2>1. Append(delivered, r) \o Tail(sendChain) = Way /\ Tail(sendChain) \in Seq(Replies)
    BY <1>1, <1>3, WayTaken DEF Way
  <2>2. Among(Append(delivered, r), r)
    BY <1>1, <1>3, AppendAmong
  <2> QED
    BY <1>5, <2>1, <2>2, WayBegins
<1> HIDE DEF r
<1>11. lost \subseteq lost' /\ lost' \subseteq 0..texts
  <2>1. lost \subseteq 0..texts /\ texts \in Nat
    BY DEF ReplyIInv, ReplyTypes
  <2>2. r.kind = "tool" \/ r.text \in 0..texts
    <3>1. CASE r.kind = "block" /\ r.text \in 1..MaxTexts /\ r = Block(r.text)
      <4>1. r.text \in sentBlocks \cup late
        BY <1>10, <3>1 DEF ReplyIInv, BlocksOK, OnWay
      <4> QED
        <5>1. sentBlocks \subseteq 1..texts /\ late \subseteq 1..texts
          BY DEF ReplyIInv, ReplyTypes
        <5>2. r.text \in 1..texts
          BY <4>1, <5>1
        <5> QED
          BY <2>1, <5>2
    <3>2. CASE r.kind = "final" /\ r.text \in 0..MaxTexts /\ r = Final(r.text)
      <4>1. r.text <= texts
        BY <1>10, <3>2 DEF ReplyIInv, FinalsOK, OnWay
      <4> QED
        BY <2>1, <3>2, <4>1
    <3> QED
      BY <1>3, <3>1, <3>2, ReplyKinds
  <2> QED
    BY <1>4, <2>1, <2>2
<1>12. ReplyTypes'
  <2>1. pendingReplies' \in Int /\ registered' \in BOOLEAN
    BY <1>1, <1>2
  <2> HIDE DEF left
  <2> QED
    BY <1>1, <1>3, <1>5, <1>11, <2>1 DEF ReplyIInv, ReplyTypes
<1>13. PipeOK'
  BY <1>1, <1>11 DEF ReplyIInv, PipeOK, InPipe
<1>14. /\ \A n : OnWay(Block(n))' => OnWay(Block(n))
       /\ \A n : OnWay(Final(n))' => OnWay(Final(n))
       /\ \A n : OnWay(Block(n)) => OnWay(Block(n))' \/ n \in lost'
       /\ \A n : OnWay(Final(n)) => OnWay(Final(n))' \/ n \in lost'
  BY <1>7, <1>9, ReplyFields DEF OnWay
<1>15. BlocksOK'
  BY <1>1, <1>11, <1>14 DEF ReplyIInv, BlocksOK
<1>16. FinalsOK'
  BY <1>1, <1>11, <1>14 DEF ReplyIInv, FinalsOK, Flown
<1>17. InOrder'
  BY <1>1, <1>8, <1>11 DEF ReplyIInv, InOrder, Precedes, RightlyAhead
<1>18. DispatcherOK'
  <2>1. /\ (registered => pendingReplies = Len(sendChain) + 1)
        /\ (clearing => completeCalled) /\ (completeCalled <=> turn = "over")
        /\ (~registered => completeCalled /\ missed)
    BY <1>1 DEF ReplyIInv, DispatcherOK
  <2>2. registered' => pendingReplies' = Len(sendChain') + 1
    <3>1. registered' => registered /\ left # 0
      BY <1>2
    <3>2. left # 0 => left = pendingReplies - 1
      OBVIOUS
    <3> QED
      BY <1>2, <1>3, <2>1, <3>1, <3>2
  <2>3. registered /\ ~registered' => completeCalled' /\ Len(sendChain') = 0
    <3>1. registered /\ ~registered' => left = 0
      BY <1>2
    <3>2. left = 0 => (pendingReplies - 1 = 1 /\ completeCalled) \/ pendingReplies - 1 = 0
      OBVIOUS
    <3>3. completeCalled' = completeCalled
      BY <1>1
    <3> QED
      BY <1>3, <2>1, <3>1, <3>2, <3>3
  <2>4. registered /\ ~registered' => completeCalled' /\ sendChain' = <<>>
    <3>1. Len(sendChain') = 0 => sendChain' = <<>>
      <4>1. sendChain' \in Seq(Replies)
        BY <1>3
      <4> QED
        BY <4>1
    <3> QED
      BY <2>3, <3>1
  <2>5. ~registered => ~registered'
    BY <1>2
  <2> HIDE DEF left
  <2>6. ~registered' /\ ~failed' => \A n \in 1..texts' : HasGot(Block(n))' \/ HasGot(Final(n))' \/ n \in lost'
    <3>1. CASE registered
      BY <1>1, <1>12, <1>16, <2>1, <2>4, <3>1, DispatcherGoesOn
    <3>2. CASE ~registered
      <4>1. \A x : HasGot(x) => HasGot(x)'
        BY <1>6 DEF HasGot, Among
      <4> QED
        BY <1>1, <1>11, <3>2, <4>1 DEF ReplyIInv, DispatcherOK
    <3> QED
      BY <3>1, <3>2
  <2> QED
    BY <1>1, <2>1, <2>2, <2>4, <2>5, <2>6 DEF DispatcherOK
<1> QED
  BY <1>12, <1>13, <1>15, <1>16, <1>17, <1>18 DEF ReplyIInv

LEMMA ReservationClearedInv == ReplyIInv /\ ReservationCleared => ReplyIInv'
<1> SUFFICES ASSUME ReplyIInv, ReservationCleared PROVE ReplyIInv'
  OBVIOUS
<1> USE DEF pipeVars
<1>1. Way' = Way /\ \A r : HasGot(r)' <=> HasGot(r)
  BY SameWay DEF ReservationCleared
<1>2. /\ clearing /\ completeCalled /\ completeCalled' /\ clearing' = FALSE /\ turn' = turn /\ turn = "over"
      /\ sendChain' = sendChain /\ sendChain \in Seq(Replies) /\ pendingReplies \in Int
  BY DEF ReservationCleared, ReplyIInv, DispatcherOK, ReplyTypes
<1>3. \/ pendingReplies = 1 /\ pendingReplies' = 0 /\ registered' = FALSE
      \/ pendingReplies # 1 /\ pendingReplies' = pendingReplies /\ registered' = registered
  BY <1>2 DEF ReservationCleared, CountDown
<1>4. ReplyTypes'
  <2>1. registered' \in BOOLEAN /\ pendingReplies' \in Int
    <3>1. CASE registered' = FALSE /\ pendingReplies' = 0
      <4>1. registered' \in BOOLEAN
        BY <3>1, Zenon
      <4>2. pendingReplies' \in Int
        BY <3>1
      <4> QED
        BY <4>1, <4>2
    <3>2. CASE registered' = registered /\ pendingReplies' = pendingReplies
      BY <3>2 DEF ReplyIInv, ReplyTypes
    <3> QED
      BY <1>3, <3>1, <3>2
  <2> QED
    BY <1>2, <2>1 DEF ReservationCleared, ReplyIInv, ReplyTypes
<1>5. PipeOK'
  BY DEF ReservationCleared, ReplyIInv, PipeOK, InPipe
<1>6. BlocksOK' /\ InOrder'
  BY <1>1 DEF ReservationCleared, ReplyIInv, BlocksOK, InOrder, OnWay, Precedes, RightlyAhead
<1>7. FinalsOK'
  BY <1>1 DEF ReservationCleared, ReplyIInv, FinalsOK, OnWay, Flown
<1>8. DispatcherOK'
  <2>1. UNCHANGED <<failed, texts, missed, lost>>
    BY DEF ReservationCleared
  <2>2. CASE registered /\ pendingReplies = 1
    <3>1. Len(sendChain) = 0
      BY <1>2, <2>2 DEF ReplyIInv, DispatcherOK
    <3>2. sendChain' = <<>> /\ registered' = FALSE
      BY <1>2, <1>3, <2>2, <3>1
    <3>3. ~registered' /\ ~failed' => \A n \in 1..texts' : HasGot(Block(n))' \/ HasGot(Final(n))' \/ n \in lost'
      BY <1>2, <1>4, <1>7, <3>2, DispatcherGoesOn
    <3> QED
      BY <1>2, <3>2, <3>3 DEF DispatcherOK
  <2>3. CASE ~(registered /\ pendingReplies = 1)
    <3>1. registered' = registered /\ (registered => pendingReplies' = pendingReplies)
      BY <1>3, <2>3 DEF ReplyIInv, ReplyTypes
    <3> QED
      BY <1>1, <1>2, <2>1, <3>1 DEF ReplyIInv, DispatcherOK
  <2> QED
    BY <2>2, <2>3
<1> QED
  BY <1>4, <1>5, <1>6, <1>7, <1>8 DEF ReplyIInv

LEMMA ReplyNextInv == ReplyIInv /\ ReplyAssumption /\ [ReplyNext]_replyVars => ReplyIInv'
<1> SUFFICES ASSUME ReplyIInv, ReplyAssumption, [ReplyNext]_replyVars PROVE ReplyIInv'
  OBVIOUS
<1>1. CASE ReplyNext
  BY <1>1, EnqueueBlockInv, SendBlockInv, BlockTimesOutInv, BlockConvertedInv, EnqueueToolInv, ToolConvertedInv,
     AgentEndsInv, AgentFailsInv, FlushedInv, FinalConvertedInv, TurnOverInv, DeliveredInv, ReservationClearedInv
     DEF ReplyNext
<1>2. CASE UNCHANGED replyVars
  <2> USE <1>2 DEF replyVars, pipeVars, dispatcherVars
  <2>1. Way' = Way /\ \A r : HasGot(r)' <=> HasGot(r)
    BY SameWay
  <2>2. ReplyTypes' /\ PipeOK'
    BY DEF ReplyIInv, ReplyTypes, PipeOK, InPipe
  <2>3. BlocksOK' /\ InOrder'
    BY <2>1 DEF ReplyIInv, BlocksOK, InOrder, OnWay, Precedes, RightlyAhead
  <2>4. FinalsOK'
    BY <2>1 DEF ReplyIInv, FinalsOK, OnWay, Flown
  <2>5. DispatcherOK'
    BY <2>1 DEF ReplyIInv, DispatcherOK
  <2> QED
    BY <2>2, <2>3, <2>4, <2>5 DEF ReplyIInv
<1> QED
  BY <1>1, <1>2

LEMMA ReplyIInvImplies == ReplyIInv => ReplyInv
<1> SUFFICES ASSUME ReplyIInv PROVE ReplyInv
  OBVIOUS
<1>1. delivered \in Seq(Replies) /\ sendChain \in Seq(Replies) /\ \A i \in DOMAIN delivered : delivered[i] \in Replies
  BY DEF ReplyIInv, ReplyTypes
<1>2. /\ \A x : HasGot(x) => OnWay(x)
      /\ \A i, j \in DOMAIN delivered : i < j => Precedes(delivered[i], delivered[j])
  <2>1. /\ \A x : Among(delivered, x) => OnWay(x)
        /\ \A x, y : Ahead(delivered, x, y) => Precedes(x, y)
    BY <1>1, WayBegins DEF OnWay, Precedes, Way
  <2>2. \A x : HasGot(x) => Among(delivered, x)
    BY DEF HasGot, Among
  <2>3. \A i, j \in DOMAIN delivered : i < j => Ahead(delivered, delivered[i], delivered[j])
    BY DEF Ahead
  <2> QED
    BY <2>1, <2>2, <2>3
<1>3. \A i, j \in DOMAIN delivered : i < j => RightlyAhead(delivered[i], delivered[j])
  BY <1>1, <1>2 DEF ReplyIInv, InOrder
<1>4. ReplyTypeOK
  BY DEF ReplyIInv, ReplyTypes, DispatcherOK, ReplyTypeOK
<1>5. SeenUntilDelivered
  BY DEF ReplyIInv, DispatcherOK, SeenUntilDelivered
<1>6. TextsOnce
  BY <1>2 DEF ReplyIInv, BlocksOK, FinalsOK, TextsOnce
<1>7. FinalsComeLast
  BY <1>3 DEF FinalsComeLast, RightlyAhead
<1>8. TextsInOrder
  BY <1>3 DEF TextsInOrder, RightlyAhead
<1>9. NothingUnsaid
  BY DEF ReplyIInv, DispatcherOK, NothingUnsaid
<1> QED
  BY <1>4, <1>5, <1>6, <1>7, <1>8, <1>9 DEF ReplyInv

\* Of what the agent says nothing is left out, said twice or said out of order, and the
\* dispatcher stays registered until all of it is delivered (auto-reply/reply/).
THEOREM RepliesAreSound == ReplySpec => []ReplyInv
<1> QED
  BY ReplyAssumption, ReplyInitInv, ReplyNextInv, ReplyIInvImplies, PTL DEF ReplySpec
=============================================================================
