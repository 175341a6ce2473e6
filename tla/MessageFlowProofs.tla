------------------------- MODULE MessageFlowProofs -------------------------
(***************************************************************************)
(* Proofs about what brings work to an agent: the debouncer of inbound     *)
(* messages (InboundDebounce), each handed over once and in the order of   *)
(* its arrival unless it was to be handled at once and had to wait; the    *)
(* wake-ups of heartbeats (HeartbeatWake), none lost on its way through    *)
(* queue, batches and runners; and the queue of the messages that come     *)
(* while the agent is busy (FollowupQueue), kept until they are run and    *)
(* run in their order.  For any number of messages, targets, batches,      *)
(* queue objects and lives of the gateway, and any caps.                   *)
(***************************************************************************)
EXTENDS InboundDebounce, HeartbeatWake, FollowupQueue, FiniteSetTheorems, SequenceTheorems, TLAPS

-----------------------------------------------------------------------------
(* Debouncing: the inductive invariant *)

Holds(s, i) == \E k \in 1..Len(s) : s[k] = i

\* The messages that are not in the buffer are those up to this one.
Past == arrived - Len(buffer)

DebounceTypes ==
  /\ arrived \in 0..MaxItems
  /\ buffer \in Seq(Nat) /\ Len(buffer) <= arrived
  /\ handed \in Seq(Nat)
  /\ flushes \in SUBSET Seq(Nat) /\ <<>> \notin flushes
  /\ behind \in [Items -> Seq(Nat)]

\* The buffer holds the messages that came last: whatever cannot wait empties it.
BufferIsLatest == \A k \in 1..Len(buffer) : buffer[k] = Past + k

\* The messages handed over are past ones, each is there once, and one that has
\* overtaken an earlier message has overtaken one that had to wait.
HandedOnce ==
  /\ \A p \in 1..Len(handed) : handed[p] \in 1..Past
  /\ \A p, q \in 1..Len(handed) : handed[p] = handed[q] => p = q
HandedOrdered ==
  \A p, q \in 1..Len(handed) :
    handed[p] < handed[q] /\ behind[handed[p]] = <<>> => p < q

\* The batches the handler is at were handed over, and so were those waited for, each
\* of which one message has waited for.
BatchesWereHanded == \A b \in flushes : \A k \in 1..Len(b) : Holds(handed, b[k])
WaitedForWereHanded ==
  \A i \in Items : behind[i] # <<>> =>
    /\ i \in 1..Past
    /\ \A k \in 1..Len(behind[i]) : Holds(handed, behind[i][k])
OneBehind == \A i, j \in Items : behind[i] = behind[j] /\ behind[i] # <<>> => i = j

\* A past message waits or has been handed over, and not both.
WaitsOrHanded == \A i \in 1..Past : Waits(i) <=> ~Holds(handed, i)

DebounceIInv ==
  /\ DebounceTypes
  /\ BufferIsLatest
  /\ HandedOnce
  /\ HandedOrdered
  /\ BatchesWereHanded
  /\ WaitedForWereHanded
  /\ OneBehind
  /\ WaitsOrHanded

LEMMA DebounceInitInv == DebounceInit => DebounceIInv
<1> SUFFICES ASSUME DebounceInit PROVE DebounceIInv
  OBVIOUS
<1>1. /\ Len(buffer) = 0 /\ Len(handed) = 0 /\ <<>> \in Seq(Nat)
      /\ buffer = <<>> /\ handed = <<>> /\ flushes = {} /\ arrived = 0
      /\ behind = [i \in Items |-> <<>>]
  BY EmptySeq DEF DebounceInit
<1>2. DebounceTypes
  BY <1>1, DebounceAssumption DEF DebounceTypes
<1> QED
  BY <1>1, <1>2 DEF DebounceIInv, BufferIsLatest, HandedOnce, HandedOrdered, BatchesWereHanded,
     WaitedForWereHanded, OneBehind, WaitsOrHanded, Past

-----------------------------------------------------------------------------
(* Lemmas about sequences *)

\* The places of a concatenation are those of its two parts.
LEMMA ConcatPlaces ==
  ASSUME NEW s \in Seq(Nat), NEW t \in Seq(Nat)
  PROVE  /\ s \o t \in Seq(Nat)
         /\ \A p \in 1..Len(s) : p \in 1..Len(s \o t) /\ (s \o t)[p] = s[p]
         /\ \A k \in 1..Len(t) : Len(s) + k \in 1..Len(s \o t) /\ (s \o t)[Len(s) + k] = t[k]
         /\ \A p \in 1..Len(s \o t) :
              \/ p \in 1..Len(s)
              \/ p > Len(s) /\ p - Len(s) \in 1..Len(t) /\ (s \o t)[p] = t[p - Len(s)]
         /\ \A i : Holds(s \o t, i) <=> Holds(s, i) \/ Holds(t, i)
<1>1. Len(s) \in Nat /\ Len(t) \in Nat
  BY LenProperties
<1>2. /\ s \o t \in Seq(Nat)
      /\ Len(s \o t) = Len(s) + Len(t)
      /\ \A i \in 1 .. Len(s) + Len(t) : (s \o t)[i] = IF i <= Len(s) THEN s[i] ELSE t[i - Len(s)]
  BY ConcatProperties
<1>3. \A p \in 1..Len(s) : p \in 1..Len(s \o t) /\ (s \o t)[p] = s[p]
  BY <1>1, <1>2
<1>4. \A k \in 1..Len(t) : Len(s) + k \in 1..Len(s \o t) /\ (s \o t)[Len(s) + k] = t[k]
  <2> TAKE k \in 1..Len(t)
  <2>1. /\ Len(s) + k \in 1..(Len(s) + Len(t))
        /\ ~(Len(s) + k <= Len(s)) /\ Len(s) + k - Len(s) = k
    BY <1>1
  <2> QED
    BY <1>2, <2>1
<1>5. \A p \in 1..Len(s \o t) :
        \/ p \in 1..Len(s)
        \/ p > Len(s) /\ p - Len(s) \in 1..Len(t) /\ (s \o t)[p] = t[p - Len(s)]
  <2> TAKE p \in 1..Len(s \o t)
  <2>1. CASE p <= Len(s)
    BY <1>1, <1>2, <2>1
  <2>2. CASE ~(p <= Len(s))
    <3>1. p \in 1..(Len(s) + Len(t)) /\ p > Len(s) /\ p - Len(s) \in 1..Len(t)
      BY <1>1, <1>2, <2>2
    <3> QED
      BY <1>2, <2>2, <3>1
  <2> QED
    BY <2>1, <2>2
<1>6. ASSUME NEW i
      PROVE  Holds(s \o t, i) <=> Holds(s, i) \/ Holds(t, i)
  <2>1. ASSUME Holds(s \o t, i) PROVE Holds(s, i) \/ Holds(t, i)
    <3>1. PICK p \in 1..Len(s \o t) : (s \o t)[p] = i
      BY <2>1 DEF Holds
    <3>2. CASE p \in 1..Len(s)
      BY <1>3, <3>1, <3>2 DEF Holds
    <3>3. CASE p - Len(s) \in 1..Len(t) /\ (s \o t)[p] = t[p - Len(s)]
      BY <3>1, <3>3 DEF Holds
    <3> QED
      BY <1>5, <3>2, <3>3
  <2>2. ASSUME Holds(s, i) PROVE Holds(s \o t, i)
    BY <1>3, <2>2 DEF Holds
  <2>3. ASSUME Holds(t, i) PROVE Holds(s \o t, i)
    BY <1>4, <2>3 DEF Holds
  <2> QED
    BY <2>1, <2>2, <2>3
<1> QED
  BY <1>2, <1>3, <1>4, <1>5, <1>6

LEMMA SingleSeq ==
  ASSUME NEW i \in Nat
  PROVE  /\ <<i>> \in Seq(Nat) /\ Len(<<i>>) = 1 /\ <<i>>[1] = i /\ <<i>> # <<>>
         /\ \A j : Holds(<<i>>, j) <=> j = i
BY DEF Holds

\* A sequence that has elements has a first one.
LEMMA FirstOfSome ==
  ASSUME NEW s \in Seq(Nat), s # <<>>
  PROVE  Len(s) \in Nat /\ Len(s) > 0 /\ 1 \in 1..Len(s)
<1>1. Len(s) \in Nat /\ Len(s) # 0
  BY LenProperties, EmptySeq
<1> QED
  BY <1>1

-----------------------------------------------------------------------------
(* Debouncing: handing over *)

\* A batch of messages that were not handed over yet, in the order of their arrival, is
\* handed over: those that overtake nobody come after all there are, the others had to wait.
LEMMA HandOverKeeps ==
  ASSUME DebounceIInv, NEW batch \in Seq(Nat), handed' = handed \o batch,
         Past' \in Nat, Past <= Past',
         \A k \in 1..Len(batch) : batch[k] \in 1..Past' /\ ~Holds(handed, batch[k]),
         \A j, k \in 1..Len(batch) : j < k <=> batch[j] < batch[k],
         \A k \in 1..Len(batch) :
           behind'[batch[k]] # <<>> \/ \A p \in 1..Len(handed) : handed[p] < batch[k],
         \A p \in 1..Len(handed) : behind'[handed[p]] = behind[handed[p]]
  PROVE  /\ handed' \in Seq(Nat)
         /\ HandedOnce' /\ HandedOrdered'
         /\ \A i : Holds(handed', i) <=> Holds(handed, i) \/ Holds(batch, i)
<1>0. /\ handed \in Seq(Nat) /\ Len(handed) \in Nat /\ Len(batch) \in Nat
      /\ Past \in Int
  BY LenProperties DEF DebounceIInv, DebounceTypes, Past
<1>1. /\ handed' \in Seq(Nat)
      /\ \A p \in 1..Len(handed) : p \in 1..Len(handed') /\ handed'[p] = handed[p]
      /\ \A p \in 1..Len(handed') :
           \/ p \in 1..Len(handed)
           \/ p > Len(handed) /\ p - Len(handed) \in 1..Len(batch)
                /\ handed'[p] = batch[p - Len(handed)]
      /\ \A i : Holds(handed', i) <=> Holds(handed, i) \/ Holds(batch, i)
  BY <1>0, ConcatPlaces
<1>2. ASSUME NEW p \in 1..Len(handed')
      PROVE  handed'[p] \in 1..Past'
  <2>1. CASE p \in 1..Len(handed)
    BY <1>0, <1>1, <2>1 DEF DebounceIInv, HandedOnce
  <2>2. CASE p - Len(handed) \in 1..Len(batch) /\ handed'[p] = batch[p - Len(handed)]
    BY <2>2
  <2> QED
    BY <1>1, <2>1, <2>2
<1>3. ASSUME NEW p \in 1..Len(handed'), NEW q \in 1..Len(handed'), handed'[p] = handed'[q]
      PROVE  p = q
  <2>1. CASE p \in 1..Len(handed) /\ q \in 1..Len(handed)
    BY <1>1, <1>3, <2>1 DEF DebounceIInv, HandedOnce
  <2>2. ASSUME NEW r \in 1..Len(handed), NEW k \in 1..Len(batch), handed[r] = batch[k]
        PROVE  FALSE
    BY <2>2 DEF Holds
  <2>3. CASE (p \in 1..Len(handed)) # (q \in 1..Len(handed))
    BY <1>1, <1>3, <2>2, <2>3, SMTT(20)
  <2>4. CASE p \notin 1..Len(handed) /\ q \notin 1..Len(handed)
    <3> DEFINE j == p - Len(handed)
               k == q - Len(handed)
    <3>1. j \in 1..Len(batch) /\ k \in 1..Len(batch) /\ batch[j] = batch[k]
      BY <1>1, <1>3, <2>4
    <3>2. batch[j] \in Nat /\ batch[k] \in Nat
      BY <3>1, ElementOfSeq
    <3> HIDE DEF j, k
    <3>3. ~(j < k) /\ ~(k < j)
      BY <3>1, <3>2
    <3>4. j = k
      BY <1>0, <3>1, <3>3
    <3> QED
      BY <1>0, <3>4 DEF j, k
  <2> QED
    BY <2>1, <2>2, <2>3, <2>4
<1>4. ASSUME NEW p \in 1..Len(handed'), NEW q \in 1..Len(handed'),
             handed'[p] < handed'[q], behind'[handed'[p]] = <<>>
      PROVE  p < q
  <2>1. CASE p \in 1..Len(handed) /\ q \in 1..Len(handed)
    <3>1. handed[p] < handed[q] /\ behind[handed[p]] = <<>>
      BY <1>1, <1>4, <2>1
    <3> QED
      BY <2>1, <3>1 DEF DebounceIInv, HandedOrdered
  <2>2. CASE p \in 1..Len(handed) /\ q \notin 1..Len(handed)
    BY <1>0, <1>1, <2>2
  <2>3. CASE p \notin 1..Len(handed) /\ q \in 1..Len(handed)
    <3> DEFINE j == p - Len(handed)
    <3>1. j \in 1..Len(batch) /\ handed'[p] = batch[j] /\ handed'[q] = handed[q]
      BY <1>1, <2>3
    <3>2. handed[q] < batch[j]
      BY <1>4, <2>3, <3>1
    <3>3. batch[j] \in Nat /\ handed[q] \in Nat
      BY <1>0, <2>3, <3>1, ElementOfSeq
    <3> QED
      BY <1>4, <3>1, <3>2, <3>3, SMTT(20)
  <2>4. CASE p \notin 1..Len(handed) /\ q \notin 1..Len(handed)
    <3> DEFINE j == p - Len(handed)
               k == q - Len(handed)
    <3>1. j \in 1..Len(batch) /\ k \in 1..Len(batch) /\ batch[j] < batch[k]
      BY <1>1, <1>4, <2>4
    <3>2. j < k
      BY <3>1
    <3> QED
      BY <1>0, <3>1, <3>2
  <2> QED
    BY <2>1, <2>2, <2>3, <2>4
<1>5. HandedOnce'
  BY <1>2, <1>3 DEF HandedOnce
<1>6. HandedOrdered'
  BY <1>4 DEF HandedOrdered
<1> QED
  BY <1>1, <1>5, <1>6

-----------------------------------------------------------------------------
(* Debouncing: the steps *)

\* Facts the steps share: what is past is not in the buffer, and conversely.
LEMMA DebounceFacts ==
  ASSUME DebounceIInv
  PROVE  /\ arrived \in Nat /\ arrived <= MaxItems /\ Len(buffer) \in Nat /\ Len(handed) \in Nat
         /\ Past \in Nat /\ Past + Len(buffer) = arrived
         /\ 1..Past \subseteq Items
         /\ \A i : Holds(handed, i) => i \in 1..Past
         /\ \A i : Holds(buffer, i) <=> i \in (Past + 1)..arrived
<1>1. /\ arrived \in Nat /\ arrived <= MaxItems /\ Len(buffer) \in Nat /\ Len(handed) \in Nat
      /\ Len(buffer) <= arrived
  BY DebounceAssumption, LenProperties DEF DebounceIInv, DebounceTypes
<1>2. Past \in Nat /\ Past + Len(buffer) = arrived
  BY <1>1 DEF Past
<1>3. 1..Past \subseteq Items
  BY <1>1, <1>2, DebounceAssumption DEF Items
<1>4. \A i : Holds(handed, i) => i \in 1..Past
  BY DEF Holds, DebounceIInv, HandedOnce
<1>5. ASSUME NEW i PROVE Holds(buffer, i) <=> i \in (Past + 1)..arrived
  <2>1. ASSUME Holds(buffer, i) PROVE i \in (Past + 1)..arrived
    <3>1. PICK k \in 1..Len(buffer) : buffer[k] = i
      BY <2>1 DEF Holds
    <3>2. i = Past + k
      BY <3>1 DEF DebounceIInv, BufferIsLatest
    <3> QED
      BY <1>1, <1>2, <3>2
  <2>2. ASSUME i \in (Past + 1)..arrived PROVE Holds(buffer, i)
    <3>1. i - Past \in 1..Len(buffer) /\ Past + (i - Past) = i
      BY <1>1, <1>2, <2>2
    <3>2. buffer[i - Past] = i
      BY <3>1 DEF DebounceIInv, BufferIsLatest
    <3> QED
      BY <3>1, <3>2 DEF Holds
  <2> QED
    BY <2>1, <2>2
<1> QED
  BY <1>1, <1>2, <1>3, <1>4, <1>5

LEMMA BufferStep ==
  ASSUME DebounceIInv, Buffer
  PROVE  DebounceIInv'
<1>0. /\ arrived < MaxItems /\ arrived' = arrived + 1
      /\ buffer' = Append(buffer, arrived + 1)
      /\ UNCHANGED <<flushes, behind, handed>>
  BY DEF Buffer
<1>1. /\ arrived \in Nat /\ Len(buffer) \in Nat /\ Past \in Nat /\ Past + Len(buffer) = arrived
      /\ buffer \in Seq(Nat) /\ Len(buffer) <= arrived
  BY DebounceFacts DEF DebounceIInv, DebounceTypes
<1>2. /\ buffer' \in Seq(Nat) /\ Len(buffer') = Len(buffer) + 1
      /\ \A k \in 1..Len(buffer) : buffer'[k] = buffer[k]
      /\ buffer'[Len(buffer) + 1] = arrived + 1
  BY <1>0, <1>1, AppendProperties
<1>3. Past' = Past
  BY <1>0, <1>1, <1>2 DEF Past
<1>4. DebounceTypes'
  BY <1>0, <1>1, <1>2, DebounceAssumption DEF DebounceIInv, DebounceTypes
<1>5. BufferIsLatest'
  <2> SUFFICES ASSUME NEW k \in 1..Len(buffer') PROVE buffer'[k] = Past + k
    BY <1>3 DEF BufferIsLatest
  <2>1. CASE k \in 1..Len(buffer)
    BY <1>2, <2>1 DEF DebounceIInv, BufferIsLatest
  <2>2. CASE k = Len(buffer) + 1
    BY <1>1, <1>2, <2>2, SMTT(20)
  <2> QED
    BY <1>1, <1>2, <2>1, <2>2
<1>6. (HandedOnce /\ HandedOrdered /\ BatchesWereHanded /\ WaitedForWereHanded /\ OneBehind)'
  BY <1>0, <1>3 DEF DebounceIInv, HandedOnce, HandedOrdered, BatchesWereHanded,
     WaitedForWereHanded, OneBehind
<1>7. WaitsOrHanded'
  BY <1>0, <1>3 DEF DebounceIInv, WaitsOrHanded, Waits
<1> QED
  BY <1>4, <1>5, <1>6, <1>7 DEF DebounceIInv

\* The buffer is handed over, and with it the message that pushes it out, if there is one,
\* begins to wait.
LEMMA BufferHandedOver ==
  ASSUME DebounceIInv, buffer # <<>>, HandOver(buffer), buffer' = <<>>,
         \/ arrived' = arrived /\ behind' = behind
         \/ /\ arrived < MaxItems /\ arrived' = arrived + 1
            /\ behind' = [behind EXCEPT ![arrived + 1] = buffer]
  PROVE  DebounceIInv'
<1>1. /\ arrived \in Nat /\ arrived <= MaxItems /\ Len(buffer) \in Nat /\ Len(handed) \in Nat
      /\ Past \in Nat /\ Past + Len(buffer) = arrived
      /\ 1..Past \subseteq Items
      /\ \A i : Holds(handed, i) => i \in 1..Past
      /\ \A i : Holds(buffer, i) <=> i \in (Past + 1)..arrived
  BY DebounceFacts
<1>2. /\ buffer \in Seq(Nat) /\ handed \in Seq(Nat) /\ behind \in [Items -> Seq(Nat)]
      /\ flushes \in SUBSET Seq(Nat) /\ <<>> \notin flushes
  BY DEF DebounceIInv, DebounceTypes
<1>3. flushes' = flushes \cup {buffer} /\ handed' = handed \o buffer
  BY DEF HandOver
<1>4. Len(buffer') = 0 /\ Past' = arrived' /\ arrived' \in Nat /\ arrived' \in 0..MaxItems
        /\ arrived <= arrived'
  BY <1>1, EmptySeq, DebounceAssumption DEF Past
<1>5. Holds(buffer, Past + 1) /\ ~Holds(handed, Past + 1) /\ Past < arrived
  <2>1. Len(buffer) > 0
    BY <1>2, FirstOfSome
  <2>2. Past + 1 \in (Past + 1)..arrived /\ Past < arrived
    BY <1>1, <2>1
  <2>3. ~(Past + 1 \in 1..Past)
    BY <1>1
  <2> QED
    BY <1>1, <2>2, <2>3
<1>6. \A i \in Items : i \in 1..arrived => behind'[i] = behind[i]
  BY <1>1, <1>2
<1>7. \A i \in Items : behind[i] # buffer
  <2> SUFFICES ASSUME NEW i \in Items, behind[i] = buffer PROVE FALSE
    OBVIOUS
  <2>1. \A k \in 1..Len(buffer) : Holds(handed, buffer[k])
    BY DEF DebounceIInv, WaitedForWereHanded
  <2>2. PICK k \in 1..Len(buffer) : buffer[k] = Past + 1
    BY <1>5 DEF Holds
  <2> QED
    BY <1>5, <2>1, <2>2
<1>8. /\ handed' \in Seq(Nat)
      /\ HandedOnce' /\ HandedOrdered'
      /\ \A i : Holds(handed', i) <=> Holds(handed, i) \/ Holds(buffer, i)
  <2>1. \A k \in 1..Len(buffer) : buffer[k] = Past + k
    BY DEF DebounceIInv, BufferIsLatest
  <2>2. \A k \in 1..Len(buffer) : buffer[k] \in 1..Past' /\ ~(buffer[k] \in 1..Past)
    BY <1>1, <1>4, <2>1
  <2>3. \A k \in 1..Len(buffer) : ~Holds(handed, buffer[k])
    BY <1>1, <2>2
  <2>4. \A j, k \in 1..Len(buffer) : j < k <=> buffer[j] < buffer[k]
    BY <1>1, <2>1
  <2>5. \A p \in 1..Len(handed) : handed[p] \in 1..Past
    BY DEF DebounceIInv, HandedOnce
  <2>6. \A k \in 1..Len(buffer) : \A p \in 1..Len(handed) : handed[p] < buffer[k]
    BY <1>1, <2>1, <2>5
  <2>7. \A p \in 1..Len(handed) : behind'[handed[p]] = behind[handed[p]]
    BY <1>1, <1>6, <2>5
  <2>8. Past' \in Nat /\ Past <= Past'
    BY <1>1, <1>4
  <2> QED
    BY <1>2, <1>3, <2>2, <2>3, <2>4, <2>6, <2>7, <2>8, HandOverKeeps
<1>9. DebounceTypes'
  <2>1. behind' \in [Items -> Seq(Nat)]
    BY <1>2
  <2>2. flushes' \in SUBSET Seq(Nat) /\ <<>> \notin flushes'
    BY <1>2, <1>3
  <2>3. buffer' \in Seq(Nat) /\ Len(buffer') <= arrived'
    BY <1>4, EmptySeq
  <2> QED
    BY <1>4, <1>8, <2>1, <2>2, <2>3 DEF DebounceTypes
<1>10. BufferIsLatest'
  BY <1>4 DEF BufferIsLatest
<1>11. BatchesWereHanded'
  BY <1>3, <1>8 DEF DebounceIInv, BatchesWereHanded, Holds
<1>12. ASSUME NEW i \in Items, behind'[i] # behind[i]
       PROVE  i = arrived + 1 /\ i = arrived' /\ behind'[i] = buffer
  BY <1>1, <1>2, <1>12
<1>13. WaitedForWereHanded'
  <2> SUFFICES ASSUME NEW i \in Items, behind'[i] # <<>>
               PROVE  i \in 1..Past' /\ \A k \in 1..Len(behind'[i]) : Holds(handed', behind'[i][k])
    BY DEF WaitedForWereHanded
  <2>1. CASE behind'[i] = behind[i]
    <3>1. i \in 1..Past /\ \A k \in 1..Len(behind[i]) : Holds(handed, behind[i][k])
      BY <2>1 DEF DebounceIInv, WaitedForWereHanded
    <3> QED
      BY <1>1, <1>4, <1>8, <2>1, <3>1
  <2>2. CASE behind'[i] # behind[i]
    <3>1. i \in 1..Past' /\ behind'[i] = buffer
      BY <1>1, <1>4, <1>12, <2>2
    <3>2. \A k \in 1..Len(buffer) : Holds(buffer, buffer[k])
      BY DEF Holds
    <3> QED
      BY <1>8, <3>1, <3>2
  <2> QED
    BY <2>1, <2>2
<1>14. OneBehind'
  <2> SUFFICES ASSUME NEW i \in Items, NEW j \in Items, behind'[i] = behind'[j], behind'[i] # <<>>
               PROVE  i = j
    BY DEF OneBehind
  <2>1. CASE behind'[i] = behind[i] /\ behind'[j] = behind[j]
    BY <2>1 DEF DebounceIInv, OneBehind
  <2>2. CASE behind'[i] # behind[i] /\ behind'[j] # behind[j]
    BY <1>12, <2>2
  <2>3. CASE (behind'[i] = behind[i]) # (behind'[j] = behind[j])
    BY <1>7, <1>12, <2>3
  <2> QED
    BY <2>1, <2>2, <2>3
<1>15. WaitsOrHanded'
  <2> SUFFICES ASSUME NEW i \in 1..Past'
               PROVE  behind'[i] \in flushes' <=> ~Holds(handed', i)
    BY DEF WaitsOrHanded, Waits
  <2>1. i \in Items /\ i \in Nat /\ i <= arrived'
    BY <1>4, DebounceAssumption DEF Items
  <2>2. CASE i \in 1..Past
    <3>1. ~Holds(buffer, i) /\ behind'[i] = behind[i]
      BY <1>1, <1>6, <2>1, <2>2
    <3>2. behind[i] \in flushes <=> ~Holds(handed, i)
      BY <2>2 DEF DebounceIInv, WaitsOrHanded, Waits
    <3> QED
      BY <1>3, <1>7, <1>8, <2>1, <3>1, <3>2
  <2>3. CASE i \in (Past + 1)..arrived
    <3>1. Holds(handed', i)
      BY <1>1, <1>8, <2>3
    <3>2. i \notin 1..Past /\ behind'[i] = behind[i]
      BY <1>1, <1>6, <2>1, <2>3
    <3>3. behind[i] = <<>>
      BY <2>1, <3>2 DEF DebounceIInv, WaitedForWereHanded
    <3> QED
      BY <1>2, <1>3, <3>1, <3>2, <3>3
  <2>4. CASE i = arrived + 1
    <3>1. behind'[i] = buffer
      BY <1>1, <1>2, <1>4, <2>1, <2>4
    <3>2. i \notin 1..Past /\ i \notin (Past + 1)..arrived
      BY <1>1, <2>4
    <3> QED
      BY <1>1, <1>3, <1>8, <3>1, <3>2
  <2>5. i \in 1..Past \/ i \in (Past + 1)..arrived \/ i = arrived + 1
    BY <1>1, <2>1
  <2> QED
    BY <2>2, <2>3, <2>4, <2>5
<1> QED
  BY <1>8, <1>9, <1>10, <1>11, <1>13, <1>14, <1>15 DEF DebounceIInv

\* With nothing in the buffer, the message that cannot wait is handed over itself.
LEMMA PassedAtOnce ==
  ASSUME DebounceIInv, Pass, buffer = <<>>
  PROVE  DebounceIInv'
<1> DEFINE new == arrived + 1
<1>0. /\ arrived < MaxItems /\ arrived' = new /\ UNCHANGED <<buffer, behind>>
      /\ flushes' = flushes \cup {<<new>>} /\ handed' = handed \o <<new>>
  BY DEF Pass, HandOver
<1>1. /\ arrived \in Nat /\ Len(buffer) = 0 /\ Len(handed) \in Nat
      /\ Past = arrived /\ Past' = new
      /\ 1..Past \subseteq Items
      /\ \A i : Holds(handed, i) => i \in 1..Past
  BY <1>0, DebounceFacts, EmptySeq DEF Past
<1>2. /\ handed \in Seq(Nat) /\ behind \in [Items -> Seq(Nat)] /\ buffer \in Seq(Nat)
      /\ flushes \in SUBSET Seq(Nat) /\ <<>> \notin flushes
  BY DEF DebounceIInv, DebounceTypes
<1>3. /\ new \in Nat /\ new \in Items /\ new \in 0..MaxItems /\ new \notin 1..Past
      /\ new \in 1..new
      /\ \A i \in 1..Past : i < new /\ i \in 1..new
      /\ \A i \in 1..new : i \in 1..Past \/ i = new
  BY <1>0, <1>1, DebounceAssumption DEF Items
<1>4. /\ <<new>> \in Seq(Nat) /\ Len(<<new>>) = 1 /\ <<new>>[1] = new /\ <<new>> # <<>>
      /\ \A j : Holds(<<new>>, j) <=> j = new
  BY <1>3, SingleSeq
<1>5. ~Holds(handed, new)
  BY <1>1, <1>3
<1> HIDE DEF new
<1>6. /\ handed' \in Seq(Nat)
      /\ HandedOnce' /\ HandedOrdered'
      /\ \A i : Holds(handed', i) <=> Holds(handed, i) \/ i = new
  <2>1. \A p \in 1..Len(handed) : handed[p] \in 1..Past
    BY DEF DebounceIInv, HandedOnce
  <2>2. \A k \in 1..Len(<<new>>) : k = 1 /\ <<new>>[k] = new
    BY <1>4
  <2>3. \A k \in 1..Len(<<new>>) : <<new>>[k] \in 1..Past' /\ ~Holds(handed, <<new>>[k])
    BY <1>1, <1>3, <1>5, <2>2
  <2>4. \A j, k \in 1..Len(<<new>>) : j < k <=> <<new>>[j] < <<new>>[k]
    BY <1>3, <2>2
  <2>5. \A k \in 1..Len(<<new>>) : \A p \in 1..Len(handed) : handed[p] < <<new>>[k]
    BY <1>3, <2>1, <2>2
  <2>6. Past' \in Nat /\ Past <= Past'
    BY <1>1, <1>3 DEF new
  <2>7. /\ handed' \in Seq(Nat)
        /\ HandedOnce' /\ HandedOrdered'
        /\ \A i : Holds(handed', i) <=> Holds(handed, i) \/ Holds(<<new>>, i)
    BY <1>0, <1>4, <2>3, <2>4, <2>5, <2>6, HandOverKeeps
  <2> QED
    BY <1>4, <2>7
<1>7. DebounceTypes'
  <2>1. Len(buffer') <= arrived'
    BY <1>0, <1>1, <1>3
  <2>2. flushes' \in SUBSET Seq(Nat) /\ <<>> \notin flushes'
    BY <1>0, <1>2, <1>4
  <2> QED
    BY <1>0, <1>2, <1>3, <1>6, <2>1, <2>2 DEF DebounceTypes
<1>8. BufferIsLatest'
  BY <1>0, <1>1 DEF BufferIsLatest
<1>9. BatchesWereHanded'
  <2> SUFFICES ASSUME NEW b \in flushes', NEW k \in 1..Len(b) PROVE Holds(handed', b[k])
    BY DEF BatchesWereHanded
  <2>1. CASE b \in flushes
    BY <1>6, <2>1 DEF DebounceIInv, BatchesWereHanded
  <2>2. CASE b = <<new>>
    BY <1>4, <1>6, <2>2
  <2> QED
    BY <1>0, <2>1, <2>2
<1>10. WaitedForWereHanded'
  <2> SUFFICES ASSUME NEW i \in Items, behind[i] # <<>>
               PROVE  i \in 1..Past' /\ \A k \in 1..Len(behind[i]) : Holds(handed', behind[i][k])
    BY <1>0 DEF WaitedForWereHanded
  <2>1. i \in 1..Past /\ \A k \in 1..Len(behind[i]) : Holds(handed, behind[i][k])
    BY DEF DebounceIInv, WaitedForWereHanded
  <2> QED
    BY <1>1, <1>3, <1>6, <2>1
<1>11. OneBehind'
  BY <1>0 DEF DebounceIInv, OneBehind
<1>12. \A i \in Items : behind[i] # <<new>>
  <2> SUFFICES ASSUME NEW i \in Items, behind[i] = <<new>> PROVE FALSE
    OBVIOUS
  <2>1. \A k \in 1..Len(<<new>>) : Holds(handed, <<new>>[k])
    BY <1>4 DEF DebounceIInv, WaitedForWereHanded
  <2>2. 1 \in 1..Len(<<new>>)
    BY <1>4
  <2> QED
    BY <1>4, <1>5, <2>1, <2>2
<1>13. WaitsOrHanded'
  <2> SUFFICES ASSUME NEW i \in 1..new
               PROVE  behind[i] \in flushes' <=> ~Holds(handed', i)
    BY <1>0, <1>1 DEF WaitsOrHanded, Waits
  <2>1. CASE i \in 1..Past
    <3>1. behind[i] \in flushes <=> ~Holds(handed, i)
      BY <2>1 DEF DebounceIInv, WaitsOrHanded, Waits
    <3>2. behind[i] # <<new>> /\ i # new
      BY <1>1, <1>3, <1>12, <2>1
    <3> QED
      BY <1>0, <1>6, <3>1, <3>2
  <2>2. CASE i = new
    <3>1. behind[new] = <<>>
      BY <1>3 DEF DebounceIInv, WaitedForWereHanded
    <3> QED
      BY <1>0, <1>2, <1>4, <1>6, <2>2, <3>1
  <2> QED
    BY <1>3, <2>1, <2>2
<1> QED
  BY <1>6, <1>7, <1>8, <1>9, <1>10, <1>11, <1>13 DEF DebounceIInv

\* The handler is done with a batch for which a message waits: that one is handed over.
LEMMA NextInLine ==
  ASSUME DebounceIInv, NEW batch \in flushes, NEW i \in Items, behind[i] = batch,
         flushes' = (flushes \ {batch}) \cup {<<i>>}, handed' = Append(handed, i),
         UNCHANGED <<arrived, buffer, behind>>
  PROVE  DebounceIInv'
<1>1. /\ arrived \in Nat /\ Len(handed) \in Nat /\ Past \in Nat /\ Past' = Past
      /\ 1..Past \subseteq Items
      /\ handed \in Seq(Nat) /\ behind \in [Items -> Seq(Nat)] /\ buffer \in Seq(Nat)
      /\ flushes \in SUBSET Seq(Nat) /\ <<>> \notin flushes
  BY DebounceFacts DEF Past, DebounceIInv, DebounceTypes
<1>2. batch # <<>> /\ i \in 1..Past /\ i \in Nat /\ behind[i] # <<>>
  BY <1>1 DEF DebounceIInv, WaitedForWereHanded
<1>3. ~Holds(handed, i)
  BY <1>2 DEF DebounceIInv, WaitsOrHanded, Waits
<1>4. /\ <<i>> \in Seq(Nat) /\ Len(<<i>>) = 1 /\ <<i>>[1] = i /\ <<i>> # <<>>
      /\ \A j : Holds(<<i>>, j) <=> j = i
  BY <1>2, SingleSeq
<1>5. handed' = handed \o <<i>>
  BY <1>1, <1>2, AppendIsConcat
<1>6. /\ handed' \in Seq(Nat)
      /\ HandedOnce' /\ HandedOrdered'
      /\ \A j : Holds(handed', j) <=> Holds(handed, j) \/ j = i
  <2>1. \A k \in 1..Len(<<i>>) : k = 1 /\ <<i>>[k] = i
    BY <1>4
  <2>2. \A k \in 1..Len(<<i>>) : <<i>>[k] \in 1..Past' /\ ~Holds(handed, <<i>>[k])
    BY <1>1, <1>2, <1>3, <2>1
  <2>3. \A j, k \in 1..Len(<<i>>) : j < k <=> <<i>>[j] < <<i>>[k]
    BY <1>2, <2>1
  <2>4. \A k \in 1..Len(<<i>>) : behind'[<<i>>[k]] # <<>>
    BY <1>2, <2>1
  <2>5. Past' \in Nat /\ Past <= Past'
    BY <1>1
  <2>6. /\ handed' \in Seq(Nat)
        /\ HandedOnce' /\ HandedOrdered'
        /\ \A j : Holds(handed', j) <=> Holds(handed, j) \/ Holds(<<i>>, j)
    BY <1>4, <1>5, <2>2, <2>3, <2>4, <2>5, HandOverKeeps
  <2> QED
    BY <1>4, <2>6
<1>7. DebounceTypes'
  BY <1>1, <1>4, <1>6 DEF DebounceIInv, DebounceTypes
<1>8. BufferIsLatest' /\ OneBehind'
  BY <1>1 DEF DebounceIInv, BufferIsLatest, OneBehind
<1>9. BatchesWereHanded'
  <2> SUFFICES ASSUME NEW b \in flushes', NEW k \in 1..Len(b) PROVE Holds(handed', b[k])
    BY DEF BatchesWereHanded
  <2>1. CASE b \in flushes
    BY <1>6, <2>1 DEF DebounceIInv, BatchesWereHanded
  <2>2. CASE b = <<i>>
    BY <1>4, <1>6, <2>2
  <2> QED
    BY <2>1, <2>2
<1>10. WaitedForWereHanded'
  <2> SUFFICES ASSUME NEW j \in Items, behind[j] # <<>>
               PROVE  j \in 1..Past' /\ \A k \in 1..Len(behind[j]) : Holds(handed', behind[j][k])
    BY DEF WaitedForWereHanded
  <2>1. j \in 1..Past /\ \A k \in 1..Len(behind[j]) : Holds(handed, behind[j][k])
    BY DEF DebounceIInv, WaitedForWereHanded
  <2> QED
    BY <1>1, <1>6, <2>1
<1>11. \A j \in Items : behind[j] # <<i>>
  <2> SUFFICES ASSUME NEW j \in Items, behind[j] = <<i>> PROVE FALSE
    OBVIOUS
  <2>1. \A k \in 1..Len(<<i>>) : Holds(handed, <<i>>[k])
    BY <1>4 DEF DebounceIInv, WaitedForWereHanded
  <2>2. 1 \in 1..Len(<<i>>)
    BY <1>4
  <2> QED
    BY <1>3, <1>4, <2>1, <2>2
<1>12. WaitsOrHanded'
  <2> SUFFICES ASSUME NEW j \in 1..Past
               PROVE  behind[j] \in flushes' <=> ~Holds(handed', j)
    BY <1>1 DEF WaitsOrHanded, Waits
  <2>1. j \in Items /\ (behind[j] \in flushes <=> ~Holds(handed, j)) /\ behind[j] # <<i>>
    BY <1>1, <1>11 DEF DebounceIInv, WaitsOrHanded, Waits
  <2>2. behind[j] = batch => j = i
    BY <1>2, <2>1 DEF DebounceIInv, OneBehind
  <2> QED
    BY <1>6, <2>1, <2>2
<1> QED
  BY <1>6, <1>7, <1>8, <1>9, <1>10, <1>12 DEF DebounceIInv

LEMMA SettlesStep ==
  ASSUME DebounceIInv, NEW batch \in flushes, FlushSettles(batch)
  PROVE  DebounceIInv'
<1>1. CASE \E i \in Items : behind[i] = batch
  <2>1. PICK i \in Items : /\ behind[i] = batch
                           /\ flushes' = (flushes \ {batch}) \cup {<<i>>}
                           /\ handed' = Append(handed, i)
    BY <1>1 DEF FlushSettles
  <2> QED
    BY <2>1, NextInLine DEF FlushSettles
<1>2. CASE ~\E i \in Items : behind[i] = batch
  <2>1. flushes' = flushes \ {batch} /\ UNCHANGED <<arrived, buffer, behind, handed>>
    BY <1>2 DEF FlushSettles
  <2>2. Past' = Past /\ 1..Past \subseteq Items
    BY <2>1, DebounceFacts DEF Past
  <2>3. WaitsOrHanded'
    BY <1>2, <2>1, <2>2 DEF DebounceIInv, WaitsOrHanded, Waits
  <2>4. DebounceTypes' /\ BufferIsLatest' /\ HandedOnce' /\ HandedOrdered'
    BY <2>1, <2>2
       DEF DebounceIInv, DebounceTypes, BufferIsLatest, HandedOnce, HandedOrdered
  <2>5. BatchesWereHanded' /\ WaitedForWereHanded' /\ OneBehind'
    BY <2>1, <2>2 DEF DebounceIInv, BatchesWereHanded, WaitedForWereHanded, OneBehind
  <2> QED
    BY <2>3, <2>4, <2>5 DEF DebounceIInv
<1> QED
  BY <1>1, <1>2

LEMMA DebounceNextInv ==
  DebounceIInv /\ [DebounceNext]_debounceVars => DebounceIInv'
<1> SUFFICES ASSUME DebounceIInv, [DebounceNext]_debounceVars PROVE DebounceIInv'
  OBVIOUS
<1>1. CASE Buffer
  BY <1>1, BufferStep
<1>2. CASE Pass
  <2>1. CASE buffer = <<>>
    BY <1>2, <2>1, PassedAtOnce
  <2>2. CASE buffer # <<>>
    BY <1>2, <2>2, BufferHandedOver DEF Pass
  <2> QED
    BY <2>1, <2>2
<1>3. CASE DebounceTimerFires
  BY <1>3, BufferHandedOver DEF DebounceTimerFires
<1>4. ASSUME NEW batch \in flushes, FlushSettles(batch) PROVE DebounceIInv'
  BY <1>4, SettlesStep
<1>5. CASE UNCHANGED debounceVars
  BY <1>5 DEF debounceVars, DebounceIInv, DebounceTypes, BufferIsLatest, HandedOnce,
     HandedOrdered, BatchesWereHanded, WaitedForWereHanded, OneBehind, WaitsOrHanded, Waits, Past
<1> QED
  BY <1>1, <1>2, <1>3, <1>4, <1>5 DEF DebounceNext

-----------------------------------------------------------------------------
(* Debouncing: what follows *)

\* A message that is there once: counted, one.
LEMMA OneOrNone ==
  ASSUME NEW s \in Seq(Nat), NEW i, \A p, q \in 1..Len(s) : s[p] = s[q] => p = q
  PROVE  Cardinality({k \in DOMAIN s : s[k] = i}) = IF Holds(s, i) THEN 1 ELSE 0
<1>1. DOMAIN s = 1..Len(s)
  BY LenProperties
<1>2. CASE Holds(s, i)
  <2>1. PICK p \in 1..Len(s) : s[p] = i
    BY <1>2 DEF Holds
  <2>2. {k \in DOMAIN s : s[k] = i} = {p}
    BY <1>1, <2>1
  <2> QED
    BY <1>2, <2>2, FS_Singleton
<1>3. CASE ~Holds(s, i)
  <2>1. {k \in DOMAIN s : s[k] = i} = {}
    BY <1>1, <1>3 DEF Holds
  <2> QED
    BY <1>3, <2>1, FS_EmptySet
<1> QED
  BY <1>2, <1>3

LEMMA DebounceIInvImplies == DebounceIInv => DebounceInv
<1> SUFFICES ASSUME DebounceIInv PROVE DebounceInv
  OBVIOUS
<1>1. /\ arrived \in Nat /\ arrived <= MaxItems /\ Len(buffer) \in Nat /\ Len(handed) \in Nat
      /\ Past \in Nat /\ Past + Len(buffer) = arrived
      /\ 1..Past \subseteq Items
      /\ \A i : Holds(handed, i) => i \in 1..Past
      /\ \A i : Holds(buffer, i) <=> i \in (Past + 1)..arrived
  BY DebounceFacts
<1>2. buffer \in Seq(Nat) /\ handed \in Seq(Nat) /\ DOMAIN handed = 1..Len(handed) /\ <<>> \notin flushes
  BY LenProperties DEF DebounceIInv, DebounceTypes
<1>3. \A p, q \in 1..Len(handed) : handed[p] = handed[q] => p = q
  BY DEF DebounceIInv, HandedOnce
<1>4. \A i : Handed(i) <=> Holds(handed, i)
  BY <1>2 DEF Handed, Holds
<1>5. \A i \in 1..arrived : i \in Items
  BY <1>1, DebounceAssumption DEF Items
<1>6. EachOnce
  <2> SUFFICES ASSUME NEW i \in 1..arrived
               PROVE  Cardinality({k \in DOMAIN buffer : buffer[k] = i})
                        + Cardinality({k \in DOMAIN handed : handed[k] = i})
                        + (IF Waits(i) THEN 1 ELSE 0) = 1
    BY DEF EachOnce
  <2>1. \A p, q \in 1..Len(buffer) : buffer[p] = buffer[q] => p = q
    BY <1>1 DEF DebounceIInv, BufferIsLatest
  <2>2. /\ Cardinality({k \in DOMAIN buffer : buffer[k] = i}) = IF Holds(buffer, i) THEN 1 ELSE 0
        /\ Cardinality({k \in DOMAIN handed : handed[k] = i}) = IF Holds(handed, i) THEN 1 ELSE 0
    BY <1>2, <1>3, <2>1, OneOrNone
  <2>3. CASE i \in 1..Past
    <3>1. ~Holds(buffer, i) /\ (Waits(i) <=> ~Holds(handed, i))
      BY <1>1, <2>3 DEF DebounceIInv, WaitsOrHanded
    <3> QED
      BY <2>2, <3>1
  <2>4. CASE i \notin 1..Past
    <3>1. Holds(buffer, i) /\ ~Holds(handed, i)
      BY <1>1, <2>4
    <3>2. ~Waits(i)
      BY <1>2, <1>5, <2>4 DEF DebounceIInv, WaitedForWereHanded, Waits
    <3> QED
      BY <2>2, <3>1, <3>2
  <2> QED
    BY <2>3, <2>4
<1>7. HandedInOrder
  <2> SUFFICES ASSUME NEW i \in 1..arrived, NEW j \in 1..arrived,
                      i < j, Handed(j), behind[i] = <<>>
               PROVE  Handed(i) /\ Place(i) < Place(j)
    BY DEF HandedInOrder
  <2>1. i \in 1..Past /\ j \in 1..Past
    BY <1>1, <1>4
  <2>2. Handed(i)
    BY <1>2, <1>4, <2>1 DEF DebounceIInv, WaitsOrHanded, Waits
  <2>3. /\ Place(i) \in 1..Len(handed) /\ handed[Place(i)] = i
        /\ Place(j) \in 1..Len(handed) /\ handed[Place(j)] = j
    BY <1>2, <2>2 DEF Handed, Place
  <2> QED
    BY <2>2, <2>3 DEF DebounceIInv, HandedOrdered
<1> QED
  BY <1>6, <1>7 DEF DebounceInv

\* Whatever the timer, the handler and the messages that cannot wait do, each message that
\* has come is in the buffer, waits or was handed over, exactly one of these and once; and
\* what is handed over keeps the order of arrival, but for the message that had to wait
\* (inbound-debounce.ts).
THEOREM MessagesAreHandedOnce == DebounceSpec => []DebounceInv
<1>1. DebounceSpec => []DebounceIInv
  BY DebounceInitInv, DebounceNextInv, PTL DEF DebounceSpec
<1> QED
  BY <1>1, DebounceIInvImplies, PTL

-----------------------------------------------------------------------------
(* Wake-ups: the inductive invariant *)

Batch == [runner : Runners, all : [Targets -> Levels], cur : Targets,
          how : {"stopped", "disabled", "undue", "runs"}, todo : SUBSET Targets]

WakeShape ==
  /\ hbStarted \in 0..MaxRunners /\ wakeHandler \in {0, hbStarted}
  /\ wakePending \in [Targets -> Levels]
  /\ wakeTimer \in {"off", "normal", "retry"}
  /\ wakeScheduled \in BOOLEAN /\ wakeRunning \in BOOLEAN /\ hbEnabled \in BOOLEAN
  /\ hbAgents \in BOOLEAN /\ hbTimer \in BOOLEAN /\ hbDue \in BOOLEAN
  /\ muted \in BOOLEAN /\ robbed \in BOOLEAN
  /\ hbTroubles \in 0..MaxTroubles
  /\ owed \in [Targets -> Levels] /\ unheard \subseteq Targets
  /\ wakeBatches \in Seq(Batch) /\ Len(wakeBatches) <= MaxBatches

\* A batch is of a runner that was started, it carries only what was pending, and a
\* call that was refused was one of a runner that had been stopped, as it still is.
BatchOK(b) ==
  /\ b \in Batch
  /\ b.runner \in 1..hbStarted
  /\ b.cur \notin b.todo
  /\ \A k \in Targets : Carries(b, k) => b.all[k] # 0
  /\ b.how = "stopped" => ~Live(b.runner)

BatchesOK == \A i \in 1..Len(wakeBatches) : BatchOK(wakeBatches[i])

\* TicksUnlessMuted holds of a live batch only while it still carries the wake-up of all:
\* it may throw at any time, and what it has served is not queued again by that.
TicksOn ==
  wakeHandler # 0 /\ hbAgents /\ ~muted =>
    \/ hbTimer
    \/ wakePending["all"] # 0
    \/ \E i \in 1..Len(wakeBatches) :
         Live(wakeBatches[i].runner) /\ Carries(wakeBatches[i], "all")

\* The batches of the live runner are one at most, and it is marked.
OneLiveBatch ==
  ~robbed =>
    /\ \A i, j \in 1..Len(wakeBatches) :
         Live(wakeBatches[i].runner) /\ Live(wakeBatches[j].runner) => i = j
    /\ (\E i \in 1..Len(wakeBatches) : Live(wakeBatches[i].runner)) => wakeRunning

WakeIInv == WakeShape /\ BatchesOK /\ OwedWakesAreKept /\ TicksOn /\ OneLiveBatch

LEMMA LevelFacts ==
  /\ Levels \subseteq Nat /\ 0 \in Levels /\ Interval \in Levels /\ Priorities \subseteq Levels
  /\ \A p, q \in Levels : Higher(p, q) \in Levels /\ Higher(p, q) >= p /\ Higher(p, q) >= q
BY WakeAssumption DEF Levels, Interval, Higher

LEMMA WakeBounds == MaxRunners \in Nat /\ MaxBatches \in Nat /\ MaxTroubles \in Nat
BY WakeAssumption

LEMMA WakeInitInv == WakeInit => WakeIInv
<1> SUFFICES ASSUME WakeInit PROVE WakeIInv
  OBVIOUS
<1>1. wakeBatches = <<>> /\ wakeBatches \in Seq(Batch) /\ Len(wakeBatches) = 0
  BY EmptySeq DEF WakeInit
<1>2. WakeShape
  <2>1. wakePending \in [Targets -> Levels] /\ owed \in [Targets -> Levels]
    BY LevelFacts DEF WakeInit
  <2>2. 0 \in 0..MaxRunners /\ 0 \in 0..MaxTroubles /\ 0 <= MaxBatches
    BY WakeBounds
  <2> QED
    BY <1>1, <2>1, <2>2 DEF WakeInit, WakeShape
<1>3. BatchesOK
  BY <1>1 DEF BatchesOK
<1>4. OwedWakesAreKept
  BY DEF WakeInit, OwedWakesAreKept
<1>5. TicksOn /\ OneLiveBatch
  BY <1>1 DEF WakeInit, TicksOn, OneLiveBatch
<1> QED
  BY <1>2, <1>3, <1>4, <1>5 DEF WakeIInv

\* What is left of a sequence, and where, when one element is removed.
LEMMA RemoveFacts ==
  ASSUME NEW S, NEW s \in Seq(S), NEW i \in 1..Len(s), NEW r, r = RemoveAt(s, i)
  PROVE  /\ r \in Seq(S) /\ Len(r) = Len(s) - 1
         /\ \A j \in 1..Len(r) : r[j] = IF j < i THEN s[j] ELSE s[j + 1]
<1>1. Len(s) \in Nat /\ i \in Nat
  BY LenProperties
<1>2. \A j \in 1..Len(s) : s[j] \in S
  BY ElementOfSeq
<1>3. /\ SubSeq(s, 1, i - 1) \in Seq(S)
      /\ Len(SubSeq(s, 1, i - 1)) = i - 1
      /\ \A j \in 1..(i - 1) : SubSeq(s, 1, i - 1)[j] = s[j]
  <2>1. \A j \in 1..(i - 1) : s[j] \in S
    BY <1>1, <1>2
  <2>2. /\ SubSeq(s, 1, i - 1) \in Seq(S)
        /\ Len(SubSeq(s, 1, i - 1)) = IF 1 <= i - 1 THEN (i - 1) - 1 + 1 ELSE 0
        /\ \A j \in 1..((i - 1) - 1 + 1) : SubSeq(s, 1, i - 1)[j] = s[1 + j - 1]
    BY <1>1, <2>1, SubSeqProperties
  <2> QED
    BY <1>1, <2>2
<1>4. /\ SubSeq(s, i + 1, Len(s)) \in Seq(S)
      /\ Len(SubSeq(s, i + 1, Len(s))) = Len(s) - i
      /\ \A j \in 1..(Len(s) - i) : SubSeq(s, i + 1, Len(s))[j] = s[i + j]
  <2>1. \A j \in (i + 1)..Len(s) : s[j] \in S
    BY <1>1, <1>2
  <2>2. /\ SubSeq(s, i + 1, Len(s)) \in Seq(S)
        /\ Len(SubSeq(s, i + 1, Len(s))) = IF i + 1 <= Len(s) THEN Len(s) - (i + 1) + 1 ELSE 0
        /\ \A j \in 1..(Len(s) - (i + 1) + 1) : SubSeq(s, i + 1, Len(s))[j] = s[(i + 1) + j - 1]
    BY <1>1, <2>1, SubSeqProperties
  <2> QED
    BY <1>1, <2>2
<1> DEFINE u == SubSeq(s, 1, i - 1)
           v == SubSeq(s, i + 1, Len(s))
<1>5. /\ u \in Seq(S) /\ Len(u) = i - 1 /\ \A j \in 1..(i - 1) : u[j] = s[j]
      /\ v \in Seq(S) /\ Len(v) = Len(s) - i /\ \A j \in 1..(Len(s) - i) : v[j] = s[i + j]
      /\ r = u \o v
  BY <1>3, <1>4 DEF RemoveAt
<1> HIDE DEF u, v
<1>6. /\ r \in Seq(S) /\ Len(r) = Len(u) + Len(v)
      /\ \A j \in 1..(Len(u) + Len(v)) : r[j] = IF j <= Len(u) THEN u[j] ELSE v[j - Len(u)]
  <2>1. u \in Seq(S) /\ v \in Seq(S)
    BY <1>5
  <2>2. /\ u \o v \in Seq(S) /\ Len(u \o v) = Len(u) + Len(v)
        /\ \A j \in 1..(Len(u) + Len(v)) :
             (u \o v)[j] = IF j <= Len(u) THEN u[j] ELSE v[j - Len(u)]
    BY ONLY <2>1, ConcatProperties
  <2> QED
    BY <1>5, <2>2
<1>7. ASSUME NEW j \in 1..Len(r)
      PROVE  r[j] = IF j < i THEN s[j] ELSE s[j + 1]
  <2>1. r[j] = IF j <= i - 1 THEN u[j] ELSE v[j - (i - 1)]
    BY <1>1, <1>5, <1>6
  <2>2. CASE j < i
    BY <1>1, <1>5, <2>1, <2>2
  <2>3. CASE ~(j < i)
    <3>1. j - (i - 1) \in 1..(Len(s) - i) /\ i + (j - (i - 1)) = j + 1
      BY <1>1, <1>5, <1>6, <2>3
    <3>2. v[j - (i - 1)] = s[j + 1]
      BY <1>5, <3>1
    <3> QED
      BY <1>1, <2>1, <2>3, <3>2
  <2> QED
    BY <2>2, <2>3
<1> QED
  BY <1>1, <1>5, <1>6, <1>7

-----------------------------------------------------------------------------
(* Wake-ups: the batches *)

\* The batches keep their place in the invariant when the runner is the same.
Unmoved == UNCHANGED <<wakeHandler, hbStarted>>

\* A batch ends.
LEMMA BatchEndsFacts ==
  ASSUME WakeShape, BatchesOK, OneLiveBatch, Unmoved,
         NEW i \in 1..Len(wakeBatches), NEW pending, NEW timer \in {"off", "normal", "retry"},
         BatchEnds(i, pending, timer)
  PROVE  /\ wakeBatches' \in Seq(Batch) /\ Len(wakeBatches') <= MaxBatches
         /\ wakeTimer' \in {"off", "normal", "retry"}
         /\ wakeRunning' \in BOOLEAN /\ robbed' \in BOOLEAN
         /\ BatchesOK' /\ OneLiveBatch'
         /\ \A m \in 1..Len(wakeBatches) : m # i =>
              \E j \in 1..Len(wakeBatches') : wakeBatches'[j] = wakeBatches[m]
<1>1. /\ wakeBatches' = RemoveAt(wakeBatches, i)
      /\ wakeRunning' = FALSE
      /\ robbed' = (robbed \/ (~Live(wakeBatches[i].runner) /\ LiveBatches # {}))
  BY DEF BatchEnds
<1>2. wakeBatches \in Seq(Batch) /\ Len(wakeBatches) \in Nat
  BY LenProperties DEF WakeShape
<1>3. /\ wakeBatches' \in Seq(Batch) /\ Len(wakeBatches') = Len(wakeBatches) - 1
      /\ \A j \in 1..Len(wakeBatches') :
           wakeBatches'[j] = IF j < i THEN wakeBatches[j] ELSE wakeBatches[j + 1]
  BY <1>1, <1>2, RemoveFacts
<1>4. Len(wakeBatches') <= MaxBatches
  BY <1>2, <1>3, WakeBounds DEF WakeShape
<1>5. wakeTimer' \in {"off", "normal", "retry"}
  BY DEF BatchEnds, Scheduled
<1>6. BatchesOK'
  <2> SUFFICES ASSUME NEW j \in 1..Len(wakeBatches')
               PROVE  BatchOK(wakeBatches[j])'
    BY DEF BatchesOK
  <2>1. PICK m \in 1..Len(wakeBatches) : wakeBatches'[j] = wakeBatches[m]
    <3>1. j \in 1..Len(wakeBatches) /\ j + 1 \in 1..Len(wakeBatches)
      BY <1>2, <1>3
    <3> QED
      BY <1>3, <3>1
  <2>2. BatchOK(wakeBatches[m])
    BY DEF BatchesOK
  <2> QED
    BY <2>1, <2>2 DEF BatchOK, Unmoved, Live, Carries
<1>7. OneLiveBatch'
  <2> SUFFICES ASSUME ~robbed', NEW j \in 1..Len(wakeBatches'),
                      Live(wakeBatches'[j].runner)
               PROVE  FALSE
    BY DEF OneLiveBatch, Live, Unmoved
  <2>1. PICK m \in 1..Len(wakeBatches) : wakeBatches'[j] = wakeBatches[m] /\ m # i
    <3>1. j \in 1..Len(wakeBatches) /\ j + 1 \in 1..Len(wakeBatches)
      BY <1>2, <1>3
    <3>2. CASE j < i
      BY <1>3, <3>1, <3>2
    <3>3. CASE ~(j < i)
      <4>1. j + 1 # i
        BY <1>2, <3>1, <3>3
      <4> QED
        BY <1>3, <3>1, <3>3, <4>1
    <3> QED
      BY <3>2, <3>3
  <2>2. m \in LiveBatches
    BY <2>1, <1>2 DEF LiveBatches
  <2>3. ~robbed /\ Live(wakeBatches[i].runner)
    BY <1>1, <2>2
  <2> QED
    BY <2>1, <2>3 DEF OneLiveBatch
<1>8. ASSUME NEW m \in 1..Len(wakeBatches), m # i
      PROVE  \E j \in 1..Len(wakeBatches') : wakeBatches'[j] = wakeBatches[m]
  <2>1. CASE m < i
    <3>1. m \in 1..Len(wakeBatches')
      BY <1>2, <1>3, <2>1
    <3> QED
      BY <1>3, <2>1, <3>1
  <2>2. CASE ~(m < i)
    <3>1. m - 1 \in 1..Len(wakeBatches') /\ ~(m - 1 < i) /\ (m - 1) + 1 = m
      BY <1>2, <1>3, <1>8, <2>2
    <3>2. wakeBatches'[m - 1] = wakeBatches[(m - 1) + 1]
      BY <1>3, <3>1
    <3> QED
      BY <3>1, <3>2
  <2> QED
    BY <2>1, <2>2
<1> QED
  BY <1>1, <1>3, <1>4, <1>5, <1>6, <1>7, <1>8

\* A batch goes on to one of the targets it has left.
LEMMA BatchGoesOnFacts ==
  ASSUME WakeShape, BatchesOK, OneLiveBatch, Unmoved,
         NEW i \in 1..Len(wakeBatches), NEW b2 \in NextCall(wakeBatches[i]),
         wakeBatches' = [wakeBatches EXCEPT ![i] = b2], UNCHANGED <<wakeRunning, robbed>>
  PROVE  /\ wakeBatches' \in Seq(Batch) /\ Len(wakeBatches') = Len(wakeBatches)
         /\ BatchesOK' /\ OneLiveBatch'
         /\ \A m \in 1..Len(wakeBatches) : m # i => wakeBatches'[m] = wakeBatches[m]
         /\ wakeBatches'[i].runner = wakeBatches[i].runner
         /\ wakeBatches'[i].all = wakeBatches[i].all
         /\ \A k \in Targets : Carries(wakeBatches[i], k) /\ k # wakeBatches[i].cur =>
              Carries(wakeBatches'[i], k)
<1> DEFINE b == wakeBatches[i]
<1>1. wakeBatches \in Seq(Batch) /\ Len(wakeBatches) \in Nat /\ b \in Batch /\ BatchOK(b)
  BY LenProperties, ElementOfSeq DEF WakeShape, BatchesOK
<1>2. PICK k \in b.todo :
        b2 = [b EXCEPT !.cur = k, !.todo = b.todo \ {k}, !.how = CallOf(b.runner, k, b.all[k])]
  BY DEF NextCall
<1> HIDE DEF b
<1>3. k \in Targets
  BY <1>1 DEF Batch
<1>4. /\ CallOf(b.runner, k, b.all[k]) \in {"stopped", "disabled", "undue", "runs"}
      /\ CallOf(b.runner, k, b.all[k]) = "stopped" => ~Live(b.runner)
  <2>1. CASE ~Live(b.runner)
    BY <2>1 DEF CallOf
  <2>2. CASE Live(b.runner) /\ ~(hbEnabled /\ hbAgents)
    BY <2>2 DEF CallOf
  <2>3. CASE Live(b.runner) /\ hbEnabled /\ hbAgents
    BY <2>3 DEF CallOf
  <2> QED
    BY <2>1, <2>2, <2>3
<1>5. /\ b2 \in Batch
      /\ b2.runner = b.runner /\ b2.all = b.all /\ b2.cur = k /\ b2.todo = b.todo \ {k}
      /\ b2.how = "stopped" => ~Live(b.runner)
  BY <1>1, <1>2, <1>3, <1>4 DEF Batch
<1>6. \A t \in Targets : Carries(b2, t) <=> t \in b.todo
  BY <1>2, <1>5 DEF Carries
<1>7. BatchOK(b2)
  BY <1>1, <1>5, <1>6 DEF BatchOK, Carries
<1>8. /\ wakeBatches' \in Seq(Batch) /\ Len(wakeBatches') = Len(wakeBatches)
      /\ \A m \in 1..Len(wakeBatches) :
           wakeBatches'[m] = IF m = i THEN b2 ELSE wakeBatches[m]
  BY <1>1, <1>5, ExceptSeq
<1>9. BatchesOK'
  <2> SUFFICES ASSUME NEW m \in 1..Len(wakeBatches')
               PROVE  BatchOK(wakeBatches[m])'
    BY DEF BatchesOK
  <2>1. BatchOK(IF m = i THEN b2 ELSE wakeBatches[m])
    BY <1>7, <1>8 DEF BatchesOK
  <2> QED
    BY <1>8, <2>1 DEF BatchOK, Unmoved, Live, Carries
<1>10. \A m \in 1..Len(wakeBatches) : wakeBatches'[m].runner = wakeBatches[m].runner
  BY <1>5, <1>8 DEF b
<1>11. OneLiveBatch'
  BY <1>8, <1>10 DEF OneLiveBatch, Live, Unmoved
<1>12. \A t \in Targets : Carries(b, t) /\ t # b.cur => Carries(b2, t)
  BY <1>6 DEF Carries
<1> QED
  BY <1>5, <1>8, <1>9, <1>10, <1>11, <1>12 DEF b

\* What a call of the handler leaves to the batches, whether its batch goes on or ends:
\* it takes its own target from its own batch, and nothing else.
LEMMA GoOnFacts ==
  ASSUME WakeShape, BatchesOK, OneLiveBatch, Unmoved,
         NEW i \in 1..Len(wakeBatches), NEW pending, NEW timer \in {"off", "normal", "retry"},
         GoOn(i, pending, timer)
  PROVE  /\ wakeBatches' \in Seq(Batch) /\ Len(wakeBatches') <= MaxBatches
         /\ wakeTimer' \in {"off", "normal", "retry"}
         /\ wakeRunning' \in BOOLEAN /\ robbed' \in BOOLEAN
         /\ BatchesOK' /\ OneLiveBatch'
         /\ \A m \in 1..Len(wakeBatches), k \in Targets :
              /\ Carries(wakeBatches[m], k) /\ ~(m = i /\ k = wakeBatches[i].cur)
              => \E j \in 1..Len(wakeBatches') :
                   /\ Carries(wakeBatches'[j], k)
                   /\ wakeBatches'[j].all = wakeBatches[m].all
                   /\ wakeBatches'[j].runner = wakeBatches[m].runner
<1>1. CASE wakeBatches[i].todo = {} /\ BatchEnds(i, pending, timer)
  <2>1. /\ wakeBatches' \in Seq(Batch) /\ Len(wakeBatches') <= MaxBatches
        /\ wakeTimer' \in {"off", "normal", "retry"}
        /\ wakeRunning' \in BOOLEAN /\ robbed' \in BOOLEAN
        /\ BatchesOK' /\ OneLiveBatch'
        /\ \A m \in 1..Len(wakeBatches) : m # i =>
             \E j \in 1..Len(wakeBatches') : wakeBatches'[j] = wakeBatches[m]
    BY <1>1, BatchEndsFacts
  <2>2. ASSUME NEW m \in 1..Len(wakeBatches), NEW k \in Targets,
               Carries(wakeBatches[m], k), ~(m = i /\ k = wakeBatches[i].cur)
        PROVE  \E j \in 1..Len(wakeBatches') :
                 /\ Carries(wakeBatches'[j], k)
                 /\ wakeBatches'[j].all = wakeBatches[m].all
                 /\ wakeBatches'[j].runner = wakeBatches[m].runner
    <3>1. m # i
      BY <1>1, <2>2 DEF Carries
    <3>2. PICK j \in 1..Len(wakeBatches') : wakeBatches'[j] = wakeBatches[m]
      BY <2>1, <3>1
    <3> QED
      BY <2>2, <3>2
  <2> QED
    BY <2>1, <2>2
<1>2. ASSUME NEW b2 \in NextCall(wakeBatches[i]),
             wakeBatches' = [wakeBatches EXCEPT ![i] = b2],
             wakeTimer' = timer, UNCHANGED <<wakeRunning, robbed>>
      PROVE  /\ wakeBatches' \in Seq(Batch) /\ Len(wakeBatches') <= MaxBatches
             /\ wakeTimer' \in {"off", "normal", "retry"}
             /\ wakeRunning' \in BOOLEAN /\ robbed' \in BOOLEAN
             /\ BatchesOK' /\ OneLiveBatch'
             /\ \A m \in 1..Len(wakeBatches), k \in Targets :
                  /\ Carries(wakeBatches[m], k) /\ ~(m = i /\ k = wakeBatches[i].cur)
                  => \E j \in 1..Len(wakeBatches') :
                       /\ Carries(wakeBatches'[j], k)
                       /\ wakeBatches'[j].all = wakeBatches[m].all
                       /\ wakeBatches'[j].runner = wakeBatches[m].runner
  <2>1. /\ wakeBatches' \in Seq(Batch) /\ Len(wakeBatches') = Len(wakeBatches)
        /\ BatchesOK' /\ OneLiveBatch'
        /\ \A m \in 1..Len(wakeBatches) : m # i => wakeBatches'[m] = wakeBatches[m]
        /\ wakeBatches'[i].runner = wakeBatches[i].runner
        /\ wakeBatches'[i].all = wakeBatches[i].all
        /\ \A k \in Targets : Carries(wakeBatches[i], k) /\ k # wakeBatches[i].cur =>
             Carries(wakeBatches'[i], k)
    BY <1>2, BatchGoesOnFacts
  <2>2. ASSUME NEW m \in 1..Len(wakeBatches), NEW k \in Targets,
               Carries(wakeBatches[m], k), ~(m = i /\ k = wakeBatches[i].cur)
        PROVE  \E j \in 1..Len(wakeBatches') :
                 /\ Carries(wakeBatches'[j], k)
                 /\ wakeBatches'[j].all = wakeBatches[m].all
                 /\ wakeBatches'[j].runner = wakeBatches[m].runner
    <3>1. m \in 1..Len(wakeBatches')
      BY <2>1
    <3>2. CASE m = i
      BY <2>1, <2>2, <3>1, <3>2
    <3>3. CASE m # i
      BY <2>1, <2>2, <3>1, <3>3
    <3> QED
      BY <3>2, <3>3
  <2> QED
    BY <1>2, <2>1, <2>2 DEF WakeShape
<1> QED
  BY <1>1, <1>2 DEF GoOn

-----------------------------------------------------------------------------
(* Wake-ups: the steps *)

LEMMA BatchDomain == WakeShape => DOMAIN wakeBatches = 1..Len(wakeBatches)
BY LenProperties DEF WakeShape

LEMMA TargetFacts == "all" \in Targets
BY DEF Targets

\* What a step that leaves handler and batches alone keeps.
LEMMA QuietFacts ==
  ASSUME WakeIInv, Unmoved, UNCHANGED <<wakeBatches, wakeRunning, robbed>>
  PROVE  BatchesOK' /\ OneLiveBatch'
<1>1. BatchesOK'
  BY DEF WakeIInv, BatchesOK, BatchOK, Unmoved, Live, Carries
<1>2. OneLiveBatch'
  BY DEF WakeIInv, OneLiveBatch, Unmoved, Live
<1> QED
  BY <1>1, <1>2

LEMMA RequestFacts ==
  ASSUME WakeIInv, NEW k \in Targets, NEW p \in Levels, RequestHeartbeat(k, p),
         UNCHANGED wakeBatches
  PROVE  /\ wakePending' \in [Targets -> Levels]
         /\ wakeTimer' \in {"off", "normal", "retry"}
         /\ owed' \in [Targets -> Levels] /\ unheard' \subseteq Targets
         /\ \A t \in Targets : wakePending'[t] >= wakePending[t]
         /\ wakePending'[k] >= p
         /\ OwedWakesAreKept'
<1>1. /\ wakePending \in [Targets -> Levels] /\ owed \in [Targets -> Levels]
      /\ unheard \subseteq Targets
      /\ wakePending' = [wakePending EXCEPT ![k] = Higher(wakePending[k], p)]
      /\ unheard' = unheard \ {k}
  BY DEF WakeIInv, WakeShape, RequestHeartbeat, Merge
<1>2. PICK q : q = (IF k \in unheard THEN p ELSE Higher(owed[k], p))
  OBVIOUS
<1>3. owed' = [owed EXCEPT ![k] = q]
  BY <1>2 DEF RequestHeartbeat
<1>4. /\ Higher(wakePending[k], p) \in Levels /\ Higher(wakePending[k], p) >= wakePending[k]
      /\ Higher(wakePending[k], p) >= p
      /\ Higher(owed[k], p) \in Levels
  BY <1>1, LevelFacts
<1>5. q \in Levels /\ (q = p \/ (q = owed[k] /\ k \notin unheard))
  BY <1>2, <1>4 DEF Higher
<1>6. \A t \in Targets : wakePending[t] \in Nat /\ owed[t] \in Nat
  BY <1>1, LevelFacts
<1>7. /\ wakePending' \in [Targets -> Levels] /\ owed' \in [Targets -> Levels]
      /\ wakePending'[k] = Higher(wakePending[k], p) /\ owed'[k] = q
      /\ \A t \in Targets : t # k => wakePending'[t] = wakePending[t] /\ owed'[t] = owed[t]
  BY <1>1, <1>3, <1>4, <1>5
<1>8. wakeTimer' \in {"off", "normal", "retry"}
  BY DEF RequestHeartbeat, Scheduled, WakeIInv, WakeShape
<1>9. \A t \in Targets : wakePending'[t] >= wakePending[t]
  BY <1>4, <1>6, <1>7
<1>10. ASSUME NEW t \in Targets, owed'[t] # 0, t \notin unheard'
       PROVE  \/ wakePending'[t] >= owed'[t]
              \/ \E i \in DOMAIN wakeBatches :
                   Carries(wakeBatches[i], t) /\ wakeBatches[i].all[t] >= owed'[t]
  <2>1. CASE t # k
    BY <1>1, <1>7, <1>10, <2>1 DEF WakeIInv, OwedWakesAreKept
  <2>2. CASE t = k /\ q = p
    BY <1>4, <1>7, <2>2
  <2>3. CASE t = k /\ q = owed[k] /\ k \notin unheard
    <3>1. \/ wakePending[t] >= owed[t]
          \/ \E i \in DOMAIN wakeBatches :
               Carries(wakeBatches[i], t) /\ wakeBatches[i].all[t] >= owed[t]
      BY <1>7, <1>10, <2>3 DEF WakeIInv, OwedWakesAreKept
    <3>2. wakePending'[t] \in Nat
      BY <1>7, LevelFacts
    <3> QED
      BY <1>6, <1>7, <1>9, <2>3, <3>1, <3>2
  <2> QED
    BY <1>5, <2>1, <2>2, <2>3
<1>11. OwedWakesAreKept'
  BY <1>10 DEF OwedWakesAreKept, Carries
<1> QED
  BY <1>1, <1>4, <1>7, <1>8, <1>9, <1>11

LEMMA RequestStep ==
  ASSUME WakeIInv, NEW k \in Targets, NEW p \in Priorities, RequestHeartbeatNow(k, p)
  PROVE  WakeIInv'
<1>1. /\ RequestHeartbeat(k, p) /\ p \in Levels
      /\ UNCHANGED <<wakeHandler, wakeScheduled, wakeRunning, wakeBatches, hbStarted, hbEnabled,
                     hbAgents, hbTimer, hbDue, muted, hbTroubles, robbed>>
  BY LevelFacts DEF RequestHeartbeatNow, runnerVars
<1>2. /\ wakePending' \in [Targets -> Levels]
      /\ wakeTimer' \in {"off", "normal", "retry"}
      /\ owed' \in [Targets -> Levels] /\ unheard' \subseteq Targets
      /\ \A t \in Targets : wakePending'[t] >= wakePending[t]
      /\ OwedWakesAreKept'
  BY <1>1, RequestFacts
<1>3. BatchesOK' /\ OneLiveBatch'
  BY <1>1, QuietFacts DEF Unmoved
<1>4. WakeShape'
  BY <1>1, <1>2 DEF WakeIInv, WakeShape
<1>5. TicksOn'
  <2>1. wakePending["all"] \in Nat /\ wakePending'["all"] \in Nat
        /\ wakePending'["all"] >= wakePending["all"]
    BY <1>2, LevelFacts, TargetFacts DEF WakeIInv, WakeShape
  <2>2. wakePending["all"] # 0 => wakePending'["all"] # 0
    BY <2>1
  <2> QED
    BY <1>1, <2>2 DEF WakeIInv, TicksOn, Live, Carries
<1> QED
  BY <1>2, <1>3, <1>4, <1>5 DEF WakeIInv

LEMMA IntervalStep ==
  ASSUME WakeIInv, IntervalFires PROVE WakeIInv'
<1>1. /\ RequestHeartbeat("all", Interval) /\ Interval \in Levels
      /\ hbTimer' = FALSE /\ hbDue' = TRUE
      /\ UNCHANGED <<wakeHandler, wakeScheduled, wakeRunning, wakeBatches, hbStarted, hbEnabled,
                     hbAgents, muted, hbTroubles, robbed>>
  BY LevelFacts DEF IntervalFires
<1>2. /\ wakePending' \in [Targets -> Levels]
      /\ wakeTimer' \in {"off", "normal", "retry"}
      /\ owed' \in [Targets -> Levels] /\ unheard' \subseteq Targets
      /\ wakePending'["all"] >= Interval
      /\ OwedWakesAreKept'
  BY <1>1, RequestFacts, TargetFacts
<1>3. BatchesOK' /\ OneLiveBatch'
  BY <1>1, QuietFacts DEF Unmoved
<1>4. WakeShape'
  BY <1>1, <1>2 DEF WakeIInv, WakeShape
<1>5. TicksOn'
  <2>1. wakePending'["all"] # 0
    BY <1>2, LevelFacts, TargetFacts DEF Interval
  <2> QED
    BY <2>1 DEF TicksOn
<1> QED
  BY <1>2, <1>3, <1>4, <1>5 DEF WakeIInv

\* The configuration and the switch touch neither wake-ups nor batches.
LEMMA SwitchStep ==
  ASSUME WakeIInv, NEW on \in BOOLEAN, UpdateConfig(on) \/ SetHeartbeatsEnabled(on)
  PROVE  WakeIInv'
<1>1. UNCHANGED <<wakeHandler, wakePending, wakeTimer, wakeScheduled, wakeRunning, wakeBatches,
                  hbStarted, hbTroubles, owed, unheard, robbed>>
  BY DEF UpdateConfig, SetHeartbeatsEnabled, wakeQueueVars, owedVars
<1>2. /\ hbEnabled' \in BOOLEAN /\ hbAgents' \in BOOLEAN /\ hbTimer' \in BOOLEAN
      /\ hbDue' \in BOOLEAN /\ muted' \in BOOLEAN
  BY DEF UpdateConfig, SetHeartbeatsEnabled, WakeIInv, WakeShape
<1>3. BatchesOK' /\ OneLiveBatch'
  BY <1>1, QuietFacts DEF Unmoved
<1>4. WakeShape'
  BY <1>1, <1>2 DEF WakeIInv, WakeShape
<1>5. TicksOn'
  <2>1. CASE UpdateConfig(on)
    BY <2>1 DEF UpdateConfig, TicksOn
  <2>2. CASE SetHeartbeatsEnabled(on)
    BY <1>1, <2>2 DEF SetHeartbeatsEnabled, WakeIInv, TicksOn, Live, Carries
  <2> QED
    BY <2>1, <2>2
<1>6. OwedWakesAreKept'
  BY <1>1 DEF WakeIInv, OwedWakesAreKept, Carries
<1> QED
  BY <1>3, <1>4, <1>5, <1>6 DEF WakeIInv

\* A stopped runner's batches run on, and none of them is of a live one.
LEMMA StopStep ==
  ASSUME WakeIInv, StopRunner PROVE WakeIInv'
<1>1. /\ wakeHandler' = 0
      /\ hbTimer' = FALSE /\ hbDue' = FALSE /\ hbAgents' = FALSE /\ muted' = FALSE /\ robbed' = FALSE
      /\ UNCHANGED <<wakePending, wakeTimer, wakeScheduled, wakeRunning, wakeBatches, hbStarted,
                     hbEnabled, hbTroubles, owed, unheard>>
  BY DEF StopRunner, owedVars
<1>2. \A i \in 1..Len(wakeBatches) : BatchOK(wakeBatches[i]) /\ wakeBatches[i].runner # 0
  BY DEF WakeIInv, WakeShape, BatchesOK, BatchOK
<1>3. BatchesOK'
  <2> SUFFICES ASSUME NEW i \in 1..Len(wakeBatches)
               PROVE  BatchOK(wakeBatches[i])'
    BY <1>1 DEF BatchesOK
  <2> QED
    BY <1>1, <1>2 DEF BatchOK, Live, Carries
<1>4. OneLiveBatch'
  BY <1>1, <1>2 DEF OneLiveBatch, Live
<1>5. WakeShape'
  BY <1>1 DEF WakeIInv, WakeShape
<1>6. TicksOn'
  BY <1>1 DEF TicksOn
<1>7. OwedWakesAreKept'
  BY <1>1 DEF WakeIInv, OwedWakesAreKept, Carries
<1> QED
  BY <1>3, <1>4, <1>5, <1>6, <1>7 DEF WakeIInv

\* The runner that starts is later than that of any batch.
LEMMA StartStep ==
  ASSUME WakeIInv, StartRunner PROVE WakeIInv'
<1>1. /\ wakeHandler = 0 /\ hbStarted < MaxRunners
      /\ hbStarted' = hbStarted + 1 /\ wakeHandler' = hbStarted + 1
      /\ wakeScheduled' = FALSE /\ wakeRunning' = FALSE
      /\ hbAgents' \in BOOLEAN /\ hbTimer' = hbAgents'
      /\ hbDue' = FALSE /\ muted' = FALSE /\ robbed' = FALSE
      /\ UNCHANGED <<wakePending, wakeBatches, hbEnabled, hbTroubles, owed, unheard>>
  BY DEF StartRunner, Register, owedVars
<1>2. wakeTimer' \in {"off", "normal", "retry"}
  BY DEF StartRunner
<1>3. hbStarted \in Nat /\ hbStarted' \in 0..MaxRunners
  BY <1>1, WakeBounds DEF WakeIInv, WakeShape
<1>4. \A i \in 1..Len(wakeBatches) :
        /\ BatchOK(wakeBatches[i])
        /\ wakeBatches[i].runner \in 1..hbStarted'
        /\ wakeBatches[i].runner # wakeHandler'
  <2> TAKE i \in 1..Len(wakeBatches)
  <2>1. BatchOK(wakeBatches[i]) /\ wakeBatches[i].runner \in 1..hbStarted
    BY DEF WakeIInv, BatchesOK, BatchOK
  <2> QED
    BY <1>1, <1>3, <2>1
<1>5. BatchesOK'
  <2> SUFFICES ASSUME NEW i \in 1..Len(wakeBatches)
               PROVE  BatchOK(wakeBatches[i])'
    BY <1>1 DEF BatchesOK
  <2> QED
    BY <1>1, <1>4 DEF BatchOK, Live, Carries
<1>6. OneLiveBatch'
  BY <1>1, <1>4 DEF OneLiveBatch, Live
<1>7. WakeShape'
  BY <1>1, <1>2, <1>3 DEF WakeIInv, WakeShape
<1>8. TicksOn'
  BY <1>1 DEF TicksOn
<1>9. OwedWakesAreKept'
  BY <1>1 DEF WakeIInv, OwedWakesAreKept, Carries
<1> QED
  BY <1>5, <1>6, <1>7, <1>8, <1>9 DEF WakeIInv

\* What owed wake-ups rest on when the call of batch i takes its target from it, and
\* pending wake-ups only rise: that target aside, they are kept.
LEMMA OwedPastCall ==
  ASSUME WakeIInv, WakeShape', NEW i \in 1..Len(wakeBatches),
         \A k \in Targets : wakePending'[k] >= wakePending[k],
         \A m \in 1..Len(wakeBatches), k \in Targets :
           /\ Carries(wakeBatches[m], k) /\ ~(m = i /\ k = wakeBatches[i].cur)
           => \E j \in 1..Len(wakeBatches') :
                /\ Carries(wakeBatches'[j], k)
                /\ wakeBatches'[j].all = wakeBatches[m].all,
         NEW k \in Targets, owed'[k] = owed[k], owed[k] # 0, k \notin unheard,
         k = wakeBatches[i].cur => wakePending'[k] >= wakeBatches[i].all[k]
  PROVE  \/ wakePending'[k] >= owed'[k]
         \/ \E j \in 1..Len(wakeBatches') :
              Carries(wakeBatches'[j], k) /\ wakeBatches'[j].all[k] >= owed'[k]
<1>1. owed[k] \in Nat /\ wakePending[k] \in Nat /\ wakePending'[k] \in Nat
  BY LevelFacts DEF WakeIInv, WakeShape
<1>2. \/ wakePending[k] >= owed[k]
      \/ \E m \in 1..Len(wakeBatches) :
           Carries(wakeBatches[m], k) /\ wakeBatches[m].all[k] >= owed[k]
  BY BatchDomain DEF WakeIInv, OwedWakesAreKept
<1>3. CASE wakePending[k] >= owed[k]
  <2>1. wakePending'[k] >= wakePending[k]
    OBVIOUS
  <2> QED
    BY <1>1, <1>3, <2>1
<1>4. CASE \E m \in 1..Len(wakeBatches) :
             Carries(wakeBatches[m], k) /\ wakeBatches[m].all[k] >= owed[k]
  <2>1. PICK m \in 1..Len(wakeBatches) :
          Carries(wakeBatches[m], k) /\ wakeBatches[m].all[k] >= owed[k]
    BY <1>4
  <2>2. CASE m = i /\ k = wakeBatches[i].cur
    <3>1. wakeBatches[i].all[k] \in Nat
      BY LevelFacts DEF WakeIInv, BatchesOK, BatchOK, Batch
    <3>2. wakePending'[k] >= wakeBatches[i].all[k] /\ wakeBatches[i].all[k] >= owed[k]
      BY <2>1, <2>2
    <3> QED
      BY <1>1, <3>1, <3>2
  <2>3. CASE ~(m = i /\ k = wakeBatches[i].cur)
    BY <2>1, <2>3
  <2> QED
    BY <2>2, <2>3
<1> QED
  BY <1>2, <1>3, <1>4

\* The same for the heartbeat of the live runner.
LEMMA TicksPastCall ==
  ASSUME WakeIInv, WakeShape', Unmoved, NEW i \in 1..Len(wakeBatches),
         hbAgents' = hbAgents, ~muted' => ~muted, hbTimer => hbTimer' \/ muted',
         \A k \in Targets : wakePending'[k] >= wakePending[k],
         \A m \in 1..Len(wakeBatches), k \in Targets :
           /\ Carries(wakeBatches[m], k) /\ ~(m = i /\ k = wakeBatches[i].cur)
           => \E j \in 1..Len(wakeBatches') :
                /\ Carries(wakeBatches'[j], k)
                /\ wakeBatches'[j].runner = wakeBatches[m].runner,
         Live(wakeBatches[i].runner) /\ wakeBatches[i].cur = "all" =>
           ~hbAgents' \/ hbTimer' \/ muted' \/ wakePending'["all"] # 0
  PROVE  TicksOn'
<1> SUFFICES ASSUME wakeHandler' # 0, hbAgents', ~muted', ~hbTimer', wakePending'["all"] = 0
             PROVE  \E j \in 1..Len(wakeBatches') :
                      Live(wakeBatches[j].runner)' /\ Carries(wakeBatches'[j], "all")
  BY DEF TicksOn, Carries
<1>1. wakePending["all"] = 0
  <2>1. wakePending["all"] \in Nat /\ wakePending'["all"] >= wakePending["all"]
    BY TargetFacts, LevelFacts DEF WakeIInv, WakeShape
  <2> QED
    BY <2>1
<1>2. PICK m \in 1..Len(wakeBatches) :
        Live(wakeBatches[m].runner) /\ Carries(wakeBatches[m], "all")
  BY <1>1 DEF WakeIInv, TicksOn, Unmoved
<1>3. ~(m = i /\ "all" = wakeBatches[i].cur)
  BY <1>2
<1>4. PICK j \in 1..Len(wakeBatches') :
        Carries(wakeBatches'[j], "all") /\ wakeBatches'[j].runner = wakeBatches[m].runner
  BY <1>2, <1>3, TargetFacts
<1> QED
  BY <1>2, <1>4 DEF Live, Unmoved

\* Timer and mark of a runner after one of its calls.
LEMMA ScheduleFacts ==
  ASSUME WakeShape, NEW r, ScheduleNext(r)
  PROVE  /\ hbTimer' \in BOOLEAN /\ muted' \in BOOLEAN
         /\ Live(r) => hbTimer' = hbAgents /\ ~muted'
         /\ ~Live(r) => hbTimer' = hbTimer /\ muted' = muted
<1>1. CASE Live(r)
  BY <1>1 DEF ScheduleNext, WakeShape
<1>2. CASE ~Live(r)
  BY <1>2 DEF ScheduleNext, WakeShape
<1> QED
  BY <1>1, <1>2

\* What a target is owed after its call.
LEMMA AnswerFacts ==
  ASSUME WakeShape, NEW k \in Targets, Answered(k) \/ Refused(k)
  PROVE  /\ owed' \in [Targets -> Levels] /\ unheard' \subseteq Targets /\ unheard \subseteq unheard'
         /\ k \in unheard' \/ owed'[k] = wakePending[k]
         /\ \A t \in Targets : t # k => owed'[t] = owed[t]
<1>1. CASE Answered(k)
  BY <1>1 DEF Answered, WakeShape
<1>2. CASE unheard' = unheard \cup {k} /\ UNCHANGED owed
  BY <1>2 DEF WakeShape
<1> QED
  BY <1>1, <1>2 DEF Refused

LEMMA CallDoneStep ==
  ASSUME WakeIInv, NEW i \in 1..Len(wakeBatches), CallDone(i) PROVE WakeIInv'
<1> DEFINE b == wakeBatches[i]
<1>1. /\ GoOn(i, wakePending, wakeTimer)
      /\ Answered(b.cur) \/ Refused(b.cur)
      /\ UNCHANGED <<wakeHandler, wakePending, wakeScheduled, hbStarted, hbEnabled,
                     hbAgents, hbTroubles>>
  BY DEF CallDone
<1>2. BatchOK(b) /\ b.cur \in Targets
  BY DEF WakeIInv, BatchesOK, BatchOK, Batch
<1>3. /\ wakeBatches' \in Seq(Batch) /\ Len(wakeBatches') <= MaxBatches
      /\ wakeTimer' \in {"off", "normal", "retry"}
      /\ wakeRunning' \in BOOLEAN /\ robbed' \in BOOLEAN
      /\ BatchesOK' /\ OneLiveBatch'
      /\ \A m \in 1..Len(wakeBatches), k \in Targets :
           /\ Carries(wakeBatches[m], k) /\ ~(m = i /\ k = wakeBatches[i].cur)
           => \E j \in 1..Len(wakeBatches') :
                /\ Carries(wakeBatches'[j], k)
                /\ wakeBatches'[j].all = wakeBatches[m].all
                /\ wakeBatches'[j].runner = wakeBatches[m].runner
  <2>1. wakeTimer \in {"off", "normal", "retry"} /\ Unmoved
    BY <1>1 DEF WakeIInv, WakeShape, Unmoved
  <2> QED
    BY <1>1, <2>1, GoOnFacts DEF WakeIInv
<1>4. /\ hbTimer' \in BOOLEAN /\ hbDue' \in BOOLEAN /\ muted' \in BOOLEAN
      /\ ~muted' => ~muted \/ Live(b.runner)
      /\ ~Live(b.runner) => hbTimer' = hbTimer /\ muted' = muted
      /\ Live(b.runner) => muted' \/ hbTimer' = hbAgents
  <2>1. CASE b.how = "stopped" /\ UNCHANGED <<hbTimer, hbDue, muted>>
    BY <1>2, <2>1 DEF BatchOK, WakeIInv, WakeShape
  <2>2. CASE b.how = "disabled" /\ muted' = (muted \/ Live(b.runner)) /\ UNCHANGED <<hbTimer, hbDue>>
    <3>1. CASE Live(b.runner)
      BY <2>2, <3>1 DEF WakeIInv, WakeShape
    <3>2. CASE ~Live(b.runner)
      BY <2>2, <3>2 DEF WakeIInv, WakeShape
    <3> QED
      BY <3>1, <3>2
  <2>3. CASE b.how = "undue" /\ ScheduleNext(b.runner) /\ UNCHANGED hbDue
    BY <2>3, ScheduleFacts DEF WakeIInv, WakeShape
  <2>4. CASE b.how = "runs" /\ (UNCHANGED hbDue \/ Advance(b.runner)) /\ ScheduleNext(b.runner)
    <3>1. hbDue' \in BOOLEAN
      BY <2>4 DEF Advance, WakeIInv, WakeShape
    <3> QED
      BY <2>4, <3>1, ScheduleFacts DEF WakeIInv
  <2> QED
    BY <2>1, <2>2, <2>3, <2>4 DEF CallDone
<1> HIDE DEF b
<1>5. /\ owed' \in [Targets -> Levels] /\ unheard' \subseteq Targets /\ unheard \subseteq unheard'
      /\ b.cur \in unheard' \/ owed'[b.cur] = wakePending[b.cur]
      /\ \A k \in Targets : k # b.cur => owed'[k] = owed[k]
  BY <1>1, <1>2, AnswerFacts DEF WakeIInv
<1>6. WakeShape'
  BY <1>1, <1>3, <1>4, <1>5 DEF WakeIInv, WakeShape
<1>7. \A k \in Targets : wakePending'[k] = wakePending[k] /\ wakePending[k] \in Nat
                         /\ wakePending'[k] >= wakePending[k]
  <2>1. wakePending' = wakePending /\ \A k \in Targets : wakePending[k] \in Nat
    BY <1>1, LevelFacts DEF WakeIInv, WakeShape
  <2>2. \A n \in Nat : n >= n
    OBVIOUS
  <2> QED
    BY <2>1, <2>2
<1>8. OwedWakesAreKept'
  <2> SUFFICES ASSUME NEW k \in Targets, owed'[k] # 0, k \notin unheard'
               PROVE  \/ wakePending'[k] >= owed'[k]
                      \/ \E j \in 1..Len(wakeBatches') :
                           Carries(wakeBatches'[j], k) /\ wakeBatches'[j].all[k] >= owed'[k]
    <3>1. DOMAIN wakeBatches' = 1..Len(wakeBatches')
      BY <1>3, LenProperties
    <3> QED
      BY <3>1 DEF OwedWakesAreKept, Carries
  <2>1. CASE k = b.cur
    BY <1>5, <1>7, <2>1
  <2>2. CASE k # b.cur
    <3>1. owed'[k] = owed[k] /\ owed[k] # 0 /\ k \notin unheard
      BY <1>5, <2>2
    <3>2. k = wakeBatches[i].cur => wakePending'[k] >= wakeBatches[i].all[k]
      BY <2>2 DEF b
    <3> QED
      BY <1>3, <1>6, <1>7, <3>1, <3>2, OwedPastCall
  <2> QED
    BY <2>1, <2>2
<1>9. TicksOn'
  <2>1. CASE Live(b.runner) /\ muted
    \* Of a mute runner nothing is asked, and the call that unmutes it arms its timer.
    <3>1. muted' \/ hbTimer' = hbAgents'
      BY <1>1, <1>4, <2>1
    <3> QED
      BY <3>1 DEF TicksOn
  <2>2. CASE Live(b.runner) /\ ~muted
    <3>1. muted' \/ hbTimer' = hbAgents'
      BY <1>1, <1>4, <2>2
    <3> QED
      BY <3>1 DEF TicksOn
  <2>3. CASE ~Live(b.runner)
    <3>1. /\ ~muted' => ~muted
          /\ hbTimer => hbTimer' \/ muted'
          /\ ~Live(wakeBatches[i].runner)
      BY <1>4, <2>3 DEF b
    <3>2. Unmoved /\ hbAgents' = hbAgents
      BY <1>1 DEF Unmoved
    <3> QED
      BY <1>3, <1>6, <1>7, <3>1, <3>2, TicksPastCall
  <2> QED
    BY <2>1, <2>2, <2>3
<1> QED
  BY <1>3, <1>6, <1>8, <1>9 DEF WakeIInv

LEMMA LaneBusyStep ==
  ASSUME WakeIInv, NEW i \in 1..Len(wakeBatches), LaneBusy(i) PROVE WakeIInv'
<1> DEFINE b == wakeBatches[i]
           pending == Merge(b.cur, b.all[b.cur])
           timer == Scheduled(wakeTimer, "retry")
<1>1. /\ hbTroubles < MaxTroubles /\ hbTroubles' = hbTroubles + 1
      /\ wakePending' = pending /\ GoOn(i, pending, timer)
      /\ Advance(b.runner) /\ ScheduleNext(b.runner)
      /\ UNCHANGED <<wakeHandler, wakeScheduled, hbStarted, hbEnabled, hbAgents, owed, unheard>>
  BY DEF LaneBusy, owedVars
<1>2. BatchOK(b) /\ b.cur \in Targets /\ b.all[b.cur] \in Levels
  BY DEF WakeIInv, BatchesOK, BatchOK, Batch
<1>3. /\ wakeBatches' \in Seq(Batch) /\ Len(wakeBatches') <= MaxBatches
      /\ wakeTimer' \in {"off", "normal", "retry"}
      /\ wakeRunning' \in BOOLEAN /\ robbed' \in BOOLEAN
      /\ BatchesOK' /\ OneLiveBatch'
      /\ \A m \in 1..Len(wakeBatches), k \in Targets :
           /\ Carries(wakeBatches[m], k) /\ ~(m = i /\ k = wakeBatches[i].cur)
           => \E j \in 1..Len(wakeBatches') :
                /\ Carries(wakeBatches'[j], k)
                /\ wakeBatches'[j].all = wakeBatches[m].all
                /\ wakeBatches'[j].runner = wakeBatches[m].runner
  <2>1. timer \in {"off", "normal", "retry"} /\ Unmoved
    BY <1>1 DEF WakeIInv, WakeShape, Unmoved, Scheduled
  <2> HIDE DEF pending, timer
  <2> QED
    BY <1>1, <2>1, GoOnFacts DEF WakeIInv
<1>4. /\ hbTimer' \in BOOLEAN /\ hbDue' \in BOOLEAN /\ muted' \in BOOLEAN
      /\ Live(b.runner) => hbTimer' = hbAgents /\ ~muted'
      /\ ~Live(b.runner) => hbTimer' = hbTimer /\ muted' = muted
  <2>1. hbDue' \in BOOLEAN
    BY <1>1 DEF Advance
  <2> QED
    BY <1>1, <2>1, ScheduleFacts DEF WakeIInv
<1>5. /\ wakePending' \in [Targets -> Levels]
      /\ wakePending'[b.cur] >= b.all[b.cur]
      /\ \A k \in Targets : wakePending'[k] >= wakePending[k]
  <2>1. wakePending \in [Targets -> Levels] /\ \A k \in Targets : wakePending[k] \in Nat
    BY LevelFacts DEF WakeIInv, WakeShape
  <2>2. /\ Higher(wakePending[b.cur], b.all[b.cur]) \in Levels
        /\ Higher(wakePending[b.cur], b.all[b.cur]) >= wakePending[b.cur]
        /\ Higher(wakePending[b.cur], b.all[b.cur]) >= b.all[b.cur]
    BY <1>2, <2>1, LevelFacts
  <2>3. wakePending' = [wakePending EXCEPT ![b.cur] = Higher(wakePending[b.cur], b.all[b.cur])]
    BY <1>1 DEF Merge
  <2> HIDE DEF b, pending, timer
  <2> QED
    BY <1>2, <2>1, <2>2, <2>3
<1> HIDE DEF b, pending, timer
<1>6. WakeShape'
  <2>1. hbTroubles' \in 0..MaxTroubles
    BY <1>1, WakeBounds DEF WakeIInv, WakeShape
  <2> QED
    BY <1>1, <1>3, <1>4, <1>5, <2>1 DEF WakeIInv, WakeShape
<1>7. OwedWakesAreKept'
  <2> SUFFICES ASSUME NEW k \in Targets, owed'[k] # 0, k \notin unheard'
               PROVE  \/ wakePending'[k] >= owed'[k]
                      \/ \E j \in 1..Len(wakeBatches') :
                           Carries(wakeBatches'[j], k) /\ wakeBatches'[j].all[k] >= owed'[k]
    <3>1. DOMAIN wakeBatches' = 1..Len(wakeBatches')
      BY <1>3, LenProperties
    <3> QED
      BY <3>1 DEF OwedWakesAreKept, Carries
  <2>1. owed'[k] = owed[k] /\ owed[k] # 0 /\ k \notin unheard
    BY <1>1
  <2>2. k = wakeBatches[i].cur => wakePending'[k] >= wakeBatches[i].all[k]
    BY <1>5 DEF b
  <2>3. \A t \in Targets : wakePending'[t] >= wakePending[t]
    BY <1>5
  <2>4. \A m \in 1..Len(wakeBatches), t \in Targets :
          /\ Carries(wakeBatches[m], t) /\ ~(m = i /\ t = wakeBatches[i].cur)
          => \E j \in 1..Len(wakeBatches') :
               /\ Carries(wakeBatches'[j], t)
               /\ wakeBatches'[j].all = wakeBatches[m].all
    BY <1>3
  <2> QED
    BY ONLY WakeIInv, <1>6, <2>1, <2>2, <2>3, <2>4, OwedPastCall
<1>8. TicksOn'
  <2>1. CASE Live(b.runner)
    BY <1>1, <1>4, <2>1 DEF TicksOn
  <2>2. CASE ~Live(b.runner)
    <3>1. /\ ~muted' => ~muted
          /\ hbTimer => hbTimer' \/ muted'
          /\ ~Live(wakeBatches[i].runner)
      BY <1>4, <2>2 DEF b
    <3>2. Unmoved /\ hbAgents' = hbAgents
      BY <1>1 DEF Unmoved
    <3> QED
      BY <1>3, <1>5, <1>6, <3>1, <3>2, TicksPastCall
  <2> QED
    BY <2>1, <2>2
<1> QED
  BY <1>3, <1>6, <1>7, <1>8 DEF WakeIInv

\* The handler that throws gives all its batch carried back to the queue.
LEMMA ThrowsStep ==
  ASSUME WakeIInv, NEW i \in 1..Len(wakeBatches), Throws(i) PROVE WakeIInv'
<1> DEFINE b == wakeBatches[i]
           pending == [k \in Targets |-> Higher(wakePending[k], b.all[k])]
           timer == Scheduled(wakeTimer, "retry")
<1>1. /\ hbTroubles < MaxTroubles /\ hbTroubles' = hbTroubles + 1
      /\ wakePending' = pending /\ BatchEnds(i, pending, timer)
      /\ UNCHANGED <<wakeHandler, wakeScheduled, hbStarted, hbEnabled, hbAgents, hbTimer,
                     hbDue, muted, owed, unheard>>
  BY DEF Throws, runnerVars, owedVars
<1>2. BatchOK(b) /\ \A k \in Targets : b.all[k] \in Levels
  BY DEF WakeIInv, BatchesOK, BatchOK, Batch
<1>3. /\ wakeBatches' \in Seq(Batch) /\ Len(wakeBatches') <= MaxBatches
      /\ wakeTimer' \in {"off", "normal", "retry"}
      /\ wakeRunning' \in BOOLEAN /\ robbed' \in BOOLEAN
      /\ BatchesOK' /\ OneLiveBatch'
      /\ \A m \in 1..Len(wakeBatches) : m # i =>
           \E j \in 1..Len(wakeBatches') : wakeBatches'[j] = wakeBatches[m]
  <2>1. timer \in {"off", "normal", "retry"} /\ Unmoved
    BY <1>1 DEF WakeIInv, WakeShape, Unmoved, Scheduled
  <2> HIDE DEF pending, timer
  <2> QED
    BY <1>1, <2>1, BatchEndsFacts DEF WakeIInv
<1>4. /\ wakePending' \in [Targets -> Levels]
      /\ \A k \in Targets : wakePending'[k] >= wakePending[k] /\ wakePending'[k] >= b.all[k]
  <2>1. \A k \in Targets : wakePending[k] \in Levels
    BY DEF WakeIInv, WakeShape
  <2>2. \A k \in Targets : /\ Higher(wakePending[k], b.all[k]) \in Levels
                           /\ Higher(wakePending[k], b.all[k]) >= wakePending[k]
                           /\ Higher(wakePending[k], b.all[k]) >= b.all[k]
    BY <1>2, <2>1, LevelFacts
  <2>3. wakePending' = [k \in Targets |-> Higher(wakePending[k], b.all[k])]
    BY <1>1
  <2> HIDE DEF b
  <2> QED
    BY <2>2, <2>3
<1> HIDE DEF b, pending, timer
<1>5. WakeShape'
  <2>1. hbTroubles' \in 0..MaxTroubles
    BY <1>1, WakeBounds DEF WakeIInv, WakeShape
  <2> QED
    BY <1>1, <1>3, <1>4, <2>1 DEF WakeIInv, WakeShape
<1>6. OwedWakesAreKept'
  <2> SUFFICES ASSUME NEW k \in Targets, owed'[k] # 0, k \notin unheard'
               PROVE  \/ wakePending'[k] >= owed'[k]
                      \/ \E j \in 1..Len(wakeBatches') :
                           Carries(wakeBatches'[j], k) /\ wakeBatches'[j].all[k] >= owed'[k]
    <3>1. DOMAIN wakeBatches' = 1..Len(wakeBatches')
      BY <1>3, LenProperties
    <3> QED
      BY <3>1 DEF OwedWakesAreKept, Carries
  <2>1. /\ owed'[k] = owed[k] /\ owed[k] # 0 /\ k \notin unheard
        /\ owed[k] \in Nat /\ wakePending[k] \in Nat /\ wakePending'[k] \in Nat /\ b.all[k] \in Nat
        /\ wakePending'[k] >= wakePending[k] /\ wakePending'[k] >= b.all[k]
    BY <1>1, <1>2, <1>4, LevelFacts DEF WakeIInv, WakeShape
  <2>2. \/ wakePending[k] >= owed[k]
        \/ \E m \in 1..Len(wakeBatches) :
             Carries(wakeBatches[m], k) /\ wakeBatches[m].all[k] >= owed[k]
    BY <2>1, BatchDomain DEF WakeIInv, OwedWakesAreKept
  <2>3. CASE wakePending[k] >= owed[k] \/ b.all[k] >= owed[k]
    BY <2>1, <2>3
  <2>4. CASE \E m \in 1..Len(wakeBatches) :
               m # i /\ Carries(wakeBatches[m], k) /\ wakeBatches[m].all[k] >= owed[k]
    BY <1>3, <2>1, <2>4
  <2> QED
    BY <2>2, <2>3, <2>4 DEF b
<1>7. TicksOn'
  <2> SUFFICES ASSUME wakeHandler' # 0, hbAgents', ~muted', ~hbTimer', wakePending'["all"] = 0
               PROVE  \E j \in 1..Len(wakeBatches') :
                        Live(wakeBatches[j].runner)' /\ Carries(wakeBatches'[j], "all")
    BY DEF TicksOn, Carries
  <2>1. wakePending["all"] = 0 /\ b.all["all"] = 0
    <3>1. /\ wakePending["all"] \in Nat /\ b.all["all"] \in Nat
          /\ wakePending'["all"] >= wakePending["all"] /\ wakePending'["all"] >= b.all["all"]
      BY <1>2, <1>4, TargetFacts, LevelFacts DEF WakeIInv, WakeShape
    <3> QED
      BY <3>1
  <2>2. PICK m \in 1..Len(wakeBatches) :
          Live(wakeBatches[m].runner) /\ Carries(wakeBatches[m], "all")
    BY <1>1, <2>1 DEF WakeIInv, TicksOn
  <2>3. m # i
    BY <1>2, <2>1, <2>2, TargetFacts DEF BatchOK, b
  <2>4. PICK j \in 1..Len(wakeBatches') : wakeBatches'[j] = wakeBatches[m]
    BY <1>3, <2>3
  <2> QED
    BY <1>1, <2>2, <2>4 DEF Live, Carries
<1> QED
  BY <1>3, <1>5, <1>6, <1>7 DEF WakeIInv

\* A timer that fires puts all that is pending into a batch of the live runner.
LEMMA BatchStarts ==
  ASSUME WakeIInv, wakeHandler # 0, ~wakeRunning, Len(wakeBatches) < MaxBatches,
         wakeTimer' = "off", wakeScheduled' = FALSE, wakeRunning' = TRUE,
         wakePending' = [k \in Targets |-> 0],
         NEW b \in NextCall([runner |-> wakeHandler, all |-> wakePending, cur |-> "all",
                             how |-> "runs", todo |-> {k \in Targets : wakePending[k] # 0}]),
         wakeBatches' = Append(wakeBatches, b),
         UNCHANGED <<wakeHandler, hbStarted, hbEnabled, hbAgents, hbTimer, hbDue, muted,
                     hbTroubles, owed, unheard, robbed>>
  PROVE  WakeIInv'
<1>1. PICK k \in {t \in Targets : wakePending[t] # 0} :
        /\ b.runner = wakeHandler /\ b.all = wakePending
        /\ b.cur = k /\ b.todo = {t \in Targets : wakePending[t] # 0} \ {k}
        /\ b.how = CallOf(wakeHandler, k, wakePending[k])
        /\ b = [runner |-> b.runner, all |-> b.all, cur |-> b.cur, how |-> b.how, todo |-> b.todo]
  BY DEF NextCall
<1>2. b.how \in {"disabled", "undue", "runs"}
  <2>1. Live(wakeHandler)
    BY DEF Live
  <2>2. CASE ~(hbEnabled /\ hbAgents)
    BY <1>1, <2>1, <2>2 DEF CallOf
  <2>3. CASE hbEnabled /\ hbAgents
    BY <1>1, <2>1, <2>3 DEF CallOf
  <2> QED
    BY <2>2, <2>3
<1>3. /\ wakePending \in [Targets -> Levels] /\ wakeHandler \in 1..hbStarted
      /\ wakeHandler \in Runners /\ hbStarted \in 0..MaxRunners
  BY WakeBounds DEF WakeIInv, WakeShape, Runners
<1>4. b \in Batch
  BY <1>1, <1>2, <1>3 DEF Batch
<1>5. \A t \in Targets : Carries(b, t) <=> wakePending[t] # 0
  BY <1>1 DEF Carries
<1>6. BatchOK(b)
  BY <1>1, <1>2, <1>3, <1>4, <1>5 DEF BatchOK
<1>7. wakeBatches \in Seq(Batch) /\ Len(wakeBatches) \in Nat
  BY LenProperties DEF WakeIInv, WakeShape
<1>8. /\ wakeBatches' \in Seq(Batch) /\ Len(wakeBatches') = Len(wakeBatches) + 1
      /\ \A m \in 1..Len(wakeBatches) : wakeBatches'[m] = wakeBatches[m]
      /\ wakeBatches'[Len(wakeBatches) + 1] = b
  BY <1>4, <1>7, AppendProperties
<1>9. \A m \in 1..Len(wakeBatches') :
        \/ m \in 1..Len(wakeBatches) /\ wakeBatches'[m] = wakeBatches[m]
        \/ m = Len(wakeBatches) + 1 /\ wakeBatches'[m] = b
  BY <1>7, <1>8
<1>10. BatchesOK'
  <2> SUFFICES ASSUME NEW m \in 1..Len(wakeBatches')
               PROVE  BatchOK(wakeBatches[m])'
    BY DEF BatchesOK
  <2>1. BatchOK(wakeBatches'[m])
    BY <1>6, <1>9 DEF WakeIInv, BatchesOK
  <2> QED
    BY <2>1 DEF BatchOK, Live, Carries
<1>11. OneLiveBatch'
  <2> SUFFICES ASSUME ~robbed
               PROVE  \A m \in 1..Len(wakeBatches') :
                        Live(wakeBatches'[m].runner) => m = Len(wakeBatches) + 1
    BY <1>7 DEF OneLiveBatch, Live
  <2>1. \A m \in 1..Len(wakeBatches) : ~Live(wakeBatches[m].runner)
    BY DEF WakeIInv, OneLiveBatch
  <2> QED
    BY <1>9, <2>1
<1>12. WakeShape'
  <2>1. 0 \in Levels /\ Len(wakeBatches') <= MaxBatches
    BY <1>7, <1>8, LevelFacts, WakeBounds
  <2> QED
    BY <1>8, <2>1 DEF WakeIInv, WakeShape
<1>13. DOMAIN wakeBatches' = 1..Len(wakeBatches') /\ Len(wakeBatches) + 1 \in 1..Len(wakeBatches')
       /\ 1..Len(wakeBatches) \subseteq 1..Len(wakeBatches')
  BY <1>7, <1>8, LenProperties
<1>14. OwedWakesAreKept'
  <2> SUFFICES ASSUME NEW t \in Targets, owed[t] # 0, t \notin unheard
               PROVE  \E j \in 1..Len(wakeBatches') :
                        Carries(wakeBatches'[j], t) /\ wakeBatches'[j].all[t] >= owed[t]
    BY <1>13 DEF OwedWakesAreKept, Carries
  <2>1. \/ wakePending[t] >= owed[t]
        \/ \E m \in 1..Len(wakeBatches) :
             Carries(wakeBatches[m], t) /\ wakeBatches[m].all[t] >= owed[t]
    BY BatchDomain DEF WakeIInv, OwedWakesAreKept
  <2>2. CASE wakePending[t] >= owed[t]
    <3>1. owed[t] \in Nat /\ wakePending[t] \in Nat
      BY LevelFacts DEF WakeIInv, WakeShape
    <3>2. wakePending[t] # 0
      BY <2>2, <3>1
    <3>3. Carries(b, t) /\ b.all[t] >= owed[t]
      BY <1>1, <1>5, <2>2, <3>2
    <3> QED
      BY <1>8, <1>13, <3>3
  <2>3. CASE \E m \in 1..Len(wakeBatches) :
               Carries(wakeBatches[m], t) /\ wakeBatches[m].all[t] >= owed[t]
    <3>1. PICK m \in 1..Len(wakeBatches) :
            Carries(wakeBatches[m], t) /\ wakeBatches[m].all[t] >= owed[t]
      BY <2>3
    <3> QED
      BY <1>8, <1>13, <3>1
  <2> QED
    BY <2>1, <2>2, <2>3
<1>15. TicksOn'
  <2> SUFFICES ASSUME wakeHandler # 0, hbAgents, ~muted, ~hbTimer
               PROVE  \E j \in 1..Len(wakeBatches') :
                        Live(wakeBatches'[j].runner) /\ Carries(wakeBatches'[j], "all")
    BY DEF TicksOn, Live, Carries
  <2>1. CASE wakePending["all"] # 0
    <3>1. Carries(b, "all") /\ Live(b.runner)
      BY <1>1, <1>5, <2>1, TargetFacts DEF Live
    <3> QED
      BY <1>8, <1>13, <3>1
  <2>2. CASE \E m \in 1..Len(wakeBatches) :
               Live(wakeBatches[m].runner) /\ Carries(wakeBatches[m], "all")
    <3>1. PICK m \in 1..Len(wakeBatches) :
            Live(wakeBatches[m].runner) /\ Carries(wakeBatches[m], "all")
      BY <2>2
    <3> QED
      BY <1>8, <1>13, <3>1
  <2> QED
    BY <2>1, <2>2 DEF WakeIInv, TicksOn
<1> QED
  BY <1>10, <1>11, <1>12, <1>14, <1>15 DEF WakeIInv

LEMMA FireStep ==
  ASSUME WakeIInv, Fire PROVE WakeIInv'
<1>1. UNCHANGED <<wakeHandler, hbStarted, hbEnabled, hbAgents, hbTimer, hbDue, muted,
                  hbTroubles, owed, unheard, robbed>>
  BY DEF Fire, runnerVars, owedVars
<1>2. ASSUME UNCHANGED <<wakePending, wakeRunning, wakeBatches>>,
             wakeTimer' \in {"off", "normal", "retry"}, wakeScheduled' \in BOOLEAN
      PROVE  WakeIInv'
  <2>1. BatchesOK' /\ OneLiveBatch'
    BY <1>1, <1>2, QuietFacts DEF Unmoved
  <2>2. WakeShape'
    BY <1>1, <1>2 DEF WakeIInv, WakeShape
  <2>3. OwedWakesAreKept' /\ TicksOn'
    BY <1>1, <1>2 DEF WakeIInv, OwedWakesAreKept, TicksOn, Live, Carries
  <2> QED
    BY <2>1, <2>2, <2>3 DEF WakeIInv
<1>3. CASE \/ /\ wakeHandler = 0
              /\ wakeTimer' = "off" /\ wakeScheduled' = FALSE
              /\ UNCHANGED <<wakePending, wakeRunning, wakeBatches>>
           \/ /\ wakeHandler # 0 /\ ~wakeRunning /\ ~AnyPending(wakePending)
              /\ wakeTimer' = "off" /\ wakeScheduled' = FALSE
              /\ UNCHANGED <<wakePending, wakeRunning, wakeBatches>>
  BY <1>2, <1>3
<1>4. CASE /\ wakeHandler # 0 /\ wakeRunning
           /\ wakeScheduled' = TRUE
           /\ UNCHANGED <<wakeTimer, wakePending, wakeRunning, wakeBatches>>
  BY <1>2, <1>4 DEF WakeIInv, WakeShape
<1>5. CASE /\ wakeHandler # 0 /\ ~wakeRunning /\ AnyPending(wakePending)
           /\ Len(wakeBatches) < MaxBatches
           /\ wakeTimer' = "off" /\ wakeScheduled' = FALSE /\ wakeRunning' = TRUE
           /\ wakePending' = [k \in Targets |-> 0]
           /\ \E b \in NextCall([runner |-> wakeHandler, all |-> wakePending, cur |-> "all",
                                 how |-> "runs", todo |-> {k \in Targets : wakePending[k] # 0}]) :
                wakeBatches' = Append(wakeBatches, b)
  BY <1>1, <1>5, BatchStarts
<1> QED
  BY <1>3, <1>4, <1>5 DEF Fire

LEMMA WakeNextInv == WakeIInv /\ [WakeNext]_wakeVars => WakeIInv'
<1> SUFFICES ASSUME WakeIInv, [WakeNext]_wakeVars PROVE WakeIInv'
  OBVIOUS
<1>1. CASE \E k \in Targets, p \in Priorities : RequestHeartbeatNow(k, p)
  BY <1>1, RequestStep
<1>2. CASE IntervalFires
  BY <1>2, IntervalStep
<1>3. CASE Fire
  BY <1>3, FireStep
<1>4. CASE BatchStep
  <2>1. PICK i \in 1..Len(wakeBatches) : CallDone(i) \/ LaneBusy(i) \/ Throws(i)
    BY <1>4, BatchDomain DEF BatchStep, WakeIInv
  <2> QED
    BY <2>1, CallDoneStep, LaneBusyStep, ThrowsStep
<1>5. CASE StartRunner
  BY <1>5, StartStep
<1>6. CASE StopRunner
  BY <1>6, StopStep
<1>7. CASE \E b \in BOOLEAN : UpdateConfig(b) \/ SetHeartbeatsEnabled(b)
  BY <1>7, SwitchStep
<1>8. CASE UNCHANGED wakeVars
  <2>1. UNCHANGED <<wakeHandler, wakePending, wakeTimer, wakeScheduled, wakeRunning, wakeBatches,
                    hbStarted, hbEnabled, hbAgents, hbTimer, hbDue, muted, hbTroubles, owed, unheard, robbed>>
    BY <1>8 DEF wakeVars, wakeQueueVars, runnerVars, owedVars
  <2>2. BatchesOK' /\ OneLiveBatch'
    BY <2>1, QuietFacts DEF Unmoved
  <2>3. WakeShape'
    BY <2>1 DEF WakeIInv, WakeShape
  <2>4. OwedWakesAreKept' /\ TicksOn'
    BY <2>1 DEF WakeIInv, OwedWakesAreKept, TicksOn, Live, Carries
  <2> QED
    BY <2>2, <2>3, <2>4 DEF WakeIInv
<1> QED
  BY <1>1, <1>2, <1>3, <1>4, <1>5, <1>6, <1>7, <1>8 DEF WakeNext

LEMMA WakeIInvHolds == WakeSpec => []WakeIInv
BY WakeInitInv, WakeNextInv, PTL DEF WakeSpec

\* A wake-up that was asked for stays with the queue or with a batch, at its priority,
\* until it is answered, be it "disabled" by a runner that was stopped meanwhile; and a heartbeat that is on has its timer, its wake-up
\* or a batch at work to go on with (heartbeat-wake.ts, heartbeat-runner.ts).
THEOREM WakesAreKept == WakeSpec => []WakeInv
<1>1. WakeIInv => WakeInv
  <2> SUFFICES ASSUME WakeIInv PROVE WakeInv
    OBVIOUS
  <2>1. DOMAIN wakeBatches = 1..Len(wakeBatches)
    BY BatchDomain DEF WakeIInv
  <2>2. \A i \in DOMAIN wakeBatches : wakeBatches[i].cur \notin wakeBatches[i].todo
    BY <2>1 DEF WakeIInv, BatchesOK, BatchOK
  <2>3. WakeTypeOK
    BY <2>2 DEF WakeIInv, WakeShape, WakeTypeOK, Batch
  <2>4. TicksUnlessMuted
    BY <2>1 DEF WakeIInv, TicksOn, TicksUnlessMuted, LiveBatches
  <2> QED
    BY <2>3, <2>4 DEF WakeIInv, WakeInv
<1> QED
  BY <1>1, WakeIInvHolds, PTL

\* The runner that is live serves one batch at a time, `running' says so, and no timer
\* starts a second, until a batch of an earlier runner resets `running' as it ends
\* (heartbeat-wake.ts:119, heartbeat-wake.ts:177).
THEOREM BatchesComeOneByOne == WakeSpec => []OneBatchUnlessRobbed
<1>1. WakeIInv => OneBatchUnlessRobbed
  <2> SUFFICES ASSUME WakeIInv, ~robbed
               PROVE  Cardinality(LiveBatches) <= 1 /\ (LiveBatches # {} => wakeRunning)
    BY DEF OneBatchUnlessRobbed
  <2>1. LiveBatches = {i \in 1..Len(wakeBatches) : Live(wakeBatches[i].runner)}
    BY BatchDomain DEF WakeIInv, LiveBatches
  <2>2. LiveBatches # {} => wakeRunning
    BY <2>1 DEF WakeIInv, OneLiveBatch
  <2>3. CASE LiveBatches = {}
    BY <2>2, <2>3, FS_EmptySet
  <2>4. CASE \E i \in LiveBatches : TRUE
    <3>1. PICK i \in LiveBatches : TRUE
      BY <2>4
    <3>2. LiveBatches = {i}
      BY <2>1, <3>1 DEF WakeIInv, OneLiveBatch
    <3>3. Cardinality(LiveBatches) = 1
      BY <3>2, FS_Singleton
    <3> QED
      BY <2>2, <3>3
  <2> QED
    BY <2>3, <2>4
<1> QED
  BY <1>1, WakeIInvHolds, PTL

-----------------------------------------------------------------------------
(* Followups: the inductive invariant *)

Drain == [kind : {"none", "item", "summary", "batch", "everything"},
          carries : SUBSET Messages, count : Nat]
QueueObject == [items : Seq(Messages), dropped : SUBSET Messages, mode : Modes \cup {"followup"},
                cap : Caps \cup {1}, drop : DropPolicies \cup {"summarize"},
                drain : {"off", "debounce", "checked", "running"}, individual : BOOLEAN,
                run : Drain]
Statuses == {"new", "turn", "enqueuing", "queued", "duplicate", "refused", "dropped",
             "cleared", "ran"}
TakenIn == {"queued", "dropped", "cleared", "ran"}

\* What follows is said of plain values: the objects Q, the entry k of the map, what
\* became of the messages, the clears so far, and whether an item made room for another.

Calm(cl, over) == cl = 0 /\ ~over

\* A run belongs to a drain that is running.
RunsMarked(Q) ==
  \A q \in Queues : IF Q[q].drain = "running" THEN Q[q].run.kind # "none" ELSE Q[q].run = NoRun

\* Only a clear leaves a drain with an object the map does not hold.
DrainsAreOfMap(Q, k, cl) == cl = 0 => \A q \in Queues : Q[q].drain # "off" => q = k

SummariesAreDrops(Q, over) == ~over => \A q \in Queues : Q[q].dropped = {}

\* RunningStaysQueued, and the queue is as long as what the run will shift out.
HeldWhileRunning(Q, cl, over) ==
  Calm(cl, over) => \A q \in Queues : Q[q].drain = "running" =>
    /\ Q[q].run.count <= Len(Q[q].items)
    /\ Q[q].run.carries = ToSet(SubSeq(Q[q].items, 1, Q[q].run.count))

\* A queued message is in the queue of the map.
HeldWhileQueued(Q, k, status, cl, over) ==
  Calm(cl, over) =>
    \A m \in Messages : status[m] = "queued" => k \in Queues /\ m \in ToSet(Q[k].items)

\* An item is one queue's, once, and is still to be run.
ItemsAreQueued(Q, status) ==
  /\ \A q \in Queues : \A i \in 1..Len(Q[q].items) : status[Q[q].items[i]] = "queued"
  /\ \A q \in Queues : \A m \in Q[q].dropped \cup Q[q].run.carries : status[m] \in TakenIn
ItemsAreOnce(Q) ==
  \A p, q \in Queues : \A i \in 1..Len(Q[p].items), j \in 1..Len(Q[q].items) :
    Q[p].items[i] = Q[q].items[j] => p = q /\ i = j
ItemsAreOfOneQueue(Q) ==
  \A p, q \in Queues : \A i \in 1..Len(Q[q].items) :
    /\ Q[q].items[i] \notin Q[p].dropped
    /\ p # q => Q[q].items[i] \notin Q[p].run.carries

\* The items a run carries are the first of its queue, no more than it will shift out.
CarriesTheFirst(Q) ==
  \A q \in Queues : \A i \in 1..Len(Q[q].items) : Q[q].items[i] \in Q[q].run.carries =>
    /\ i <= Q[q].run.count
    /\ \A j \in 1..Len(Q[q].items) : j < i => Q[q].items[j] \in Q[q].run.carries

Sound(Q, k, status, cl, over) ==
  /\ Q \in [Queues -> QueueObject] /\ k \in Queues \cup {None}
  /\ RunsMarked(Q)
  /\ DrainsAreOfMap(Q, k, cl)
  /\ SummariesAreDrops(Q, over)
  /\ HeldWhileRunning(Q, cl, over)
  /\ HeldWhileQueued(Q, k, status, cl, over)
  /\ ItemsAreQueued(Q, status)
  /\ ItemsAreOnce(Q)
  /\ ItemsAreOfOneQueue(Q)
  /\ CarriesTheFirst(Q)

\* Objects that nothing refers to have been reset.
Forgotten(Q, k) == \A q \in Queues : q # k /\ Q[q].drain = "off" => Q[q] = NewQueue

FollowupIInv ==
  /\ msg \in [Messages -> Statuses]
  /\ callback \in BOOLEAN /\ overflowed \in BOOLEAN
  /\ failures \in 0..MaxFailures /\ clears \in 0..MaxClears
  /\ Sound(followups, current, msg, clears, overflowed)
  /\ Forgotten(followups, current)
  /\ NoIdleQueue

LEMMA FollowupBounds ==
  /\ MaxQueues \in Nat /\ MaxFailures \in Nat /\ MaxClears \in Nat
  /\ None \notin Queues /\ \A c \in Caps \cup {1} : c \in Nat
<1>1. MaxQueues \in Nat /\ MaxFailures \in Nat /\ MaxClears \in Nat
  BY FollowupAssumption
<1>2. \A c \in Caps \cup {1} : c \in Nat
  <2>1. \A c \in Caps : c \in Nat
    BY FollowupAssumption
  <2> QED
    BY <2>1
<1> QED
  BY <1>1, <1>2 DEF Queues, None

LEMMA SetOfSeq ==
  ASSUME NEW S, NEW s \in Seq(S)
  PROVE  /\ Len(s) \in Nat /\ DOMAIN s = 1..Len(s)
         /\ ToSet(s) = {s[i] : i \in 1..Len(s)} /\ ToSet(s) \subseteq S
         /\ (s = <<>>) <=> (Len(s) = 0)
         /\ \A i \in 1..Len(s) : s[i] \in S
<1>1. Len(s) \in Nat /\ DOMAIN s = 1..Len(s)
  BY LenProperties
<1>2. \A i \in 1..Len(s) : s[i] \in S
  BY ElementOfSeq
<1>3. (s = <<>>) <=> (Len(s) = 0)
  BY EmptySeq
<1> QED
  BY <1>1, <1>2, <1>3 DEF ToSet

LEMMA NewQueueFacts ==
  /\ NewQueue \in QueueObject /\ NoRun \in Drain /\ Len(NewQueue.items) = 0
  /\ NewQueue.items = <<>> /\ NewQueue.dropped = {} /\ NewQueue.drain = "off"
  /\ NewQueue.run = NoRun /\ NoRun.carries = {} /\ NoRun.kind = "none" /\ NoRun.count = 0
<1>1. <<>> \in Seq(Messages) /\ Len(<<>>) = 0
  BY EmptySeq
<1>2. /\ NoRun \in Drain
      /\ NoRun.carries = {} /\ NoRun.kind = "none" /\ NoRun.count = 0
  BY DEF NoRun, Drain
<1>3. /\ NewQueue \in QueueObject
      /\ NewQueue.items = <<>> /\ NewQueue.dropped = {} /\ NewQueue.drain = "off"
      /\ NewQueue.run = NoRun
  <2> HIDE DEF NoRun
  <2> QED
    BY <1>1, <1>2 DEF NewQueue, QueueObject
<1> QED
  BY <1>1, <1>2, <1>3

LEMMA ObjectFacts ==
  ASSUME NEW o \in QueueObject
  PROVE  /\ o.items \in Seq(Messages) /\ o.dropped \in SUBSET Messages
         /\ o.mode \in Modes \cup {"followup"} /\ o.cap \in Caps \cup {1} /\ o.cap \in Nat
         /\ o.drop \in DropPolicies \cup {"summarize"}
         /\ o.drain \in {"off", "debounce", "checked", "running"} /\ o.individual \in BOOLEAN
         /\ o.run \in Drain /\ o.run.carries \in SUBSET Messages /\ o.run.count \in Nat
         /\ o.run.kind \in {"none", "item", "summary", "batch", "everything"}
<1>1. /\ o.items \in Seq(Messages) /\ o.dropped \in SUBSET Messages
      /\ o.mode \in Modes \cup {"followup"} /\ o.cap \in Caps \cup {1}
      /\ o.drop \in DropPolicies \cup {"summarize"}
      /\ o.drain \in {"off", "debounce", "checked", "running"} /\ o.individual \in BOOLEAN
      /\ o.run \in Drain
  BY DEF QueueObject
<1>2. o.cap \in Nat
  BY <1>1, FollowupBounds
<1> QED
  BY <1>1, <1>2 DEF Drain

LEMMA FollowupInitInv == FollowupInit => FollowupIInv
<1> SUFFICES ASSUME FollowupInit PROVE FollowupIInv
  OBVIOUS
<1>1. /\ msg = [m \in Messages |-> "new"] /\ followups = [q \in Queues |-> NewQueue]
      /\ current = None /\ callback = FALSE /\ failures = 0 /\ clears = 0 /\ overflowed = FALSE
  BY DEF FollowupInit
<1>2. Sound(followups, current, msg, clears, overflowed)
  <2>1. followups \in [Queues -> QueueObject] /\ current \in Queues \cup {None}
    BY <1>1, NewQueueFacts
  <2>2. \A q \in Queues : /\ followups[q].items = <<>> /\ Len(followups[q].items) = 0
                          /\ followups[q].dropped = {} /\ followups[q].drain = "off"
                          /\ followups[q].run = NoRun /\ followups[q].run.carries = {}
    BY <1>1, NewQueueFacts
  <2>3. \A m \in Messages : msg[m] # "queued"
    BY <1>1
  <2> QED
    BY <2>1, <2>2, <2>3 DEF Sound, RunsMarked, DrainsAreOfMap, SummariesAreDrops,
       HeldWhileRunning, HeldWhileQueued, ItemsAreQueued, ItemsAreOnce, ItemsAreOfOneQueue,
       CarriesTheFirst
<1>3. Forgotten(followups, current) /\ NoIdleQueue
  BY <1>1 DEF Forgotten, NoIdleQueue
<1>4. /\ msg \in [Messages -> Statuses] /\ failures \in 0..MaxFailures /\ clears \in 0..MaxClears
      /\ callback \in BOOLEAN /\ overflowed \in BOOLEAN
  <2>1. 0 \in 0..MaxFailures /\ 0 \in 0..MaxClears
    BY FollowupBounds
  <2> QED
    BY <1>1, <2>1 DEF Statuses
<1> QED
  BY <1>2, <1>3, <1>4 DEF FollowupIInv

-----------------------------------------------------------------------------
(* Followups: objects that change *)

\* What ScheduleFollowupDrain and Kick make of the objects Q: those that nothing refers
\* to are reset, and that of the map is drained if there is a callback.
Settled(F, Q, k, cb) ==
  /\ F \in [Queues -> QueueObject]
  /\ \A x \in Queues : x # k => F[x] = IF Q[x].drain = "off" THEN NewQueue ELSE Q[x]
  /\ k \in Queues =>
       /\ F[k].items = Q[k].items /\ F[k].dropped = Q[k].dropped /\ F[k].run = Q[k].run
       /\ F[k].cap = Q[k].cap
       /\ \/ F[k].drain = Q[k].drain
          \/ Q[k].drain = "off" /\ F[k].drain = "debounce"
       /\ cb => F[k].drain # "off"

LEMMA CollectedSettles ==
  ASSUME NEW Q \in [Queues -> QueueObject], NEW k \in Queues \cup {None}, NEW F,
         F = Collected(Q, k)
  PROVE  Settled(F, Q, k, FALSE)
<1>1. \A x \in Queues : F[x] = IF x # k /\ Q[x].drain = "off" THEN NewQueue ELSE Q[x]
  BY DEF Collected
<1>2. F \in [Queues -> QueueObject]
  <2>1. F = [x \in Queues |-> IF x # k /\ Q[x].drain = "off" THEN NewQueue ELSE Q[x]]
    BY DEF Collected
  <2>2. \A x \in Queues : (IF x # k /\ Q[x].drain = "off" THEN NewQueue ELSE Q[x]) \in QueueObject
    BY NewQueueFacts
  <2> QED
    BY <2>1, <2>2
<1> QED
  BY <1>1, <1>2 DEF Settled

LEMMA RunStartedFacts ==
  ASSUME NEW Q \in [Queues -> QueueObject], NEW k \in Queues \cup {None}, NEW R,
         R = RunStarted(Q, k)
  PROVE  /\ R \in [Queues -> QueueObject]
         /\ \A x \in Queues : x # k => R[x] = Q[x]
         /\ k \in Queues =>
              /\ R[k].items = Q[k].items /\ R[k].dropped = Q[k].dropped /\ R[k].run = Q[k].run
              /\ R[k].cap = Q[k].cap
              /\ R[k].drain = IF Q[k].drain = "off" THEN "debounce" ELSE Q[k].drain
<1>1. CASE k \in Queues /\ Q[k].drain = "off"
  <2> DEFINE o == [Q[k] EXCEPT !.drain = "debounce", !.individual = FALSE]
  <2>1. /\ o \in QueueObject
        /\ o.items = Q[k].items /\ o.dropped = Q[k].dropped /\ o.run = Q[k].run
        /\ o.cap = Q[k].cap /\ o.drain = "debounce"
    BY <1>1 DEF QueueObject
  <2>2. R = [Q EXCEPT ![k] = o]
    BY <1>1 DEF RunStarted
  <2> HIDE DEF o
  <2> QED
    BY <1>1, <2>1, <2>2
<1>2. CASE ~(k \in Queues /\ Q[k].drain = "off")
  BY <1>2 DEF RunStarted
<1> QED
  BY <1>1, <1>2

LEMMA ScheduleFacts2 ==
  ASSUME NEW Q \in [Queues -> QueueObject], NEW k \in Queues \cup {None},
         ScheduleFollowupDrain(Q, k), callback \in BOOLEAN
  PROVE  current' = k /\ callback' \in BOOLEAN /\ Settled(followups', Q, k, callback')
<1> DEFINE R == RunStarted(Q, k)
<1>1. /\ current' = k /\ followups' = Collected(R, k)
      /\ callback' = (callback \/ R # Q)
  BY DEF ScheduleFollowupDrain
<1>2. /\ R \in [Queues -> QueueObject]
      /\ \A x \in Queues : x # k => R[x] = Q[x]
      /\ k \in Queues =>
           /\ R[k].items = Q[k].items /\ R[k].dropped = Q[k].dropped /\ R[k].run = Q[k].run
           /\ R[k].cap = Q[k].cap
           /\ R[k].drain = IF Q[k].drain = "off" THEN "debounce" ELSE Q[k].drain
  BY RunStartedFacts
<1> HIDE DEF R
<1>3. Settled(followups', R, k, FALSE)
  BY <1>1, <1>2, CollectedSettles
<1>4. callback' \in BOOLEAN
  BY <1>1
<1>5. /\ followups' \in [Queues -> QueueObject]
      /\ \A x \in Queues : x # k => followups'[x] = IF Q[x].drain = "off" THEN NewQueue ELSE Q[x]
  BY <1>2, <1>3 DEF Settled
<1>6. ASSUME k \in Queues
      PROVE  /\ followups'[k].items = Q[k].items /\ followups'[k].dropped = Q[k].dropped
             /\ followups'[k].run = Q[k].run /\ followups'[k].cap = Q[k].cap
             /\ followups'[k].drain = IF Q[k].drain = "off" THEN "debounce" ELSE Q[k].drain
             /\ followups'[k].drain # "off"
  <2>1. R[k].drain # "off"
    BY <1>2, <1>6
  <2> QED
    BY <1>2, <1>3, <1>6, <2>1 DEF Settled
<1> QED
  BY <1>1, <1>4, <1>5, <1>6 DEF Settled

LEMMA KickFacts ==
  ASSUME NEW Q \in [Queues -> QueueObject], NEW k \in Queues, Kick(Q, k), callback \in BOOLEAN
  PROVE  current' = k /\ callback' \in BOOLEAN /\ Settled(followups', Q, k, callback')
<1>1. CASE callback
  BY <1>1, ScheduleFacts2 DEF Kick
<1>2. CASE ~callback
  <2>1. current' = k /\ followups' = Collected(Q, k) /\ callback' = FALSE
    BY <1>2 DEF Kick
  <2> QED
    BY <2>1, CollectedSettles
<1> QED
  BY <1>1, <1>2

\* What is sound stays so when the objects settle.
LEMMA SettledIsSound ==
  ASSUME NEW Q, NEW k, NEW status, NEW cl, NEW over, NEW F, NEW cb,
         Sound(Q, k, status, cl, over), Settled(F, Q, k, cb)
  PROVE  /\ Sound(F, k, status, cl, over) /\ Forgotten(F, k)
         /\ k \in Queues /\ cb => F[k].drain # "off"
<1>1. /\ Q \in [Queues -> QueueObject] /\ k \in Queues \cup {None}
      /\ RunsMarked(Q) /\ DrainsAreOfMap(Q, k, cl) /\ SummariesAreDrops(Q, over)
      /\ HeldWhileRunning(Q, cl, over) /\ HeldWhileQueued(Q, k, status, cl, over)
      /\ ItemsAreQueued(Q, status) /\ ItemsAreOnce(Q) /\ ItemsAreOfOneQueue(Q)
      /\ CarriesTheFirst(Q)
  BY DEF Sound
\* Each object is reset, or has the contents it had.
<1>2. \A x \in Queues :
        \/ /\ x # k /\ F[x] = NewQueue /\ F[x].items = <<>> /\ Len(F[x].items) = 0
           /\ F[x].dropped = {} /\ F[x].drain = "off" /\ F[x].run = NoRun /\ F[x].run.carries = {}
        \/ /\ F[x].items = Q[x].items /\ F[x].dropped = Q[x].dropped /\ F[x].run = Q[x].run
           /\ \/ F[x].drain = Q[x].drain
              \/ x = k /\ Q[x].drain = "off" /\ F[x].drain = "debounce"
           /\ x # k => F[x].drain # "off"
  BY <1>1, NewQueueFacts DEF Settled
<1>3. F \in [Queues -> QueueObject]
  BY DEF Settled
<1>4. RunsMarked(F)
  BY <1>1, <1>2 DEF RunsMarked
<1>5. DrainsAreOfMap(F, k, cl)
  BY <1>1, <1>2 DEF DrainsAreOfMap
<1>6. SummariesAreDrops(F, over)
  BY <1>1, <1>2 DEF SummariesAreDrops
<1>7. HeldWhileRunning(F, cl, over)
  BY <1>1, <1>2 DEF HeldWhileRunning
<1>8. HeldWhileQueued(F, k, status, cl, over)
  BY <1>1, <1>2 DEF HeldWhileQueued
<1>9. ItemsAreQueued(F, status)
  BY <1>1, <1>2 DEF ItemsAreQueued
<1>10. ItemsAreOnce(F)
  BY <1>1, <1>2 DEF ItemsAreOnce
<1>11. ItemsAreOfOneQueue(F)
  BY <1>1, <1>2 DEF ItemsAreOfOneQueue
<1>12. CarriesTheFirst(F)
  BY <1>1, <1>2 DEF CarriesTheFirst
<1>13. Forgotten(F, k)
  BY <1>2 DEF Forgotten
<1>14. k \in Queues /\ cb => F[k].drain # "off"
  BY DEF Settled
<1> QED
  BY <1>1, <1>3, <1>4, <1>5, <1>6, <1>7, <1>8, <1>9, <1>10, <1>11, <1>12, <1>13, <1>14 DEF Sound

\* An object changes its settings, or goes from one stage of its drain to another, and
\* keeps its contents.
LEMMA StageIsSound ==
  ASSUME NEW Q, NEW k, NEW status, NEW cl, NEW over, Sound(Q, k, status, cl, over),
         NEW q \in Queues, NEW o \in QueueObject,
         o.items = Q[q].items, o.dropped = Q[q].dropped,
         o.drain # "off" => Q[q].drain # "off",
         IF o.drain = "running" THEN o.run.kind # "none" ELSE o.run = NoRun,
         o.run.carries \subseteq ToSet(o.items) \cup o.dropped \cup Q[q].run.carries,
         o.drain = "running" /\ Calm(cl, over) =>
           /\ o.run.count <= Len(o.items)
           /\ o.run.carries = ToSet(SubSeq(o.items, 1, o.run.count)),
         \A i \in 1..Len(o.items) : o.items[i] \in o.run.carries =>
           /\ i <= o.run.count
           /\ \A j \in 1..Len(o.items) : j < i => o.items[j] \in o.run.carries
  PROVE  Sound([Q EXCEPT ![q] = o], k, status, cl, over)
<1> DEFINE F == [Q EXCEPT ![q] = o]
<1>1. /\ Q \in [Queues -> QueueObject] /\ k \in Queues \cup {None}
      /\ RunsMarked(Q) /\ DrainsAreOfMap(Q, k, cl) /\ SummariesAreDrops(Q, over)
      /\ HeldWhileRunning(Q, cl, over) /\ HeldWhileQueued(Q, k, status, cl, over)
      /\ ItemsAreQueued(Q, status) /\ ItemsAreOnce(Q) /\ ItemsAreOfOneQueue(Q)
      /\ CarriesTheFirst(Q)
  BY DEF Sound
<1>2. /\ F \in [Queues -> QueueObject] /\ F[q] = o
      /\ \A x \in Queues : x # q => F[x] = Q[x]
      /\ \A x \in Queues : F[x].items = Q[x].items /\ F[x].dropped = Q[x].dropped
  BY <1>1
<1> HIDE DEF F
<1>3. RunsMarked(F)
  BY <1>1, <1>2 DEF RunsMarked
<1>4. DrainsAreOfMap(F, k, cl)
  BY <1>1, <1>2 DEF DrainsAreOfMap
<1>5. SummariesAreDrops(F, over)
  BY <1>1, <1>2 DEF SummariesAreDrops
<1>6. HeldWhileRunning(F, cl, over)
  BY <1>1, <1>2 DEF HeldWhileRunning
<1>7. HeldWhileQueued(F, k, status, cl, over)
  BY <1>1, <1>2 DEF HeldWhileQueued
<1>8. ToSet(o.items) = {o.items[i] : i \in 1..Len(o.items)}
  BY ObjectFacts, SetOfSeq
<1>9. ItemsAreQueued(F, status)
  <2>1. \A m \in o.run.carries : status[m] \in TakenIn
    BY <1>1, <1>8 DEF ItemsAreQueued, TakenIn
  <2> QED
    BY <1>1, <1>2, <2>1 DEF ItemsAreQueued
<1>10. ItemsAreOnce(F)
  BY <1>1, <1>2 DEF ItemsAreOnce
<1>11. ItemsAreOfOneQueue(F)
  <2>1. ASSUME NEW x \in Queues, x # q, NEW i \in 1..Len(Q[x].items)
        PROVE  Q[x].items[i] \notin o.run.carries
    BY <1>1, <1>8, <2>1 DEF ItemsAreOnce, ItemsAreOfOneQueue
  <2> QED
    BY <1>1, <1>2, <2>1 DEF ItemsAreOfOneQueue
<1>12. CarriesTheFirst(F)
  BY <1>1, <1>2 DEF CarriesTheFirst
<1>13. Sound(F, k, status, cl, over)
  BY <1>1, <1>2, <1>3, <1>4, <1>5, <1>6, <1>7, <1>9, <1>10, <1>11, <1>12 DEF Sound
<1> QED
  BY <1>13 DEF F

\* The first elements of a sequence, and what is left without them.
LEMMA TakeFacts ==
  ASSUME NEW S, NEW s \in Seq(S), NEW n \in 0..Len(s)
  PROVE  ToSet(SubSeq(s, 1, n)) = {s[i] : i \in 1..n}
<1>1. Len(s) \in Nat /\ \A i \in 1..Len(s) : s[i] \in S
  BY SetOfSeq
<1>2. \A i \in 1..n : s[i] \in S
  BY <1>1
<1>3. /\ SubSeq(s, 1, n) \in Seq(S)
      /\ Len(SubSeq(s, 1, n)) = IF 1 <= n THEN n - 1 + 1 ELSE 0
      /\ \A i \in 1..(n - 1 + 1) : SubSeq(s, 1, n)[i] = s[1 + i - 1]
  BY <1>1, <1>2, SubSeqProperties
<1> DEFINE r == SubSeq(s, 1, n)
<1>4. r \in Seq(S) /\ Len(r) = n /\ \A i \in 1..n : r[i] = s[i]
  BY <1>1, <1>3
<1> HIDE DEF r
<1>5. ToSet(r) = {r[i] : i \in 1..Len(r)}
  BY ONLY <1>4, SetOfSeq
<1>6. ToSet(r) = {s[i] : i \in 1..n}
  BY <1>4, <1>5
<1> QED
  BY <1>6 DEF r

LEMMA DropFacts ==
  ASSUME NEW S, NEW s \in Seq(S), NEW n \in Nat, NEW r, r = SubSeq(s, n + 1, Len(s))
  PROVE  /\ r \in Seq(S) /\ Len(r) = IF n <= Len(s) THEN Len(s) - n ELSE 0
         /\ \A i \in 1..Len(r) : n + i \in 1..Len(s) /\ r[i] = s[n + i]
<1>1. Len(s) \in Nat /\ \A i \in 1..Len(s) : s[i] \in S
  BY SetOfSeq
<1>2. \A i \in (n + 1)..Len(s) : s[i] \in S
  BY <1>1
<1>3. /\ r \in Seq(S)
      /\ Len(r) = IF n + 1 <= Len(s) THEN Len(s) - (n + 1) + 1 ELSE 0
      /\ \A i \in 1..(Len(s) - (n + 1) + 1) : r[i] = s[(n + 1) + i - 1]
  BY <1>1, <1>2, SubSeqProperties
<1>4. Len(r) = IF n <= Len(s) THEN Len(s) - n ELSE 0
  BY <1>1, <1>3
<1>5. ASSUME NEW i \in 1..Len(r)
      PROVE  n + i \in 1..Len(s) /\ r[i] = s[n + i]
  <2>1. n + 1 <= Len(s) /\ i \in 1..(Len(s) - (n + 1) + 1) /\ (n + 1) + i - 1 = n + i
    BY <1>1, <1>4
  <2> QED
    BY <1>1, <1>3, <2>1
<1> QED
  BY <1>3, <1>4, <1>5

\* Messages that are not taken in yet may come to anything but a queue.
LEMMA StatusIsSound ==
  ASSUME NEW Q, NEW k, NEW status, NEW cl, NEW over, Sound(Q, k, status, cl, over),
         NEW now,
         \A m \in Messages : status[m] \in TakenIn => now[m] = status[m],
         \A m \in Messages : now[m] = "queued" => status[m] = "queued"
  PROVE  Sound(Q, k, now, cl, over)
<1>1. /\ Q \in [Queues -> QueueObject] /\ HeldWhileQueued(Q, k, status, cl, over)
      /\ ItemsAreQueued(Q, status)
  BY DEF Sound
<1>2. HeldWhileQueued(Q, k, now, cl, over)
  BY <1>1 DEF HeldWhileQueued
<1>3. ItemsAreQueued(Q, now)
  <2>1. \A q \in Queues : /\ \A i \in 1..Len(Q[q].items) : Q[q].items[i] \in Messages
                          /\ Q[q].dropped \subseteq Messages /\ Q[q].run.carries \subseteq Messages
    BY <1>1, ObjectFacts, SetOfSeq
  <2> QED
    BY <1>1, <2>1 DEF ItemsAreQueued, TakenIn
<1> QED
  BY <1>2, <1>3 DEF Sound

\* What the map forgets has no work left.
LEMMA MapForgets ==
  ASSUME NEW Q, NEW k, NEW status, NEW cl, NEW over, Sound(Q, k, status, cl, over),
         NEW q \in Queues, Q[q].drain = "off", ~HasWork(Q[q]), cl = 0 => q = k
  PROVE  Sound(Q, None, status, cl, over)
<1>1. Q \in [Queues -> QueueObject] /\ DrainsAreOfMap(Q, k, cl) /\ HeldWhileQueued(Q, k, status, cl, over)
  BY DEF Sound
<1>2. DrainsAreOfMap(Q, None, cl)
  BY <1>1 DEF DrainsAreOfMap
<1>3. HeldWhileQueued(Q, None, status, cl, over)
  <2>1. Q[q].items = <<>> /\ Q[q].items \in Seq(Messages)
    BY <1>1, ObjectFacts DEF HasWork
  <2>2. ToSet(Q[q].items) = {}
    <3> DEFINE s == Q[q].items
    <3>1. s \in Seq(Messages) /\ s = <<>>
      BY <2>1
    <3> HIDE DEF s
    <3>2. Len(s) = 0 /\ ToSet(s) = {s[i] : i \in 1..Len(s)}
      <4>1. Len(s) = 0
        BY <3>1, EmptySeq
      <4>2. s \in Seq(Messages)
        BY <3>1
      <4>3. ToSet(s) = {s[i] : i \in 1..Len(s)}
        BY ONLY <4>2, SetOfSeq
      <4> QED
        BY <4>1, <4>3
    <3>3. ToSet(s) = {}
      BY <3>2
    <3> QED
      BY <3>3 DEF s
  <2> QED
    BY <1>1, <2>2 DEF HeldWhileQueued, Calm
<1> QED
  BY <1>2, <1>3 DEF Sound

\* The objects, the map and the callback keep their part of the invariant.
Kept(status, cl, over) ==
  /\ callback' \in BOOLEAN
  /\ Sound(followups', current', status, cl, over)
  /\ Forgotten(followups', current')
  /\ NoIdleQueue'

LEMMA SettledIsKept ==
  ASSUME NEW Q, NEW k, NEW status, NEW cl, NEW over, Sound(Q, k, status, cl, over),
         current' = k, callback' \in BOOLEAN, Settled(followups', Q, k, callback')
  PROVE  Kept(status, cl, over)
<1>1. /\ Sound(followups', k, status, cl, over) /\ Forgotten(followups', k)
      /\ k \in Queues /\ callback' => followups'[k].drain # "off"
  BY SettledIsSound
<1>2. k \in Queues \cup {None}
  BY DEF Sound
<1>3. NoIdleQueue'
  BY <1>1, <1>2 DEF NoIdleQueue, HasWork
<1> QED
  BY <1>1, <1>3 DEF Kept

\* The object o at stage d of a drain, between two runs.
Between(o, d) == [o EXCEPT !.drain = d, !.run = NoRun]
Replaced(q, o) == [followups EXCEPT ![q] = o]

\* A drain ends or goes on, its object being sound without it.
LEMMA FinishIsKept ==
  ASSUME NEW q \in Queues, NEW object \in QueueObject, NEW status, NEW cl, NEW over,
         callback \in BOOLEAN, cl = 0 => q = current, Finish(q, object),
         Sound(Replaced(q, Between(object, "off")), current, status, cl, over),
         followups \in [Queues -> QueueObject]
  PROVE  Kept(status, cl, over)
<1> DEFINE o == Between(object, "off")
           Q == Replaced(q, o)
<1>1. /\ o \in QueueObject /\ o.drain = "off" /\ o.run = NoRun
      /\ o.items = object.items /\ o.dropped = object.dropped
  BY NewQueueFacts DEF QueueObject, Between
<1>2. Q[q] = o /\ Q \in [Queues -> QueueObject]
  BY <1>1 DEF Replaced
<1>3. IF HasWork(object) THEN ScheduleFollowupDrain(Q, current) ELSE ScheduleFollowupDrain(Q, None)
  BY DEF Finish, Between, Replaced
<1>4. Sound(Q, current, status, cl, over)
  OBVIOUS
<1>5. HasWork(o) <=> HasWork(object)
  BY <1>1 DEF HasWork
<1> HIDE DEF o, Q
<1>6. current \in Queues \cup {None}
  BY <1>4 DEF Sound
<1>7. CASE HasWork(object)
  <2>1. current' = current /\ callback' \in BOOLEAN /\ Settled(followups', Q, current, callback')
    BY <1>2, <1>3, <1>6, <1>7, ScheduleFacts2
  <2> QED
    BY <1>4, <2>1, SettledIsKept
<1>8. CASE ~HasWork(object)
  <2>1. current' = None /\ callback' \in BOOLEAN /\ Settled(followups', Q, None, callback')
    BY <1>2, <1>3, <1>8, ScheduleFacts2
  <2>2. Sound(Q, None, status, cl, over)
    BY <1>1, <1>2, <1>4, <1>5, <1>8, MapForgets
  <2> QED
    BY <2>1, <2>2, SettledIsKept
<1> QED
  BY <1>7, <1>8

LEMMA ContinueIsKept ==
  ASSUME NEW q \in Queues, NEW object \in QueueObject, NEW status, NEW cl, NEW over,
         callback \in BOOLEAN, cl = 0 => q = current, Continue(q, object),
         \A d \in {"off", "debounce"} :
           Sound(Replaced(q, Between(object, d)), current, status, cl, over),
         followups \in [Queues -> QueueObject], Forgotten(followups, current), NoIdleQueue
  PROVE  Kept(status, cl, over)
<1>1. CASE HasWork(object)
  <2> DEFINE o == Between(object, "debounce")
  <2>1. o.drain = "debounce"
    BY DEF QueueObject, Between
  <2>2. /\ followups' = Replaced(q, o) /\ current' = current /\ callback' = callback
        /\ Sound(followups', current', status, cl, over)
    BY <1>1 DEF Continue, Between, Replaced
  <2> HIDE DEF o
  <2>3. followups'[q] = o /\ \A x \in Queues : x # q => followups'[x] = followups[x]
    BY <2>2 DEF Replaced
  <2>4. Forgotten(followups', current')
    BY <2>1, <2>2, <2>3 DEF Forgotten
  <2>5. NoIdleQueue'
    <3>1. current \in Queues \cup {None}
      BY <2>2 DEF Sound
    <3>2. CASE current = q
      BY <2>1, <2>2, <2>3, <3>2 DEF NoIdleQueue
    <3>3. CASE current # q
      BY <2>2, <2>3, <3>1, <3>3 DEF NoIdleQueue, HasWork
    <3> QED
      BY <3>2, <3>3
  <2> QED
    BY <2>2, <2>4, <2>5 DEF Kept
<1>2. CASE ~HasWork(object)
  <2>1. Finish(q, object)
    BY <1>2 DEF Continue
  <2>2. Sound(Replaced(q, Between(object, "off")), current, status, cl, over)
    OBVIOUS
  <2> QED
    BY <2>1, <2>2, FinishIsKept
<1> QED
  BY <1>1, <1>2

-----------------------------------------------------------------------------
(* Followups: the steps of a drain *)

LEMMA FollowupFacts ==
  ASSUME FollowupIInv
  PROVE  /\ followups \in [Queues -> QueueObject] /\ current \in Queues \cup {None}
         /\ callback \in BOOLEAN /\ overflowed \in BOOLEAN
         /\ Sound(followups, current, msg, clears, overflowed)
         /\ RunsMarked(followups) /\ DrainsAreOfMap(followups, current, clears)
         /\ SummariesAreDrops(followups, overflowed)
         /\ HeldWhileRunning(followups, clears, overflowed)
         /\ HeldWhileQueued(followups, current, msg, clears, overflowed)
         /\ ItemsAreQueued(followups, msg) /\ ItemsAreOnce(followups)
         /\ ItemsAreOfOneQueue(followups) /\ CarriesTheFirst(followups)
         /\ Forgotten(followups, current) /\ NoIdleQueue
BY DEF FollowupIInv, Sound

\* A step that keeps the objects, the map and the callback in order keeps the invariant.
LEMMA KeptSuffices ==
  ASSUME FollowupIInv, Kept(msg', clears', overflowed'), msg' \in [Messages -> Statuses],
         overflowed' \in BOOLEAN, failures' \in 0..MaxFailures, clears' \in 0..MaxClears
  PROVE  FollowupIInv'
<1>1. /\ callback' \in BOOLEAN
      /\ Sound(followups', current', msg', clears', overflowed')
      /\ Forgotten(followups', current') /\ NoIdleQueue'
  BY DEF Kept
<1>2. Sound(followups, current, msg, clears, overflowed)'
  BY <1>1 DEF Sound, RunsMarked, DrainsAreOfMap, SummariesAreDrops, HeldWhileRunning,
     HeldWhileQueued, ItemsAreQueued, ItemsAreOnce, ItemsAreOfOneQueue, CarriesTheFirst
<1>3. Forgotten(followups, current)'
  BY <1>1 DEF Forgotten
<1> QED
  BY <1>1, <1>2, <1>3 DEF FollowupIInv

\* A run begins: it carries the head, the batch or the summary.
LEMMA RunIsKept ==
  ASSUME FollowupIInv, NEW q \in Queues, followups[q].drain # "off",
         NEW kind \in {"item", "summary", "batch", "everything"},
         NEW carries \in SUBSET Messages, NEW count \in Nat, NEW individual \in BOOLEAN,
         Run(q, kind, carries, count, individual),
         carries \subseteq ToSet(followups[q].items) \cup followups[q].dropped,
         Calm(clears, overflowed) =>
           /\ count <= Len(followups[q].items)
           /\ carries = ToSet(SubSeq(followups[q].items, 1, count)),
         \A i \in 1..Len(followups[q].items) : followups[q].items[i] \in carries =>
           /\ i <= count
           /\ \A j \in 1..Len(followups[q].items) : j < i => followups[q].items[j] \in carries
  PROVE  Kept(msg, clears, overflowed)
<1> DEFINE r == [kind |-> kind, carries |-> carries, count |-> count]
           o == [followups[q] EXCEPT !.drain = "running", !.individual = individual, !.run = r]
<1>1. r \in Drain /\ r.kind = kind /\ r.carries = carries /\ r.count = count
  BY DEF Drain
<1> HIDE DEF r
<1>2. /\ o \in QueueObject /\ o.drain = "running" /\ o.run = r
      /\ o.items = followups[q].items /\ o.dropped = followups[q].dropped
  BY <1>1, FollowupFacts DEF QueueObject
<1>3. /\ followups' = [followups EXCEPT ![q] = o]
      /\ current' = current /\ callback' = callback
  BY DEF Run, r
<1> HIDE DEF o
<1>4. Sound([followups EXCEPT ![q] = o], current, msg, clears, overflowed)
  <2>1. Sound(followups, current, msg, clears, overflowed) /\ o.run.kind # "none"
    BY <1>1, <1>2, FollowupFacts
  <2>2. /\ o.run.carries = carries /\ o.run.count = count
    BY <1>1, <1>2
  <2> QED
    BY <1>2, <2>1, <2>2, StageIsSound
<1>5. followups'[q] = o /\ \A x \in Queues : x # q => followups'[x] = followups[x]
  BY <1>3, FollowupFacts
<1>6. Forgotten(followups', current')
  BY <1>2, <1>3, <1>5, FollowupFacts DEF Forgotten
<1>7. NoIdleQueue'
  <2>1. CASE current = q
    BY <1>2, <1>3, <1>5, <2>1 DEF NoIdleQueue
  <2>2. CASE current # q
    BY <1>3, <1>5, <2>2, FollowupFacts DEF NoIdleQueue, HasWork
  <2> QED
    BY <2>1, <2>2
<1> QED
  BY <1>3, <1>4, <1>6, <1>7, FollowupFacts DEF Kept

\* A drain ends with what it found.
LEMMA LeaveIsKept ==
  ASSUME FollowupIInv, NEW q \in Queues, followups[q].drain # "off",
         Finish(q, followups[q])
  PROVE  Kept(msg, clears, overflowed)
<1> DEFINE o == Between(followups[q], "off")
<1>1. /\ o \in QueueObject /\ o.drain = "off" /\ o.run = NoRun
      /\ o.items = followups[q].items /\ o.dropped = followups[q].dropped
      /\ followups[q] \in QueueObject
  BY FollowupFacts, NewQueueFacts DEF QueueObject, Between
<1> HIDE DEF o
<1>2. Sound([followups EXCEPT ![q] = o], current, msg, clears, overflowed)
  <2>1. Sound(followups, current, msg, clears, overflowed) /\ o.run.carries = {}
    BY <1>1, FollowupFacts, NewQueueFacts
  <2> QED
    BY <1>1, <2>1, StageIsSound
<1>3. clears = 0 => q = current
  BY FollowupFacts DEF DrainsAreOfMap
<1>4. Sound(Replaced(q, Between(followups[q], "off")), current, msg, clears, overflowed)
  BY <1>2 DEF o, Replaced
<1>5. callback \in BOOLEAN /\ followups \in [Queues -> QueueObject]
  BY FollowupFacts
<1> QED
  BY <1>1, <1>3, <1>4, <1>5, FinishIsKept

LEMMA RunHeadIsKept ==
  ASSUME FollowupIInv, NEW q \in Queues, followups[q].drain # "off",
         NEW individual \in BOOLEAN, RunHead(q, individual)
  PROVE  Kept(msg, clears, overflowed)
<1>1. CASE followups[q].items = <<>>
  BY <1>1, LeaveIsKept DEF RunHead
<1>2. CASE followups[q].items # <<>>
  <2> DEFINE s == followups[q].items
             carries == {Head(s)}
  <2>1. s \in Seq(Messages) /\ Run(q, "item", carries, 1, individual) /\ s # <<>>
    BY <1>2, FollowupFacts, ObjectFacts DEF RunHead
  <2>2. \A i \in 1..Len(s) : s[i] = s[1] => i = 1
    <3>1. \A i \in 1..Len(s) : 1 \in 1..Len(s)
      BY <2>1, SetOfSeq
    <3> QED
      BY <3>1, FollowupFacts DEF ItemsAreOnce
  <2> HIDE DEF s
  <2>3. Len(s) \in Nat /\ Len(s) # 0 /\ 1 \in 1..Len(s)
    BY <2>1, SetOfSeq
  <2>4. Head(s) = s[1] /\ s[1] \in Messages
    BY <2>1, <2>3, SetOfSeq, HeadTailProperties
  <2>5. ToSet(SubSeq(s, 1, 1)) = {s[1]}
    <3>1. ToSet(SubSeq(s, 1, 1)) = {s[i] : i \in 1..1}
      BY <2>1, <2>3, TakeFacts
    <3>2. {s[i] : i \in 1..1} = {s[1]}
      OBVIOUS
    <3> QED
      BY <3>1, <3>2
  <2>6. carries \in SUBSET Messages /\ carries = {s[1]} /\ carries \subseteq ToSet(s)
    BY <2>1, <2>3, <2>4, SetOfSeq
  <2>7. \A i \in 1..Len(s) : s[i] \in carries =>
          i <= 1 /\ \A j \in 1..Len(s) : j < i => s[j] \in carries
    BY <2>2, <2>3, <2>6
  <2> HIDE DEF carries
  <2>8. 1 <= Len(s)
    BY <2>3
  <2> QED
    BY <2>1, <2>5, <2>6, <2>7, <2>8, RunIsKept DEF s
<1> QED
  BY <1>1, <1>2

LEMMA DebounceEndsStep ==
  ASSUME FollowupIInv, NEW q \in Queues, DebounceEnds(q) PROVE FollowupIInv'
<1>1. /\ followups[q].drain = "debounce" /\ followups[q].drain # "off"
      /\ UNCHANGED <<msg, failures, clears, overflowed>>
  BY DEF DebounceEnds
<1>2. /\ followups[q] \in QueueObject /\ followups[q].individual \in BOOLEAN
      /\ followups[q].dropped \in SUBSET Messages /\ followups[q].items \in Seq(Messages)
  BY FollowupFacts, ObjectFacts
<1>3. ASSUME NEW individual \in BOOLEAN, RunHead(q, individual)
      PROVE  Kept(msg, clears, overflowed)
  BY <1>1, <1>3, RunHeadIsKept
<1>4. ASSUME followups' = [followups EXCEPT ![q].drain = "checked"],
             UNCHANGED <<current, callback>>
      PROVE  Kept(msg, clears, overflowed)
  <2> DEFINE o == [followups[q] EXCEPT !.drain = "checked"]
  <2>1. /\ o \in QueueObject /\ o.drain = "checked" /\ o.run = followups[q].run
        /\ o.items = followups[q].items /\ o.dropped = followups[q].dropped
    BY <1>2 DEF QueueObject
  <2>2. followups[q].run = NoRun /\ NoRun.carries = {}
    BY <1>1, FollowupFacts, NewQueueFacts DEF RunsMarked
  <2>3. followups' = [followups EXCEPT ![q] = o]
    BY <1>4
  <2> HIDE DEF o
  <2>4. Sound([followups EXCEPT ![q] = o], current, msg, clears, overflowed)
    <3>1. Sound(followups, current, msg, clears, overflowed)
      BY FollowupFacts
    <3> QED
      BY <1>1, <2>1, <2>2, <3>1, StageIsSound
  <2>5. followups'[q] = o /\ \A x \in Queues : x # q => followups'[x] = followups[x]
    BY <2>3, FollowupFacts
  <2>6. Forgotten(followups', current')
    BY <1>4, <2>1, <2>5, FollowupFacts DEF Forgotten
  <2>7. NoIdleQueue'
    <3>1. CASE current = q
      BY <1>4, <2>1, <2>5, <3>1 DEF NoIdleQueue
    <3>2. CASE current # q
      BY <1>4, <2>5, <3>2, FollowupFacts DEF NoIdleQueue, HasWork
    <3> QED
      BY <3>1, <3>2
  <2> QED
    BY <1>4, <2>3, <2>4, <2>6, <2>7, FollowupFacts DEF Kept
<1>5. ASSUME HasSummary(followups[q]),
             IF followups[q].items = <<>>
             THEN Finish(q, followups[q])
             ELSE Run(q, "summary", followups[q].dropped, 1, followups[q].individual)
      PROVE  Kept(msg, clears, overflowed)
  <2>1. CASE followups[q].items = <<>>
    BY <1>1, <1>5, <2>1, LeaveIsKept
  <2>2. CASE followups[q].items # <<>>
    <3>1. Run(q, "summary", followups[q].dropped, 1, followups[q].individual)
      BY <1>5, <2>2
    <3>2. ~Calm(clears, overflowed)
      BY <1>5, FollowupFacts DEF HasSummary, SummariesAreDrops, Calm
    <3>3. \A i \in 1..Len(followups[q].items) : followups[q].items[i] \notin followups[q].dropped
      BY FollowupFacts DEF ItemsAreOfOneQueue
    <3> QED
      BY <1>1, <1>2, <3>1, <3>2, <3>3, RunIsKept
  <2> QED
    BY <2>1, <2>2
<1>6. Kept(msg, clears, overflowed)
  BY <1>2, <1>3, <1>4, <1>5 DEF DebounceEnds
<1>7. Kept(msg', clears', overflowed')
  BY <1>1, <1>6
<1> QED
  BY <1>1, <1>7, KeptSuffices DEF FollowupIInv

LEMMA CollectStep ==
  ASSUME FollowupIInv, NEW q \in Queues, Collect(q) PROVE FollowupIInv'
<1>1. /\ followups[q].drain = "checked" /\ followups[q].drain # "off"
      /\ UNCHANGED <<msg, failures, clears, overflowed>>
  BY DEF Collect
<1> DEFINE s == followups[q].items
           summary == IF HasSummary(followups[q]) THEN followups[q].dropped ELSE {}
           kind == IF summary = {} THEN "batch" ELSE "everything"
           carries == ToSet(s) \cup summary
<1>2. /\ s \in Seq(Messages) /\ followups[q].individual \in BOOLEAN
      /\ summary \in SUBSET Messages /\ summary \subseteq followups[q].dropped
      /\ kind \in {"item", "summary", "batch", "everything"}
  BY FollowupFacts, ObjectFacts
<1>3. ASSUME HasWork(followups[q]) PROVE Kept(msg, clears, overflowed)
  <2>1. Run(q, kind, carries, Len(s), followups[q].individual)
    BY <1>3 DEF Collect
  <2>2. Calm(clears, overflowed) => summary = {}
    BY <1>2, FollowupFacts DEF SummariesAreDrops, Calm
  <2> HIDE DEF s, summary, kind
  <2>3. /\ Len(s) \in Nat /\ Len(s) \in 0..Len(s) /\ Len(s) <= Len(s)
        /\ ToSet(s) \subseteq Messages /\ ToSet(s) = {s[i] : i \in 1..Len(s)}
    <3>1. Len(s) \in Nat /\ ToSet(s) \subseteq Messages /\ ToSet(s) = {s[i] : i \in 1..Len(s)}
      BY <1>2, SetOfSeq
    <3> QED
      BY <3>1
  <2>4. ToSet(SubSeq(s, 1, Len(s))) = ToSet(s)
    BY <1>2, <2>3, TakeFacts
  <2>5. carries \in SUBSET Messages /\ carries \subseteq ToSet(s) \cup followups[q].dropped
    BY <1>2, <2>3
  <2>6. \A i \in 1..Len(s) : i <= Len(s) /\ \A j \in 1..Len(s) : s[j] \in carries
    BY <2>3
  <2>7. Calm(clears, overflowed) =>
          Len(s) <= Len(s) /\ carries = ToSet(SubSeq(s, 1, Len(s)))
    BY <2>2, <2>3, <2>4
  <2> HIDE DEF carries
  <2> QED
    BY <1>1, <1>2, <2>1, <2>3, <2>5, <2>6, <2>7, RunIsKept DEF s
<1>4. ASSUME ~HasWork(followups[q]) PROVE Kept(msg, clears, overflowed)
  <2>1. Finish(q, followups[q])
    BY <1>4 DEF Collect
  <2> QED
    BY <1>1, <2>1, LeaveIsKept
<1>5. Kept(msg', clears', overflowed')
  BY <1>1, <1>3, <1>4
<1> QED
  BY <1>1, <1>5, KeptSuffices DEF FollowupIInv

LEMMA RunFailsStep ==
  ASSUME FollowupIInv, NEW q \in Queues, RunFails(q) PROVE FollowupIInv'
<1>1. /\ followups[q].drain # "off" /\ Finish(q, followups[q])
      /\ failures < MaxFailures /\ failures' = failures + 1
      /\ UNCHANGED <<msg, clears, overflowed>>
  BY DEF RunFails
<1>2. Kept(msg, clears, overflowed)
  BY <1>1, LeaveIsKept
<1>3. failures' \in 0..MaxFailures
  BY <1>1, FollowupBounds DEF FollowupIInv
<1>4. Kept(msg', clears', overflowed')
  BY <1>1, <1>2
<1> QED
  BY <1>1, <1>3, <1>4, KeptSuffices DEF FollowupIInv

\* The messages of a run have been run, and no others; the queue is left without those
\* of its items that the run carried.
LEMMA RanIsSound ==
  ASSUME FollowupIInv, NEW q \in Queues, followups[q].drain = "running",
         NEW d \in {"off", "debounce"}, NEW status,
         status = [m \in Messages |->
                     IF m \in followups[q].run.carries THEN "ran" ELSE msg[m]]
  PROVE  Sound(Replaced(q, Between(AfterRun(followups[q]), d)), current, status, clears, overflowed)
<1> DEFINE s == followups[q].items
           n == followups[q].run.count
           C == followups[q].run.carries
           r == SubSeq(s, n + 1, Len(s))
           o == Between(AfterRun(followups[q]), d)
           F == Replaced(q, o)
<1>1. /\ followups \in [Queues -> QueueObject] /\ followups[q] \in QueueObject
      /\ s \in Seq(Messages) /\ n \in Nat /\ C \in SUBSET Messages
  BY FollowupFacts, ObjectFacts
<1>2. /\ r \in Seq(Messages) /\ Len(r) = IF n <= Len(s) THEN Len(s) - n ELSE 0
      /\ \A i \in 1..Len(r) : n + i \in 1..Len(s) /\ r[i] = s[n + i]
  <2> HIDE DEF s, n
  <2>1. s \in Seq(Messages) /\ n \in Nat /\ r = SubSeq(s, n + 1, Len(s))
    BY <1>1
  <2> HIDE DEF r
  <2> QED
    BY ONLY <2>1, DropFacts
<1>3. /\ o \in QueueObject /\ o.items = r /\ o.dropped \subseteq followups[q].dropped
      /\ o.drain = d /\ o.run = NoRun /\ o.run.carries = {}
  <2> HIDE DEF r
  <2>1. r = SubSeq(followups[q].items, followups[q].run.count + 1, Len(followups[q].items))
    BY DEF r
  <2>2. /\ AfterRun(followups[q]) \in QueueObject /\ AfterRun(followups[q]).items = r
        /\ AfterRun(followups[q]).dropped \subseteq followups[q].dropped
    BY <1>1, <1>2, <2>1 DEF AfterRun, QueueObject
  <2> HIDE DEF s, n, C
  <2>3. /\ o \in QueueObject /\ o.items = AfterRun(followups[q]).items
        /\ o.dropped = AfterRun(followups[q]).dropped /\ o.drain = d /\ o.run = NoRun
    BY <2>2, NewQueueFacts DEF Between, QueueObject
  <2> QED
    BY <2>2, <2>3, NewQueueFacts
<1>4. /\ F \in [Queues -> QueueObject] /\ F[q] = o
      /\ \A x \in Queues : x # q => F[x] = followups[x]
  <2> HIDE DEF o
  <2> QED
    BY <1>1, <1>3 DEF Replaced
<1>5. /\ Len(s) \in Nat /\ ToSet(s) = {s[i] : i \in 1..Len(s)}
      /\ Len(r) \in Nat /\ ToSet(r) = {r[i] : i \in 1..Len(r)}
  <2> HIDE DEF r, s
  <2> QED
    BY <1>1, <1>2, SetOfSeq
<1> HIDE DEF F, o, r
\* Where an item of F is in followups.
<1>6. ASSUME NEW x \in Queues, NEW i \in 1..Len(F[x].items)
      PROVE  \E j \in 1..Len(followups[x].items) :
               /\ F[x].items[i] = followups[x].items[j]
               /\ j = IF x = q THEN n + i ELSE i
  <2>1. CASE x = q
    <3>1. i \in 1..Len(r) /\ F[x].items[i] = r[i]
      BY <1>3, <1>4, <1>6, <2>1
    <3> QED
      BY <1>2, <2>1, <3>1
  <2>2. CASE x # q
    BY <1>4, <1>6, <2>2
  <2> QED
    BY <2>1, <2>2
<1>7. \A x \in Queues : F[x].dropped \subseteq followups[x].dropped
                        /\ F[x].run.carries \subseteq followups[x].run.carries
  BY <1>3, <1>4
<1>8. \A x \in Queues : \A i \in 1..Len(F[x].items) :
        F[x].items[i] \notin C /\ msg[F[x].items[i]] = "queued" /\ F[x].items[i] \in Messages
  <2> TAKE x \in Queues
  <2> TAKE i \in 1..Len(F[x].items)
  <2>1. PICK j \in 1..Len(followups[x].items) :
          F[x].items[i] = followups[x].items[j] /\ j = IF x = q THEN n + i ELSE i
    BY <1>6
  <2>2. msg[followups[x].items[j]] = "queued" /\ followups[x].items[j] \in Messages
    BY <1>1, FollowupFacts, ObjectFacts, SetOfSeq DEF ItemsAreQueued
  <2>3. CASE x = q
    <3>1. ~(j <= n)
      BY <1>1, <1>5, <2>1, <2>3
    <3> QED
      BY <2>1, <2>2, <2>3, <3>1, FollowupFacts DEF CarriesTheFirst
  <2>4. CASE x # q
    BY <2>1, <2>2, <2>4, FollowupFacts DEF ItemsAreOfOneQueue
  <2> QED
    BY <2>3, <2>4
<1>9. RunsMarked(F)
  BY <1>3, <1>4, FollowupFacts DEF RunsMarked
<1>10. DrainsAreOfMap(F, current, clears)
  BY <1>3, <1>4, FollowupFacts DEF DrainsAreOfMap
<1>11. SummariesAreDrops(F, overflowed)
  BY <1>7, FollowupFacts DEF SummariesAreDrops
<1>12. HeldWhileRunning(F, clears, overflowed)
  <2>1. F[q].drain # "running"
    BY <1>3, <1>4
  <2> QED
    BY <1>4, <2>1, FollowupFacts DEF HeldWhileRunning
<1>13. HeldWhileQueued(F, current, status, clears, overflowed)
  <2> SUFFICES ASSUME Calm(clears, overflowed), NEW m \in Messages, status[m] = "queued"
               PROVE  current \in Queues /\ m \in ToSet(F[current].items)
    BY DEF HeldWhileQueued
  <2>1. msg[m] = "queued" /\ m \notin C
    BY <1>1
  <2>2. current = q /\ m \in ToSet(s)
    BY <2>1, FollowupFacts DEF HeldWhileQueued, DrainsAreOfMap, Calm
  <2>3. n <= Len(s) /\ C = ToSet(SubSeq(s, 1, n))
    BY FollowupFacts DEF HeldWhileRunning
  <2> HIDE DEF s, n, C
  <2>4. C = {s[i] : i \in 1..n}
    <3>1. n \in 0..Len(s)
      BY <1>1, <1>5, <2>3
    <3> QED
      BY <1>1, <2>3, <3>1, TakeFacts
  <2>5. PICK i \in 1..Len(s) : m = s[i]
    BY <1>5, <2>2
  <2>6. ~(i <= n)
    BY <2>1, <2>4, <2>5
  <2>7. i - n \in 1..Len(r) /\ n + (i - n) = i
    BY <1>1, <1>2, <1>5, <2>3, <2>6
  <2>8. r[i - n] = m
    BY <1>2, <2>5, <2>7
  <2> QED
    BY <1>3, <1>4, <1>5, <2>2, <2>7, <2>8
<1>14. ItemsAreQueued(F, status)
  <2>1. \A x \in Queues : \A i \in 1..Len(F[x].items) : status[F[x].items[i]] = "queued"
    BY <1>8
  <2>2. ASSUME NEW x \in Queues, NEW m \in F[x].dropped \cup F[x].run.carries
        PROVE  status[m] \in TakenIn
    <3>1. m \in followups[x].dropped \cup followups[x].run.carries
      BY <1>7
    <3>2. m \in Messages
      BY <1>1, <3>1, ObjectFacts
    <3>3. msg[m] \in TakenIn
      BY <3>1, FollowupFacts DEF ItemsAreQueued
    <3> QED
      BY <3>2, <3>3 DEF TakenIn
  <2> QED
    BY <2>1, <2>2 DEF ItemsAreQueued
<1>15. ItemsAreOnce(F)
  <2> SUFFICES ASSUME NEW x \in Queues, NEW y \in Queues, NEW i \in 1..Len(F[x].items),
                      NEW j \in 1..Len(F[y].items), F[x].items[i] = F[y].items[j]
               PROVE  x = y /\ i = j
    BY DEF ItemsAreOnce
  <2>1. PICK a \in 1..Len(followups[x].items) :
          F[x].items[i] = followups[x].items[a] /\ a = IF x = q THEN n + i ELSE i
    BY <1>6
  <2>2. PICK b \in 1..Len(followups[y].items) :
          F[y].items[j] = followups[y].items[b] /\ b = IF y = q THEN n + j ELSE j
    BY <1>6
  <2>3. x = y /\ a = b
    <3>1. ItemsAreOnce(followups) /\ followups[x].items[a] = followups[y].items[b]
      BY <2>1, <2>2, FollowupFacts
    <3> QED
      BY <3>1 DEF ItemsAreOnce
  <2>4. i \in Nat /\ j \in Nat
    <3>1. Len(F[x].items) \in Nat /\ Len(F[y].items) \in Nat
      BY <1>4, ObjectFacts, SetOfSeq
    <3> QED
      BY <3>1
  <2> QED
    BY <1>1, <2>1, <2>2, <2>3, <2>4
<1>16. ItemsAreOfOneQueue(F)
  <2> SUFFICES ASSUME NEW p \in Queues, NEW x \in Queues, NEW i \in 1..Len(F[x].items)
               PROVE  /\ F[x].items[i] \notin F[p].dropped
                      /\ p # x => F[x].items[i] \notin F[p].run.carries
    BY DEF ItemsAreOfOneQueue
  <2>1. PICK a \in 1..Len(followups[x].items) : F[x].items[i] = followups[x].items[a]
    BY <1>6
  <2> QED
    BY <1>7, <2>1, FollowupFacts DEF ItemsAreOfOneQueue
<1>17. CarriesTheFirst(F)
  BY <1>3, <1>4, FollowupFacts DEF CarriesTheFirst
<1>18. Sound(F, current, status, clears, overflowed)
  BY <1>4, <1>9, <1>10, <1>11, <1>12, <1>13, <1>14, <1>15, <1>16, <1>17, FollowupFacts DEF Sound
<1> QED
  BY <1>18 DEF F, o

LEMMA RunEndsStep ==
  ASSUME FollowupIInv, NEW q \in Queues, RunEnds(q) PROVE FollowupIInv'
<1> DEFINE object == AfterRun(followups[q])
<1>1. /\ followups[q].drain = "running"
      /\ msg' = [m \in Messages |-> IF m \in followups[q].run.carries THEN "ran" ELSE msg[m]]
      /\ Continue(q, object)
      /\ UNCHANGED <<failures, clears, overflowed>>
  BY DEF RunEnds
<1>2. object \in QueueObject
  <2> DEFINE r == SubSeq(followups[q].items, followups[q].run.count + 1, Len(followups[q].items))
  <2>1. followups[q] \in QueueObject /\ followups[q].items \in Seq(Messages)
        /\ followups[q].run.count \in Nat
    BY FollowupFacts, ObjectFacts
  <2>2. r \in Seq(Messages)
    BY <2>1, DropFacts
  <2>3. object = [followups[q] EXCEPT !.items = r, !.dropped = object.dropped]
        /\ object.dropped \in {{}, followups[q].dropped}
    BY <2>1 DEF AfterRun, QueueObject
  <2> HIDE DEF r, object
  <2> QED
    BY <2>1, <2>2, <2>3 DEF QueueObject
<1>3. clears = 0 => q = current
  BY <1>1, FollowupFacts DEF DrainsAreOfMap
<1>4. \A d \in {"off", "debounce"} :
        Sound(Replaced(q, Between(object, d)), current, msg', clears, overflowed)
  BY <1>1, RanIsSound
<1> HIDE DEF object
<1>5. Kept(msg', clears, overflowed)
  <2>1. /\ callback \in BOOLEAN /\ followups \in [Queues -> QueueObject]
        /\ Forgotten(followups, current) /\ NoIdleQueue
    BY FollowupFacts
  <2> QED
    BY <1>1, <1>2, <1>3, <1>4, <2>1, ContinueIsKept
<1>6. msg' \in [Messages -> Statuses]
  BY <1>1 DEF FollowupIInv, Statuses
<1>7. Kept(msg', clears', overflowed')
  BY <1>1, <1>5
<1> QED
  BY <1>1, <1>6, <1>7, KeptSuffices DEF FollowupIInv

-----------------------------------------------------------------------------
(* Followups: messages, turns and clears *)

LEMMA ArriveStep ==
  ASSUME FollowupIInv, NEW m \in Messages, Arrive(m) PROVE FollowupIInv'
<1>1. /\ msg[m] = "new"
      /\ msg' = [msg EXCEPT ![m] = "enqueuing"] \/ msg' = [msg EXCEPT ![m] = "turn"]
      /\ UNCHANGED <<followups, current, callback, failures, clears, overflowed>>
  BY DEF Arrive
<1>2. /\ msg' \in [Messages -> Statuses] /\ msg'[m] \in {"enqueuing", "turn"}
      /\ \A x \in Messages : x # m => msg'[x] = msg[x]
  BY <1>1 DEF FollowupIInv, Statuses
<1>3. Sound(followups, current, msg', clears, overflowed)
  <2>1. Sound(followups, current, msg, clears, overflowed)
    BY FollowupFacts
  <2>2. /\ \A x \in Messages : msg[x] \in TakenIn => msg'[x] = msg[x]
        /\ \A x \in Messages : msg'[x] = "queued" => msg[x] = "queued"
    BY <1>1, <1>2 DEF TakenIn
  <2> QED
    BY <2>1, <2>2, StatusIsSound
<1>4. Forgotten(followups', current') /\ NoIdleQueue' /\ callback' \in BOOLEAN
  BY <1>1, FollowupFacts DEF Forgotten, NoIdleQueue, HasWork
<1>5. Kept(msg', clears', overflowed')
  BY <1>1, <1>3, <1>4 DEF Kept
<1> QED
  BY <1>1, <1>2, <1>5, KeptSuffices DEF FollowupIInv

LEMMA TurnEndsStep ==
  ASSUME FollowupIInv, NEW m \in Messages, TurnEnds(m) PROVE FollowupIInv'
<1>1. /\ msg[m] = "turn" /\ msg' = [msg EXCEPT ![m] = "ran"]
      /\ ScheduleFollowupDrain(followups, current)
      /\ UNCHANGED <<failures, clears, overflowed>>
  BY DEF TurnEnds
<1>2. /\ msg' \in [Messages -> Statuses] /\ msg'[m] = "ran"
      /\ \A x \in Messages : x # m => msg'[x] = msg[x]
  BY <1>1 DEF FollowupIInv, Statuses
<1>3. Sound(followups, current, msg', clears, overflowed)
  <2>1. Sound(followups, current, msg, clears, overflowed)
    BY FollowupFacts
  <2>2. /\ \A x \in Messages : msg[x] \in TakenIn => msg'[x] = msg[x]
        /\ \A x \in Messages : msg'[x] = "queued" => msg[x] = "queued"
    BY <1>1, <1>2 DEF TakenIn
  <2> QED
    BY <2>1, <2>2, StatusIsSound
<1>4. current' = current /\ callback' \in BOOLEAN /\ Settled(followups', followups, current, callback')
  BY <1>1, FollowupFacts, ScheduleFacts2
<1>5. Kept(msg', clears, overflowed)
  BY <1>3, <1>4, SettledIsKept
<1>6. Kept(msg', clears', overflowed')
  BY <1>1, <1>5
<1> QED
  BY <1>1, <1>2, <1>6, KeptSuffices DEF FollowupIInv

\* The queue a message goes to: that of the map, or one that nothing refers to.
LEMMA TargetFacts2 ==
  ASSUME FollowupIInv, current # None \/ \E q \in Queues : followups[q].drain = "off"
  PROVE  /\ Target \in Queues
         /\ current # None => Target = current
         /\ current = None => followups[Target] = NewQueue
         /\ Sound(followups, Target, msg, clears, overflowed)
<1>1. current \in Queues \cup {None}
  BY FollowupFacts
<1>2. CASE current # None
  BY <1>1, <1>2, FollowupFacts DEF Target
<1>3. CASE current = None
  <2>1. Target \in Queues /\ followups[Target].drain = "off"
    BY <1>3 DEF Target
  <2>2. followups[Target] = NewQueue
    BY <1>3, <2>1, FollowupFacts, FollowupBounds DEF Forgotten
  <2>3. DrainsAreOfMap(followups, Target, clears)
    BY <1>3, FollowupFacts, FollowupBounds DEF DrainsAreOfMap
  <2>4. HeldWhileQueued(followups, Target, msg, clears, overflowed)
    BY <1>3, FollowupFacts, FollowupBounds DEF HeldWhileQueued
  <2> QED
    BY <1>3, <2>1, <2>2, <2>3, <2>4, FollowupFacts DEF Sound
<1> QED
  BY <1>2, <1>3

\* Q becomes F when m is pushed to its object k, which becomes o, after n items, those of
\* `out`, have made room for it.
Pushed(Q, k, status, over, m, n, out, items, o, F, now, over2) ==
  /\ k \in Queues /\ m \in Messages /\ status[m] = "enqueuing"
  /\ n \in 0..Len(Q[k].items) /\ over \in BOOLEAN /\ (~over2 => ~over /\ n = 0)
  /\ out = ToSet(SubSeq(Q[k].items, 1, n))
  /\ items = Append(SubSeq(Q[k].items, n + 1, Len(Q[k].items)), m)
  /\ o \in QueueObject /\ o.items = items /\ o.dropped \subseteq Q[k].dropped \cup out
  /\ o.drain = Q[k].drain /\ o.run = Q[k].run
  /\ F \in [Queues -> QueueObject] /\ F[k] = o
  /\ \A x \in Queues : x # k => F[x] = Q[x]
  /\ \A x \in Messages : now[x] = IF x = m THEN "queued"
                                  ELSE IF x \in out THEN now[x] ELSE status[x]
  /\ \A x \in out : now[x] \in {"queued", "dropped"}

LEMMA PushIsSound ==
  ASSUME NEW Q, NEW k, NEW status, NEW cl, NEW over, Sound(Q, k, status, cl, over),
         NEW m, NEW n, NEW out, NEW items, NEW o, NEW F, NEW now, NEW over2,
         Pushed(Q, k, status, over, m, n, out, items, o, F, now, over2)
  PROVE  Sound(F, k, now, cl, over2)
<1>0. /\ k \in Queues /\ m \in Messages /\ status[m] = "enqueuing"
      /\ n \in 0..Len(Q[k].items) /\ over \in BOOLEAN /\ (~over2 => ~over /\ n = 0)
      /\ out = ToSet(SubSeq(Q[k].items, 1, n))
      /\ items = Append(SubSeq(Q[k].items, n + 1, Len(Q[k].items)), m)
      /\ o \in QueueObject /\ o.items = items /\ o.dropped \subseteq Q[k].dropped \cup out
      /\ o.drain = Q[k].drain /\ o.run = Q[k].run
      /\ F \in [Queues -> QueueObject] /\ F[k] = o
      /\ \A x \in Queues : x # k => F[x] = Q[x]
      /\ \A x \in Messages : now[x] = IF x = m THEN "queued"
                                      ELSE IF x \in out THEN now[x] ELSE status[x]
      /\ \A x \in out : now[x] \in {"queued", "dropped"}
  BY DEF Pushed
<1> USE <1>0
<1> DEFINE s == Q[k].items
           r == SubSeq(s, n + 1, Len(s))
<1>1. /\ Q \in [Queues -> QueueObject] /\ Q[k] \in QueueObject /\ s \in Seq(Messages)
      /\ RunsMarked(Q) /\ DrainsAreOfMap(Q, k, cl) /\ SummariesAreDrops(Q, over)
      /\ HeldWhileRunning(Q, cl, over) /\ HeldWhileQueued(Q, k, status, cl, over)
      /\ ItemsAreQueued(Q, status) /\ ItemsAreOnce(Q) /\ ItemsAreOfOneQueue(Q)
      /\ CarriesTheFirst(Q)
  BY ObjectFacts DEF Sound
<1>2. /\ Len(s) \in Nat /\ n \in Nat /\ n <= Len(s)
      /\ ToSet(s) = {s[i] : i \in 1..Len(s)} /\ \A i \in 1..Len(s) : s[i] \in Messages
  <2>1. s \in Seq(Messages) /\ n \in 0..Len(s)
    BY <1>1
  <2> HIDE DEF s
  <2>2. Len(s) \in Nat /\ ToSet(s) = {s[i] : i \in 1..Len(s)} /\ \A i \in 1..Len(s) : s[i] \in Messages
    BY ONLY <2>1, SetOfSeq
  <2> QED
    BY <2>1, <2>2
<1>3. /\ r \in Seq(Messages) /\ Len(r) = Len(s) - n
      /\ \A i \in 1..Len(r) : n + i \in 1..Len(s) /\ r[i] = s[n + i]
  <2>1. s \in Seq(Messages) /\ r = SubSeq(s, n + 1, Len(s))
    BY <1>1
  <2> HIDE DEF s, r
  <2>2. /\ r \in Seq(Messages) /\ Len(r) = IF n <= Len(s) THEN Len(s) - n ELSE 0
        /\ \A i \in 1..Len(r) : n + i \in 1..Len(s) /\ r[i] = s[n + i]
    BY ONLY <1>2, <2>1, DropFacts
  <2> QED
    BY <1>2, <2>2
<1>4. out = {s[i] : i \in 1..n}
  <2>1. s \in Seq(Messages) /\ out = ToSet(SubSeq(s, 1, n))
    BY <1>1
  <2> HIDE DEF s
  <2>2. n \in 0..Len(s)
    BY <1>2
  <2> QED
    BY ONLY <2>1, <2>2, TakeFacts
<1>5. /\ items \in Seq(Messages) /\ Len(items) = (Len(s) - n) + 1
      /\ \A i \in 1..(Len(s) - n) : n + i \in 1..Len(s) /\ items[i] = s[n + i]
      /\ items[(Len(s) - n) + 1] = m
  <2>1. items = Append(r, m) /\ r \in Seq(Messages) /\ m \in Messages
    BY <1>3
  <2> HIDE DEF r, s
  <2>2. /\ items \in Seq(Messages) /\ Len(items) = Len(r) + 1
        /\ \A i \in 1..Len(r) : items[i] = r[i]
        /\ items[Len(r) + 1] = m
    BY ONLY <2>1, AppendProperties
  <2> QED
    BY <1>3, <2>2
<1>6. /\ F \in [Queues -> QueueObject] /\ F[k] = o
      /\ \A x \in Queues : x # k => F[x] = Q[x]
      /\ \A x \in Queues : F[x].drain = Q[x].drain /\ F[x].run = Q[x].run
  BY <1>1
<1> HIDE DEF s, r
\* The message is new to the objects.
<1>7. \A x \in Queues : /\ \A i \in 1..Len(Q[x].items) : Q[x].items[i] # m
                        /\ m \notin Q[x].dropped /\ m \notin Q[x].run.carries
  BY <1>1 DEF ItemsAreQueued, TakenIn
\* Where an item of F is in Q, unless it is the new one.
<1>8. ASSUME NEW x \in Queues, NEW i \in 1..Len(F[x].items)
      PROVE  /\ i \in Nat
             /\ \/ x = k /\ F[x].items[i] = m /\ i = (Len(s) - n) + 1
                \/ \E j \in 1..Len(Q[x].items) :
                     F[x].items[i] = Q[x].items[j] /\ j = IF x = k THEN n + i ELSE i
  <2>1. CASE x = k
    <3>1. i \in 1..Len(items) /\ F[x].items = items /\ Q[x].items = s
      BY <1>6, <1>8, <2>1 DEF s
    <3>2. i \in Nat /\ (i \in 1..(Len(s) - n) \/ i = (Len(s) - n) + 1)
      <4>1. Len(items) = (Len(s) - n) + 1 /\ Len(s) \in Nat /\ n \in Nat /\ n <= Len(s)
        BY <1>2, <1>5
      <4> QED
        BY ONLY <3>1, <4>1
    <3>3. CASE i = (Len(s) - n) + 1
      BY <1>5, <2>1, <3>1, <3>2, <3>3
    <3>4. CASE i \in 1..(Len(s) - n)
      <4>1. n + i \in 1..Len(s) /\ items[i] = s[n + i]
        BY <1>5, <3>4
      <4> QED
        BY <2>1, <3>1, <3>2, <4>1
    <3> QED
      BY <3>2, <3>3, <3>4
  <2>2. CASE x # k
    <3>1. F[x] = Q[x]
      BY <1>6, <2>2
    <3>2. i \in 1..Len(Q[x].items) /\ F[x].items[i] = Q[x].items[i]
      BY <1>8, <3>1
    <3>3. i \in Nat
      BY <3>2
    <3> QED
      BY <2>2, <3>2, <3>3
  <2> QED
    BY <2>1, <2>2
\* The items that made room are not among those that stay, nor elsewhere.
<1>9. ASSUME NEW x \in Queues, NEW i \in 1..Len(F[x].items)
      PROVE  F[x].items[i] \notin out /\ F[x].items[i] \in Messages
  <2>1. CASE F[x].items[i] = m
    <3>1. \A a \in 1..n : s[a] # m
      <4>1. \A a \in 1..n : a \in 1..Len(s)
        BY <1>2
      <4> QED
        BY <1>7, <4>1 DEF s
    <3> QED
      BY <1>4, <2>1, <3>1
  <2>2. CASE \E j \in 1..Len(Q[x].items) :
               F[x].items[i] = Q[x].items[j] /\ j = IF x = k THEN n + i ELSE i
    <3>1. PICK j \in 1..Len(Q[x].items) :
            F[x].items[i] = Q[x].items[j] /\ j = IF x = k THEN n + i ELSE i
      BY <2>2
    <3>2. Q[x].items[j] \in Messages
      BY <1>1, ObjectFacts, SetOfSeq
    <3>3. ASSUME NEW a \in 1..n, Q[x].items[j] = s[a] PROVE FALSE
      <4>1. a \in 1..Len(Q[k].items) /\ Q[x].items[j] = Q[k].items[a]
        BY <1>2, <3>3 DEF s
      <4>2. x = k /\ j = a
        BY <1>1, <4>1 DEF ItemsAreOnce
      <4> QED
        BY <1>2, <1>8, <3>1, <4>2
    <3> QED
      BY <1>4, <3>1, <3>2, <3>3
  <2> QED
    BY <1>8, <2>1, <2>2
<1>10. RunsMarked(F)
  BY <1>1, <1>6 DEF RunsMarked
<1>11. DrainsAreOfMap(F, k, cl)
  BY <1>1, <1>6 DEF DrainsAreOfMap
<1>12. ~over2 => ~over /\ n = 0 /\ out = {}
  BY <1>2, <1>4
<1>13. SummariesAreDrops(F, over2)
  <2> SUFFICES ASSUME ~over2, NEW x \in Queues PROVE F[x].dropped = {}
    BY DEF SummariesAreDrops
  <2>1. Q[x].dropped = {} /\ out = {}
    BY <1>1, <1>12 DEF SummariesAreDrops
  <2> QED
    BY <1>6, <2>1
<1>14. HeldWhileRunning(F, cl, over2)
  <2> SUFFICES ASSUME Calm(cl, over2), NEW x \in Queues, F[x].drain = "running"
               PROVE  /\ F[x].run.count <= Len(F[x].items)
                      /\ F[x].run.carries = ToSet(SubSeq(F[x].items, 1, F[x].run.count))
    BY DEF HeldWhileRunning
  <2>1. n = 0 /\ Calm(cl, over)
    BY <1>12 DEF Calm
  <2>2. /\ Q[x].run.count <= Len(Q[x].items)
        /\ Q[x].run.carries = ToSet(SubSeq(Q[x].items, 1, Q[x].run.count))
    BY <1>1, <1>6, <2>1 DEF HeldWhileRunning
  <2>3. CASE x = k
    <3> DEFINE c == Q[k].run.count
    <3>1. c \in 0..Len(s) /\ c \in 0..Len(items) /\ c <= Len(items)
      <4>1. c \in Nat /\ c <= Len(s)
        BY <1>1, <2>2, <2>3, ObjectFacts DEF s
      <4>2. Len(items) = Len(s) + 1
        BY <1>2, <1>5, <2>1
      <4> HIDE DEF c
      <4> QED
        BY <1>2, <4>1, <4>2
    <3>2. Q[k].run.carries = ToSet(SubSeq(s, 1, c)) /\ s \in Seq(Messages)
      BY <1>1, <2>2, <2>3 DEF s
    <3> HIDE DEF c
    <3>3. ToSet(SubSeq(s, 1, c)) = {s[i] : i \in 1..c}
      BY ONLY <3>1, <3>2, TakeFacts
    <3>4. ToSet(SubSeq(items, 1, c)) = {items[i] : i \in 1..c}
      BY ONLY <1>5, <3>1, TakeFacts
    <3>5. \A i \in 1..c : items[i] = s[i]
      <4>1. \A i \in 1..c : i \in 1..(Len(s) - n) /\ n + i = i
        BY <1>2, <2>1, <3>1
      <4> QED
        BY ONLY <1>5, <4>1
    <3>6. F[k].run.count = c /\ F[k].run.carries = Q[k].run.carries /\ F[k].items = items
      BY <1>6 DEF c
    <3>7. {s[i] : i \in 1..c} = {items[i] : i \in 1..c}
      BY ONLY <3>5, Zenon
    <3> QED
      BY <2>3, <3>1, <3>2, <3>3, <3>4, <3>6, <3>7
  <2>4. CASE x # k
    BY <1>6, <2>2, <2>4
  <2> QED
    BY <2>3, <2>4
<1>15. HeldWhileQueued(F, k, now, cl, over2)
  <2> SUFFICES ASSUME Calm(cl, over2), NEW x \in Messages, now[x] = "queued"
               PROVE  x \in ToSet(F[k].items)
    BY DEF HeldWhileQueued
  <2>1. n = 0 /\ Calm(cl, over) /\ out = {}
    BY <1>12 DEF Calm
  <2>2. ToSet(items) = {items[i] : i \in 1..Len(items)} /\ F[k].items = items
    <3>1. items \in Seq(Messages)
      BY <1>5
    <3>2. ToSet(items) = {items[i] : i \in 1..Len(items)}
      BY ONLY <3>1, SetOfSeq
    <3> QED
      BY <1>6, <3>2
  <2>3. CASE x = m
    <3>1. (Len(s) - n) + 1 \in 1..Len(items)
      BY <1>2, <1>5
    <3> QED
      BY <1>5, <2>2, <2>3, <3>1
  <2>4. CASE x # m
    <3>1. status[x] = "queued"
      BY <2>1, <2>4
    <3>2. x \in ToSet(s)
      BY <1>1, <2>1, <3>1 DEF HeldWhileQueued, s
    <3>3. PICK i \in 1..Len(s) : x = s[i]
      BY <1>2, <3>2
    <3>4. i \in 1..(Len(s) - n) /\ n + i = i /\ i \in 1..Len(items)
      BY <1>2, <1>5, <2>1
    <3>5. items[i] = x
      BY <1>5, <3>3, <3>4
    <3> QED
      BY <2>2, <3>4, <3>5
  <2> QED
    BY <2>3, <2>4
<1>16. ItemsAreQueued(F, now)
  <2>1. ASSUME NEW x \in Queues, NEW i \in 1..Len(F[x].items)
        PROVE  now[F[x].items[i]] = "queued"
    <3>1. CASE F[x].items[i] = m
      BY <3>1
    <3>2. CASE F[x].items[i] # m
      <4>1. PICK j \in 1..Len(Q[x].items) : F[x].items[i] = Q[x].items[j]
        BY <1>8, <3>2
      <4>2. status[F[x].items[i]] = "queued"
        BY <1>1, <4>1 DEF ItemsAreQueued
      <4> QED
        BY <1>9, <3>2, <4>2
    <3> QED
      BY <3>1, <3>2
  <2>2. ASSUME NEW x \in Queues, NEW y \in F[x].dropped \cup F[x].run.carries
        PROVE  now[y] \in TakenIn
    <3>1. y \in Messages
      BY <1>6, ObjectFacts
    <3>2. y \in out \/ y \in Q[x].dropped \cup Q[x].run.carries
      BY <1>6
    <3>3. CASE y \in out
      BY <3>3 DEF TakenIn
    <3>4. CASE y \notin out /\ y \in Q[x].dropped \cup Q[x].run.carries
      <4>1. y # m
        BY <1>7, <3>4
      <4>2. status[y] \in TakenIn
        BY <1>1, <3>4 DEF ItemsAreQueued
      <4>3. now[y] = status[y]
        BY <1>0, <3>1, <3>4, <4>1
      <4> QED
        BY ONLY <4>2, <4>3
    <3> QED
      BY <3>2, <3>3, <3>4
  <2> QED
    BY <2>1, <2>2 DEF ItemsAreQueued
<1>17. ItemsAreOnce(F)
  <2> SUFFICES ASSUME NEW x \in Queues, NEW y \in Queues, NEW i \in 1..Len(F[x].items),
                      NEW j \in 1..Len(F[y].items), F[x].items[i] = F[y].items[j]
               PROVE  x = y /\ i = j
    BY DEF ItemsAreOnce
  <2>0. ASSUME NEW z \in Queues, NEW a \in 1..Len(F[z].items), F[z].items[a] = m
        PROVE  z = k /\ a = (Len(s) - n) + 1
    <3>1. \A b \in 1..Len(Q[z].items) : F[z].items[a] # Q[z].items[b]
      BY <1>7, <2>0
    <3> QED
      BY ONLY <1>8, <2>0, <3>1
  <2>1. CASE F[x].items[i] = m
    <3>1. x = k /\ i = (Len(s) - n) + 1
      BY <2>0, <2>1
    <3>2. F[y].items[j] = m
      BY <2>1
    <3>3. y = k /\ j = (Len(s) - n) + 1
      BY <2>0, <3>2
    <3> QED
      BY <3>1, <3>3
  <2>2. CASE F[x].items[i] # m
    <3>1. PICK a \in 1..Len(Q[x].items) :
            F[x].items[i] = Q[x].items[a] /\ a = IF x = k THEN n + i ELSE i
      BY <1>8, <2>2
    <3>2. PICK b \in 1..Len(Q[y].items) :
            F[y].items[j] = Q[y].items[b] /\ b = IF y = k THEN n + j ELSE j
      BY <1>8, <2>2
    <3>3. x = y /\ a = b
      <4>1. /\ x \in Queues /\ y \in Queues
            /\ a \in 1..Len(Q[x].items) /\ b \in 1..Len(Q[y].items)
            /\ Q[x].items[a] = Q[y].items[b]
        BY <3>1, <3>2
      <4>2. ItemsAreOnce(Q)
        BY <1>1
      <4> QED
        BY ONLY <4>1, <4>2 DEF ItemsAreOnce
    <3>4. i \in Nat /\ j \in Nat
      BY <1>8
    <3> QED
      BY <1>2, <3>1, <3>2, <3>3, <3>4
  <2> QED
    BY <2>1, <2>2
<1>18. ItemsAreOfOneQueue(F)
  <2> SUFFICES ASSUME NEW p \in Queues, NEW x \in Queues, NEW i \in 1..Len(F[x].items)
               PROVE  /\ F[x].items[i] \notin F[p].dropped
                      /\ p # x => F[x].items[i] \notin F[p].run.carries
    BY DEF ItemsAreOfOneQueue
  <2>1. F[p].dropped \subseteq Q[p].dropped \cup out /\ F[p].run = Q[p].run
    BY <1>6
  <2>2. CASE F[x].items[i] = m
    BY <1>7, <1>9, <2>1, <2>2
  <2>3. CASE F[x].items[i] # m
    <3>1. PICK a \in 1..Len(Q[x].items) : F[x].items[i] = Q[x].items[a]
      BY <1>8, <2>3
    <3>2. Q[x].items[a] \notin Q[p].dropped /\ (p # x => Q[x].items[a] \notin Q[p].run.carries)
      BY <1>1, <3>1 DEF ItemsAreOfOneQueue
    <3> QED
      BY <1>9, <2>1, <3>1, <3>2
  <2> QED
    BY <2>2, <2>3
<1>19. CarriesTheFirst(F)
  <2> SUFFICES ASSUME NEW x \in Queues, NEW i \in 1..Len(F[x].items),
                      F[x].items[i] \in F[x].run.carries
               PROVE  /\ i <= F[x].run.count
                      /\ \A j \in 1..Len(F[x].items) : j < i => F[x].items[j] \in F[x].run.carries
    BY DEF CarriesTheFirst
  <2>1. CASE x # k
    BY <1>1, <1>6, <2>1 DEF CarriesTheFirst
  <2>2. CASE x = k
    <3>1. /\ Q[k].run.count \in Nat /\ F[k].run = Q[k].run /\ F[k].items = items /\ Q[k].items = s
          /\ i \in 1..Len(items) /\ items[i] \in Q[k].run.carries /\ i \in Nat
      BY <1>1, <1>6, <1>8, <2>2, ObjectFacts DEF s
    <3>2. i \in 1..(Len(s) - n)
      <4>1. i # (Len(s) - n) + 1
        BY <1>5, <1>7, <3>1
      <4>2. i \in 1..Len(items) /\ Len(items) = (Len(s) - n) + 1
        BY <1>5, <3>1
      <4> QED
        BY ONLY <1>2, <4>1, <4>2
    <3>3. n + i \in 1..Len(s) /\ items[i] = s[n + i]
      BY <1>5, <3>2
    <3>4. /\ n + i <= Q[k].run.count
          /\ \A j \in 1..Len(s) : j < n + i => s[j] \in Q[k].run.carries
      BY <1>1, <3>1, <3>3 DEF CarriesTheFirst
    <3>5. i <= Q[k].run.count
      BY <1>2, <3>1, <3>4
    <3>6. ASSUME NEW j \in 1..Len(items), j < i
          PROVE  items[j] \in Q[k].run.carries
      <4>1. j \in 1..(Len(s) - n) /\ n + j < n + i
        BY <1>2, <1>5, <3>2, <3>6
      <4>2. n + j \in 1..Len(s) /\ items[j] = s[n + j]
        BY <1>5, <4>1
      <4> QED
        BY <3>4, <4>1, <4>2
    <3> QED
      BY <2>2, <3>1, <3>5, <3>6
  <2> QED
    BY <2>1, <2>2
<1>20. k \in Queues \cup {None}
  OBVIOUS
<1> QED
  BY <1>6, <1>10, <1>11, <1>13, <1>14, <1>15, <1>16, <1>17, <1>18, <1>19, <1>20 DEF Sound

\* A message joins the queue the map holds, or a new one.
LEMMA EnqueueStep ==
  ASSUME FollowupIInv, NEW m \in Messages, NEW settings \in Settings,
         EnqueueFollowupRun(m, settings)
  PROVE  FollowupIInv'
<1> DEFINE k == Target
           object == [followups[k] EXCEPT !.mode = settings.mode, !.cap = settings.cap,
                                          !.drop = settings.drop]
           refused == object.drop = "new" /\ Overflow(object) > 0
           Q == [followups EXCEPT ![k] = object]
<1>1. /\ msg[m] = "enqueuing"
      /\ current # None \/ \E q \in Queues : followups[q].drain = "off"
      /\ IF AlreadyQueued(m, object.items) \/ refused
         THEN /\ msg' = [msg EXCEPT ![m] = IF refused THEN "refused" ELSE "duplicate"]
              /\ followups' = Q
              /\ current' = k
              /\ UNCHANGED <<callback, overflowed>>
         ELSE Push(m, k, object)
      /\ UNCHANGED <<failures, clears>>
  BY DEF EnqueueFollowupRun
<1>2. /\ k \in Queues
      /\ current # None => k = current
      /\ current = None => followups[k] = NewQueue
      /\ Sound(followups, k, msg, clears, overflowed)
  BY <1>1, TargetFacts2
<1> HIDE DEF k
<1>3. settings.mode \in Modes /\ settings.cap \in Caps /\ settings.drop \in DropPolicies
  BY DEF Settings
<1>4. /\ followups[k] \in QueueObject /\ followups[k].items \in Seq(Messages)
      /\ followups \in [Queues -> QueueObject]
  BY <1>2, FollowupFacts, ObjectFacts
<1>5. /\ object \in QueueObject /\ object.items = followups[k].items
      /\ object.dropped = followups[k].dropped /\ object.drain = followups[k].drain
      /\ object.run = followups[k].run /\ object.cap = settings.cap
  BY <1>3, <1>4 DEF QueueObject
<1> HIDE DEF object
<1>6. Sound(Q, k, msg, clears, overflowed)
  <2>1. /\ RunsMarked(followups) /\ HeldWhileRunning(followups, clears, overflowed)
        /\ CarriesTheFirst(followups)
    BY FollowupFacts
  <2>2. IF object.drain = "running" THEN object.run.kind # "none" ELSE object.run = NoRun
    BY <1>2, <1>5, <2>1 DEF RunsMarked
  <2>3. object.drain = "running" /\ Calm(clears, overflowed) =>
          /\ object.run.count <= Len(object.items)
          /\ object.run.carries = ToSet(SubSeq(object.items, 1, object.run.count))
    BY <1>2, <1>5, <2>1 DEF HeldWhileRunning
  <2>4. \A i \in 1..Len(object.items) : object.items[i] \in object.run.carries =>
          /\ i <= object.run.count
          /\ \A j \in 1..Len(object.items) : j < i => object.items[j] \in object.run.carries
    BY <1>2, <1>5, <2>1 DEF CarriesTheFirst
  <2> QED
    BY <1>2, <1>5, <2>2, <2>3, <2>4, StageIsSound
<1>7. /\ Q \in [Queues -> QueueObject] /\ Q[k] = object
      /\ \A x \in Queues : x # k => Q[x] = followups[x]
  BY <1>2, <1>4, <1>5
<1>8. ASSUME AlreadyQueued(m, object.items) \/ refused
      PROVE  FollowupIInv'
  <2>1. /\ msg' = [msg EXCEPT ![m] = IF refused THEN "refused" ELSE "duplicate"]
        /\ followups' = Q /\ current' = k /\ UNCHANGED <<callback, overflowed, failures, clears>>
    BY <1>1, <1>8
  <2>2. /\ msg' \in [Messages -> Statuses] /\ msg'[m] \in {"refused", "duplicate"}
        /\ \A x \in Messages : x # m => msg'[x] = msg[x]
    BY <2>1 DEF FollowupIInv, Statuses
  <2> HIDE DEF Q, refused
  <2>3. Sound(Q, k, msg', clears, overflowed)
    <3>1. /\ \A x \in Messages : msg[x] \in TakenIn => msg'[x] = msg[x]
          /\ \A x \in Messages : msg'[x] = "queued" => msg[x] = "queued"
      BY <1>1, <2>2 DEF TakenIn
    <3> QED
      BY <1>6, <3>1, StatusIsSound
  <2>4. Forgotten(followups', current')
    BY <1>2, <1>7, <2>1, FollowupFacts, FollowupBounds DEF Forgotten
  <2>5. NoIdleQueue'
    <3>1. CASE current # None
      BY <1>2, <1>5, <1>7, <2>1, <3>1, FollowupFacts DEF NoIdleQueue, HasWork
    <3>2. CASE current = None
      BY <1>2, <1>5, <1>7, <2>1, <3>2, NewQueueFacts DEF NoIdleQueue, HasWork
    <3> QED
      BY <3>1, <3>2
  <2>6. Kept(msg', clears', overflowed')
    BY <2>1, <2>3, <2>4, <2>5, FollowupFacts DEF Kept
  <2> QED
    BY <2>1, <2>2, <2>6, KeptSuffices DEF FollowupIInv
<1>9. ASSUME Push(m, k, object)
      PROVE  FollowupIInv'
  <2> DEFINE n == Overflow(object)
             out == ToSet(SubSeq(object.items, 1, n))
             items == Append(SubSeq(object.items, n + 1, Len(object.items)), m)
             dropped == IF object.drop = "summarize" THEN object.dropped \cup out ELSE object.dropped
             o == [object EXCEPT !.items = items, !.dropped = dropped]
             F == [followups EXCEPT ![k] = o]
  <2>1. /\ msg' = [x \in Messages |->
                     CASE x = m -> "queued"
                       [] x \in out /\ object.drop = "old" -> "dropped"
                       [] OTHER -> msg[x]]
        /\ overflowed' = (overflowed \/ n > 0)
        /\ Kick(F, k)
    BY <1>9 DEF Push
  <2>2. n \in 0..Len(object.items)
    <3>1. Len(object.items) \in Nat /\ object.cap \in Nat /\ object.cap # 0
      <4>1. Len(object.items) \in Nat
        BY <1>5, ObjectFacts, SetOfSeq
      <4>2. \A c \in Caps : c \in Nat /\ c # 0
        BY FollowupAssumption
      <4> QED
        BY <1>3, <1>5, <4>1, <4>2
    <3> QED
      BY <3>1 DEF Overflow
  <2>3. out \subseteq Messages /\ items \in Seq(Messages)
        /\ \A x \in out : \E i \in 1..Len(object.items) : x = object.items[i]
    <3> DEFINE s == object.items
               r == SubSeq(s, n + 1, Len(s))
    <3>1. s \in Seq(Messages)
      BY <1>5, ObjectFacts
    <3> HIDE DEF s, n
    <3>2. Len(s) \in Nat /\ \A i \in 1..Len(s) : s[i] \in Messages
      BY ONLY <3>1, SetOfSeq
    <3>3. n \in 0..Len(s) /\ n \in Nat
      BY <2>2, <3>2 DEF s
    <3>4. ToSet(SubSeq(s, 1, n)) = {s[i] : i \in 1..n}
      BY ONLY <3>1, <3>3, TakeFacts
    <3>5. r \in Seq(Messages)
      BY <3>1, <3>3, DropFacts
    <3>6. \A i \in 1..n : i \in 1..Len(s)
      BY <3>2, <3>3
    <3>7. items \in Seq(Messages)
      <4>1. items = Append(r, m)
        BY DEF s
      <4> HIDE DEF r, items
      <4> QED
        BY <3>5, <4>1, AppendProperties
    <3>8. out = {s[i] : i \in 1..n}
      BY <3>4 DEF s
    <3> HIDE DEF out
    <3>9. /\ out \subseteq Messages
          /\ \A x \in out : \E i \in 1..Len(s) : x = s[i]
      BY <3>2, <3>6, <3>8
    <3> QED
      BY <3>7, <3>9 DEF s
  <2>4. /\ Q[k].items = object.items /\ Q[k].dropped = object.dropped
        /\ Q[k].drain = object.drain /\ Q[k].run = object.run
    BY <1>7
  <2>6. \A x \in out : msg[x] = "queued"
    BY <1>2, <1>5, <2>3, FollowupFacts DEF ItemsAreQueued
  <2> HIDE DEF n, out, items
  <2>7. dropped \in SUBSET Messages /\ dropped \subseteq Q[k].dropped \cup out
    BY <1>5, <2>3, <2>4, ObjectFacts
  <2> HIDE DEF dropped
  <2>8. /\ o \in QueueObject /\ o.items = items /\ o.dropped = dropped
        /\ o.drain = object.drain /\ o.run = object.run /\ o.cap = object.cap
    BY <1>5, <2>3, <2>7 DEF QueueObject
  <2>5. /\ F \in [Queues -> QueueObject] /\ F[k] = o
        /\ \A x \in Queues : x # k => F[x] = Q[x]
    <3> HIDE DEF o
    <3> QED
      BY <1>2, <1>4, <1>7, <2>8
  <2> HIDE DEF o, F, Q
  <2>9. /\ \A x \in Messages : msg'[x] = IF x = m THEN "queued"
                                         ELSE IF x \in out THEN msg'[x] ELSE msg[x]
        /\ \A x \in out : msg'[x] \in {"queued", "dropped"}
        /\ msg' \in [Messages -> Statuses]
    <3>1. \A x \in Messages : msg'[x] = IF x = m THEN "queued"
                                ELSE IF x \in out /\ object.drop = "old" THEN "dropped" ELSE msg[x]
      <4> SUFFICES ASSUME NEW x \in Messages
                   PROVE  msg'[x] = IF x = m THEN "queued"
                                ELSE IF x \in out /\ object.drop = "old" THEN "dropped" ELSE msg[x]
        OBVIOUS
      <4>1. msg'[x] = CASE x = m -> "queued"
                        [] x \in out /\ object.drop = "old" -> "dropped"
                        [] OTHER -> msg[x]
        BY <2>1
      <4>2. x = m => x \notin out
        BY <1>1, <2>6
      <4>3. CASE x = m
        BY <4>1, <4>2, <4>3
      <4>4. CASE x # m /\ x \in out /\ object.drop = "old"
        BY <4>1, <4>4
      <4>5. CASE x # m /\ ~(x \in out /\ object.drop = "old")
        BY <4>1, <4>5
      <4> QED
        BY <4>3, <4>4, <4>5
    <3>2. msg' = [x \in Messages |-> msg'[x]]
      BY <2>1
    <3>3. \A x \in Messages : msg'[x] \in Statuses
      BY <3>1 DEF FollowupIInv, Statuses
    <3> QED
      BY <2>3, <2>6, <3>1, <3>2, <3>3
  <2>10. Sound(F, k, msg', clears, overflowed')
    <3>1. /\ out = ToSet(SubSeq(Q[k].items, 1, n))
          /\ items = Append(SubSeq(Q[k].items, n + 1, Len(Q[k].items)), m)
          /\ n \in 0..Len(Q[k].items)
      BY <2>2, <2>4 DEF out, items
    <3>2. /\ o \in QueueObject /\ o.items = items /\ o.dropped \subseteq Q[k].dropped \cup out
          /\ o.drain = Q[k].drain /\ o.run = Q[k].run
      BY <2>4, <2>7, <2>8
    <3>3. overflowed \in BOOLEAN /\ (~overflowed' => ~overflowed /\ n = 0)
      <4>1. n \in Nat
        BY <2>2
      <4>2. ~overflowed' => ~overflowed /\ ~(n > 0)
        BY <2>1
      <4> QED
        BY <4>1, <4>2, FollowupFacts
    <3>4. k \in Queues /\ m \in Messages /\ msg[m] = "enqueuing"
      BY <1>1, <1>2
    <3>5. Pushed(Q, k, msg, overflowed, m, n, out, items, o, F, msg', overflowed')
      BY ONLY <2>5, <2>9, <3>1, <3>2, <3>3, <3>4 DEF Pushed
    <3> QED
      BY <1>6, <3>5, PushIsSound
  <2>11. current' = k /\ callback' \in BOOLEAN /\ Settled(followups', F, k, callback')
    <3>1. F \in [Queues -> QueueObject] /\ callback \in BOOLEAN
      BY <2>10, FollowupFacts DEF Sound
    <3> QED
      BY <1>2, <2>1, <3>1, KickFacts
  <2>12. Kept(msg', clears, overflowed')
    BY <2>10, <2>11, SettledIsKept
  <2>13. /\ overflowed' \in BOOLEAN /\ clears' = clears /\ failures' = failures
         /\ failures \in 0..MaxFailures /\ clears \in 0..MaxClears
    BY <1>1, <2>1 DEF FollowupIInv
  <2>14. Kept(msg', clears', overflowed')
    BY <2>12, <2>13
  <2> QED
    BY <2>9, <2>13, <2>14, KeptSuffices
<1> QED
  BY <1>1, <1>8, <1>9

\* A clear leaves nothing in the queue of the map, and the map forgets it.
LEMMA ClearStep ==
  ASSUME FollowupIInv, ClearSessionQueues PROVE FollowupIInv'
<1>1. /\ clears < MaxClears /\ clears' = clears + 1 /\ current' = None /\ callback' = FALSE
      /\ UNCHANGED <<failures, overflowed>>
  BY DEF ClearSessionQueues
<1>2. clears' \in 0..MaxClears /\ clears' # 0
  BY <1>1, FollowupBounds DEF FollowupIInv
<1>3. \A Q, status : ~Calm(clears', overflowed)
  BY <1>2 DEF Calm
<1>4. CASE current = None
  <2>1. msg' = msg /\ followups' = followups
    BY <1>4 DEF ClearSessionQueues
  <2>2. Sound(followups, None, msg, clears', overflowed)
    BY <1>2, <1>4, FollowupFacts DEF Sound, DrainsAreOfMap, HeldWhileRunning, HeldWhileQueued, Calm
  <2>3. NoIdleQueue' /\ Forgotten(followups', current')
    BY <1>1, <1>4, <2>1, FollowupFacts DEF NoIdleQueue, Forgotten
  <2>4. Kept(msg', clears', overflowed')
    BY <1>1, <2>1, <2>2, <2>3 DEF Kept
  <2> QED
    BY <1>1, <1>2, <2>1, <2>4, KeptSuffices DEF FollowupIInv
<1>5. CASE current # None
  <2> DEFINE cleared == Waiting(followups[current])
             o == [followups[current] EXCEPT !.items = <<>>, !.dropped = {}]
             Q == [followups EXCEPT ![current] = o]
  <2>1. /\ msg' = [m \in Messages |-> IF m \in cleared THEN "cleared" ELSE msg[m]]
        /\ followups' = Collected(Q, None)
    BY <1>5 DEF ClearSessionQueues
  <2>2. /\ current \in Queues /\ followups \in [Queues -> QueueObject]
        /\ followups[current] \in QueueObject
    BY <1>5, FollowupFacts
  <2>3. /\ o \in QueueObject /\ o.items = <<>> /\ o.dropped = {} /\ Len(o.items) = 0
        /\ o.drain = followups[current].drain /\ o.run = followups[current].run
    <3>1. <<>> \in Seq(Messages) /\ Len(<<>>) = 0
      BY EmptySeq
    <3> QED
      BY <2>2, <3>1 DEF QueueObject
  <2> HIDE DEF o
  <2>4. /\ Q \in [Queues -> QueueObject] /\ Q[current] = o
        /\ \A x \in Queues : x # current => Q[x] = followups[x]
        /\ \A x \in Queues : Q[x].drain = followups[x].drain /\ Q[x].run = followups[x].run
    BY <2>2, <2>3
  <2>5. /\ cleared = ToSet(followups[current].items) \cup followups[current].dropped
        /\ ToSet(followups[current].items) =
             {followups[current].items[i] : i \in 1..Len(followups[current].items)}
    <3>1. followups[current].items \in Seq(Messages)
      BY <2>2, ObjectFacts
    <3>2. ToSet(followups[current].items) =
            {followups[current].items[i] : i \in 1..Len(followups[current].items)}
      BY ONLY <3>1, SetOfSeq
    <3> QED
      BY <3>2 DEF Waiting
  <2> HIDE DEF Q, cleared
  <2>6. msg' \in [Messages -> Statuses]
    BY <2>1 DEF FollowupIInv, Statuses
  <2>7. RunsMarked(Q)
    BY <2>4, FollowupFacts DEF RunsMarked
  <2>8. DrainsAreOfMap(Q, None, clears')
    BY <1>2 DEF DrainsAreOfMap
  <2>9. SummariesAreDrops(Q, overflowed)
    BY <2>3, <2>4, FollowupFacts DEF SummariesAreDrops
  <2>10. HeldWhileRunning(Q, clears', overflowed) /\ HeldWhileQueued(Q, None, msg', clears', overflowed)
    BY <1>2 DEF HeldWhileRunning, HeldWhileQueued, Calm
  <2>11. ASSUME NEW x \in Queues, NEW i \in 1..Len(Q[x].items)
         PROVE  /\ x # current /\ i \in 1..Len(followups[x].items)
                /\ Q[x].items[i] = followups[x].items[i]
                /\ Q[x].items[i] \in Messages
    <3>1. x # current
      BY <2>3, <2>4, <2>11
    <3>2. Q[x] = followups[x] /\ followups[x].items \in Seq(Messages)
      BY <2>2, <2>4, <3>1, ObjectFacts
    <3> QED
      BY <2>11, <3>1, <3>2, SetOfSeq
  <2>12. ItemsAreQueued(Q, msg')
    <3>1. ASSUME NEW x \in Queues, NEW i \in 1..Len(Q[x].items)
          PROVE  msg'[Q[x].items[i]] = "queued"
      <4>1. /\ x # current /\ i \in 1..Len(followups[x].items)
            /\ Q[x].items[i] = followups[x].items[i] /\ Q[x].items[i] \in Messages
        BY <2>11
      <4>2. \A j \in 1..Len(followups[current].items) :
              followups[x].items[i] # followups[current].items[j]
        BY <2>2, <4>1, FollowupFacts DEF ItemsAreOnce
      <4>3. followups[x].items[i] \notin followups[current].dropped
        BY <2>2, <4>1, FollowupFacts DEF ItemsAreOfOneQueue
      <4>4. Q[x].items[i] \notin cleared
        BY <2>5, <4>1, <4>2, <4>3
      <4>5. msg[Q[x].items[i]] = "queued"
        BY <4>1, FollowupFacts DEF ItemsAreQueued
      <4> QED
        BY <2>1, <4>1, <4>4, <4>5
    <3>2. ASSUME NEW x \in Queues, NEW m \in Q[x].dropped \cup Q[x].run.carries
          PROVE  msg'[m] \in TakenIn
      <4>1. m \in followups[x].dropped \cup followups[x].run.carries
        BY <2>3, <2>4, <3>2
      <4>2. msg[m] \in TakenIn /\ m \in Messages
        BY <2>2, <4>1, FollowupFacts, ObjectFacts DEF ItemsAreQueued
      <4> QED
        BY <2>1, <4>2 DEF TakenIn
    <3> QED
      BY <3>1, <3>2 DEF ItemsAreQueued
  <2>13. ItemsAreOnce(Q)
    <3> SUFFICES ASSUME NEW x \in Queues, NEW y \in Queues, NEW i \in 1..Len(Q[x].items),
                        NEW j \in 1..Len(Q[y].items), Q[x].items[i] = Q[y].items[j]
                 PROVE  x = y /\ i = j
      BY DEF ItemsAreOnce
    <3>1. /\ i \in 1..Len(followups[x].items) /\ j \in 1..Len(followups[y].items)
          /\ followups[x].items[i] = followups[y].items[j]
      BY <2>11
    <3>2. ItemsAreOnce(followups)
      BY FollowupFacts
    <3> QED
      BY ONLY <3>1, <3>2 DEF ItemsAreOnce
  <2>14. ItemsAreOfOneQueue(Q)
    <3>1. \A x \in Queues : Q[x].dropped \subseteq followups[x].dropped
      BY <2>3, <2>4
    <3> QED
      BY <2>4, <2>11, <3>1, FollowupFacts DEF ItemsAreOfOneQueue
  <2>15. CarriesTheFirst(Q)
    <3> SUFFICES ASSUME NEW x \in Queues, NEW i \in 1..Len(Q[x].items),
                        Q[x].items[i] \in Q[x].run.carries
                 PROVE  /\ i <= Q[x].run.count
                        /\ \A j \in 1..Len(Q[x].items) :
                             j < i => Q[x].items[j] \in Q[x].run.carries
      BY DEF CarriesTheFirst
    <3>1. Q[x] = followups[x]
      BY <2>4, <2>11
    <3> QED
      BY <3>1, FollowupFacts DEF CarriesTheFirst
  <2>16. Sound(Q, None, msg', clears', overflowed)
    BY <2>4, <2>7, <2>8, <2>9, <2>10, <2>12, <2>13, <2>14, <2>15 DEF Sound
  <2>17. Settled(followups', Q, None, callback')
    <3>1. Settled(followups', Q, None, FALSE)
      BY <2>1, <2>4, CollectedSettles
    <3> QED
      BY <3>1, FollowupBounds DEF Settled
  <2>18. Kept(msg', clears', overflowed)
    BY <1>1, <2>16, <2>17, SettledIsKept
  <2>19. Kept(msg', clears', overflowed')
    BY <1>1, <2>18
  <2> QED
    BY <1>1, <1>2, <2>6, <2>19, KeptSuffices DEF FollowupIInv
<1> QED
  BY <1>4, <1>5

-----------------------------------------------------------------------------
(* Followups: the theorems *)

LEMMA FollowupNextInv == FollowupIInv /\ [FollowupNext]_followupVars => FollowupIInv'
<1> SUFFICES ASSUME FollowupIInv, [FollowupNext]_followupVars PROVE FollowupIInv'
  OBVIOUS
<1>1. CASE \E m \in Messages : Arrive(m)
  BY <1>1, ArriveStep
<1>2. CASE \E m \in Messages : TurnEnds(m)
  BY <1>2, TurnEndsStep
<1>3. CASE \E m \in Messages, s \in Settings : EnqueueFollowupRun(m, s)
  BY <1>3, EnqueueStep
<1>4. CASE \E q \in Queues : DebounceEnds(q)
  BY <1>4, DebounceEndsStep
<1>5. CASE \E q \in Queues : Collect(q)
  BY <1>5, CollectStep
<1>6. CASE \E q \in Queues : RunEnds(q)
  BY <1>6, RunEndsStep
<1>7. CASE \E q \in Queues : RunFails(q)
  BY <1>7, RunFailsStep
<1>8. CASE ClearSessionQueues
  BY <1>8, ClearStep
<1>9. CASE UNCHANGED followupVars
  <2>1. /\ msg' = msg /\ followups' = followups /\ current' = current /\ callback' = callback
        /\ failures' = failures /\ clears' = clears /\ overflowed' = overflowed
    BY <1>9 DEF followupVars
  <2>2. Kept(msg', clears', overflowed')
    BY <2>1, FollowupFacts DEF Kept, NoIdleQueue, HasWork
  <2> QED
    BY <2>1, <2>2, KeptSuffices DEF FollowupIInv
<1> QED
  BY <1>1, <1>2, <1>3, <1>4, <1>5, <1>6, <1>7, <1>8, <1>9 DEF FollowupNext

LEMMA FollowupIInvHolds == FollowupSpec => []FollowupIInv
BY FollowupInitInv, FollowupNextInv, PTL DEF FollowupSpec

LEMMA FollowupIInvTypes == FollowupIInv => FollowupTypeOK
<1> SUFFICES ASSUME FollowupIInv PROVE FollowupTypeOK
  OBVIOUS
<1>1. \A q \in Queues :
        /\ followups[q].items \in Seq(Messages) /\ followups[q].dropped \subseteq Messages
        /\ followups[q].mode \in Modes \cup {"followup"} /\ followups[q].cap \in Caps \cup {1}
        /\ followups[q].drop \in DropPolicies \cup {"summarize"}
        /\ followups[q].drain \in {"off", "debounce", "checked", "running"}
        /\ followups[q].individual \in BOOLEAN
        /\ followups[q].run.kind \in {"none", "item", "summary", "batch", "everything"}
        /\ followups[q].run.carries \subseteq Messages /\ followups[q].run.count \in Nat
  BY FollowupFacts, ObjectFacts
<1>2. \A q \in Queues : followups[q].drain = "running" <=> followups[q].run.kind # "none"
  BY FollowupFacts, NewQueueFacts DEF RunsMarked
<1>3. /\ DOMAIN followups = Queues /\ current \in Queues \cup {None}
      /\ callback \in BOOLEAN /\ overflowed \in BOOLEAN
  BY FollowupFacts
<1>4. /\ msg \in [Messages -> Statuses]
      /\ failures \in 0..MaxFailures /\ clears \in 0..MaxClears
  BY DEF FollowupIInv
<1> QED
  BY <1>1, <1>2, <1>3, <1>4 DEF FollowupTypeOK, Statuses

\* A message that was queued stays in the queue of the map until it was run, for as long as
\* none is cleared or makes room for another; so do those a run has taken in hand; and a
\* queue with work, whose key has a callback, is drained (queue/drain.ts, enqueue.ts).
THEOREM QueuedMessagesAreKept == FollowupSpec => []FollowupInv
<1>1. FollowupIInv => FollowupInv
  <2> SUFFICES ASSUME FollowupIInv PROVE FollowupInv
    OBVIOUS
  <2>1. NothingLostUnlessDropped
    <3> SUFFICES ASSUME clears = 0, ~overflowed, NEW m \in Messages, msg[m] = "queued"
                 PROVE  \E q \in Queues : m \in Waiting(followups[q])
      BY DEF NothingLostUnlessDropped, NoMessageLost
    <3>1. current \in Queues /\ m \in ToSet(followups[current].items)
      BY FollowupFacts DEF HeldWhileQueued, Calm
    <3> QED
      BY <3>1 DEF Waiting
  <2>2. RunningStaysQueued
    BY FollowupFacts DEF HeldWhileRunning, Calm, RunningStaysQueued
  <2> QED
    BY <2>1, <2>2, FollowupIInvTypes, FollowupFacts DEF FollowupInv
<1> QED
  BY <1>1, FollowupIInvHolds, PTL

\* No queue has more items than before.
Fewer == \A x \in Queues : Len(followups'[x].items) <= Len(followups[x].items)

LEMMA LengthFacts ==
  ASSUME NEW Q \in [Queues -> QueueObject] PROVE \A x \in Queues : Len(Q[x].items) \in Nat
<1> TAKE x \in Queues
<1>1. Q[x].items \in Seq(Messages)
  BY ObjectFacts
<1> QED
  BY <1>1, LenProperties

LEMMA SettledFewer ==
  ASSUME followups \in [Queues -> QueueObject], NEW Q \in [Queues -> QueueObject],
         NEW k \in Queues \cup {None}, NEW cb, Settled(followups', Q, k, cb),
         \A x \in Queues : Len(Q[x].items) <= Len(followups[x].items)
  PROVE  Fewer
<1> SUFFICES ASSUME NEW x \in Queues
             PROVE  Len(followups'[x].items) <= Len(followups[x].items)
  BY DEF Fewer
<1>1. Len(followups[x].items) \in Nat /\ Len(Q[x].items) <= Len(followups[x].items)
  BY LengthFacts
<1>2. followups'[x].items = Q[x].items \/ followups'[x] = NewQueue
  BY DEF Settled
<1> QED
  BY <1>1, <1>2, NewQueueFacts

LEMMA FinishFewer ==
  ASSUME FollowupIInv, NEW q \in Queues, NEW object \in QueueObject, Finish(q, object),
         Len(object.items) <= Len(followups[q].items)
  PROVE  Fewer
<1> DEFINE o == Between(object, "off")
           Q == Replaced(q, o)
<1>1. o \in QueueObject /\ o.items = object.items
  BY NewQueueFacts DEF QueueObject, Between
<1>2. /\ followups \in [Queues -> QueueObject] /\ callback \in BOOLEAN
      /\ current \in Queues \cup {None} /\ None \in Queues \cup {None}
  BY FollowupFacts
<1>3. /\ Q[q] = o /\ Q \in [Queues -> QueueObject]
      /\ \A x \in Queues : x # q => Q[x] = followups[x]
  BY <1>1, <1>2 DEF Replaced
<1>4. ScheduleFollowupDrain(Q, current) \/ ScheduleFollowupDrain(Q, None)
  BY DEF Finish, Between, Replaced
<1> HIDE DEF o, Q
<1>5. PICK k \in Queues \cup {None} : ScheduleFollowupDrain(Q, k)
  BY <1>2, <1>4
<1>6. Settled(followups', Q, k, callback')
  BY <1>2, <1>3, <1>5, ScheduleFacts2
<1>7. \A x \in Queues : Len(Q[x].items) <= Len(followups[x].items)
  <2>1. \A x \in Queues : Len(followups[x].items) \in Nat
    BY <1>2, LengthFacts
  <2> QED
    BY <1>1, <1>3, <2>1
<1> QED
  BY <1>2, <1>3, <1>6, <1>7, SettledFewer

LEMMA RunFewer ==
  ASSUME FollowupIInv, NEW q \in Queues, NEW kind, NEW messages, NEW count, NEW individual,
         Run(q, kind, messages, count, individual)
  PROVE  Fewer
<1>1. followups \in [Queues -> QueueObject]
  BY FollowupFacts
<1>2. \A x \in Queues : Len(followups[x].items) \in Nat
  BY <1>1, LengthFacts
<1>3. \A x \in Queues : followups'[x].items = followups[x].items
  BY <1>1 DEF Run, QueueObject
<1> QED
  BY <1>2, <1>3 DEF Fewer

LEMMA DrainFewer ==
  ASSUME FollowupIInv, NEW q \in Queues,
         DebounceEnds(q) \/ Collect(q) \/ RunEnds(q) \/ RunFails(q)
  PROVE  Fewer
<1>1. /\ followups \in [Queues -> QueueObject] /\ followups[q] \in QueueObject
      /\ followups[q].items \in Seq(Messages) /\ followups[q].run.count \in Nat
      /\ \A x \in Queues : Len(followups[x].items) \in Nat
  BY FollowupFacts, ObjectFacts, LengthFacts
<1>2. ASSUME Finish(q, followups[q]) PROVE Fewer
  BY <1>1, <1>2, FinishFewer
<1>3. ASSUME NEW individual, RunHead(q, individual) PROVE Fewer
  BY <1>2, <1>3, RunFewer DEF RunHead
<1>4. ASSUME followups' = [followups EXCEPT ![q].drain = "checked"] PROVE Fewer
  <2>1. \A x \in Queues : followups'[x].items = followups[x].items
    BY <1>1, <1>4 DEF QueueObject
  <2> QED
    BY <1>1, <2>1 DEF Fewer
<1>5. CASE DebounceEnds(q)
  BY <1>2, <1>3, <1>4, <1>5, RunFewer DEF DebounceEnds
<1>6. CASE Collect(q)
  BY <1>2, <1>6, RunFewer DEF Collect
<1>7. CASE RunEnds(q)
  <2> DEFINE object == AfterRun(followups[q])
             r == SubSeq(followups[q].items, followups[q].run.count + 1, Len(followups[q].items))
  <2>1. r \in Seq(Messages) /\ Len(r) <= Len(followups[q].items)
    <3> DEFINE s == followups[q].items
               n == followups[q].run.count
    <3>1. s \in Seq(Messages) /\ n \in Nat /\ Len(s) \in Nat /\ r = SubSeq(s, n + 1, Len(s))
      BY <1>1
    <3> HIDE DEF s, n, r
    <3>2. r \in Seq(Messages) /\ Len(r) = IF n <= Len(s) THEN Len(s) - n ELSE 0
      BY ONLY <3>1, DropFacts
    <3>3. Len(r) <= Len(s)
      BY ONLY <3>1, <3>2
    <3> QED
      BY <3>2, <3>3 DEF s
  <2>2. object = [followups[q] EXCEPT !.items = r, !.dropped = object.dropped]
        /\ object.dropped \in {{}, followups[q].dropped}
    BY <1>1 DEF AfterRun, QueueObject
  <2> HIDE DEF r
  <2>3. object \in QueueObject /\ object.items = r
    <3> HIDE DEF object
    <3> QED
      BY <1>1, <2>1, <2>2 DEF QueueObject
  <2>4. Continue(q, object)
    BY <1>7 DEF RunEnds
  <2> HIDE DEF object
  <2>5. CASE HasWork(object)
    <3>1. \A x \in Queues : followups'[x].items = IF x = q THEN r ELSE followups[x].items
      <4> DEFINE o == Between(object, "debounce")
      <4>1. followups' = Replaced(q, o)
        BY <2>4, <2>5 DEF Continue, Between, Replaced
      <4>2. o.items = r
        BY <2>3 DEF Between, QueueObject
      <4> HIDE DEF o
      <4> QED
        BY <1>1, <4>1, <4>2 DEF Replaced
    <3> QED
      BY <1>1, <2>1, <3>1 DEF Fewer
  <2>6. CASE ~HasWork(object)
    BY <2>1, <2>3, <2>4, <2>6, FinishFewer DEF Continue
  <2> QED
    BY <2>5, <2>6
<1>8. CASE RunFails(q)
  BY <1>2, <1>8 DEF RunFails
<1> QED
  BY <1>5, <1>6, <1>7, <1>8

LEMMA ClearFewer ==
  ASSUME FollowupIInv, ClearSessionQueues PROVE Fewer
<1>1. /\ followups \in [Queues -> QueueObject] /\ current \in Queues \cup {None}
      /\ \A x \in Queues : Len(followups[x].items) \in Nat
  BY FollowupFacts, LengthFacts
<1>2. CASE current = None
  <2>1. followups' = followups
    BY <1>2 DEF ClearSessionQueues
  <2> QED
    BY <1>1, <2>1 DEF Fewer
<1>3. CASE current # None
  <2> DEFINE o == [followups[current] EXCEPT !.items = <<>>, !.dropped = {}]
             Q == [followups EXCEPT ![current] = o]
  <2>1. followups' = Collected(Q, None) /\ current \in Queues
    BY <1>1, <1>3 DEF ClearSessionQueues
  <2>2. o \in QueueObject /\ o.items = <<>> /\ Len(o.items) = 0
    <3>1. <<>> \in Seq(Messages) /\ Len(<<>>) = 0
      BY EmptySeq
    <3> QED
      BY <1>1, <2>1, <3>1 DEF QueueObject
  <2> HIDE DEF o
  <2>3. /\ Q \in [Queues -> QueueObject]
        /\ \A x \in Queues : Q[x].items = followups[x].items \/ Len(Q[x].items) = 0
    BY <1>1, <2>1, <2>2
  <2> HIDE DEF Q
  <2>4. Settled(followups', Q, None, FALSE)
    BY <2>1, <2>3, CollectedSettles
  <2>5. \A x \in Queues : Len(Q[x].items) <= Len(followups[x].items)
    BY <1>1, <2>3
  <2> QED
    BY <1>1, <2>3, <2>4, <2>5, SettledFewer
<1> QED
  BY <1>2, <1>3

\* A queue that grows has room up to its cap.
RoomFor(x) == Len(followups'[x].items) > Len(followups[x].items)
                => Len(followups'[x].items) <= followups'[x].cap

LEMMA EnqueueHasRoom ==
  ASSUME FollowupIInv, NEW m \in Messages, NEW settings \in Settings,
         EnqueueFollowupRun(m, settings), NEW x \in Queues
  PROVE  RoomFor(x)
<1> DEFINE k == Target
           object == [followups[k] EXCEPT !.mode = settings.mode, !.cap = settings.cap,
                                          !.drop = settings.drop]
<1>1. /\ current # None \/ \E q \in Queues : followups[q].drain = "off"
      /\ followups' = [followups EXCEPT ![k] = object] \/ Push(m, k, object)
  BY DEF EnqueueFollowupRun
<1>2. k \in Queues
  BY <1>1, TargetFacts2
<1> HIDE DEF k
<1>3. /\ followups \in [Queues -> QueueObject] /\ callback \in BOOLEAN
      /\ followups[k] \in QueueObject
      /\ \A y \in Queues : Len(followups[y].items) \in Nat
  BY <1>2, FollowupFacts, LengthFacts
<1>4. settings.mode \in Modes /\ settings.cap \in Caps /\ settings.drop \in DropPolicies
  BY DEF Settings
<1>5. object \in QueueObject /\ object.items = followups[k].items /\ object.cap = settings.cap
  BY <1>3, <1>4 DEF QueueObject
<1> HIDE DEF object
<1>6. CASE followups' = [followups EXCEPT ![k] = object]
  <2>1. followups'[x].items = followups[x].items
    BY <1>3, <1>5, <1>6
  <2> QED
    BY <1>3, <2>1 DEF RoomFor
<1>7. CASE Push(m, k, object)
  <2> DEFINE s == object.items
             n == Overflow(object)
             r == SubSeq(s, n + 1, Len(s))
             items == Append(r, m)
             dropped == IF object.drop = "summarize"
                        THEN object.dropped \cup ToSet(SubSeq(s, 1, n)) ELSE object.dropped
             o == [object EXCEPT !.items = items, !.dropped = dropped]
             F == [followups EXCEPT ![k] = o]
  <2>1. Kick(F, k)
    BY <1>7 DEF Push
  <2>2. Len(s) \in Nat /\ object.cap \in Nat /\ object.cap # 0 /\ s \in Seq(Messages)
    <3>1. \A c \in Caps : c \in Nat /\ c # 0
      BY FollowupAssumption
    <3>2. object.items \in Seq(Messages)
      BY <1>5, ObjectFacts
    <3> QED
      BY <1>2, <1>3, <1>4, <1>5, <3>1, <3>2
  <2>3. n = IF Len(s) < object.cap THEN 0 ELSE Len(s) - object.cap + 1
    BY DEF Overflow
  <2>4. n \in 0..Len(s) /\ n \in Nat
    <3> HIDE DEF s, n
    <3> QED
      BY ONLY <2>2, <2>3
  <2>5. /\ r \in Seq(Messages) /\ Len(r) = Len(s) - n
        /\ \A i \in 1..n : s[i] \in Messages
    <3>1. r = SubSeq(s, n + 1, Len(s))
      OBVIOUS
    <3> HIDE DEF s, n, r
    <3>2. r \in Seq(Messages) /\ Len(r) = IF n <= Len(s) THEN Len(s) - n ELSE 0
      BY ONLY <2>2, <2>4, <3>1, DropFacts
    <3>3. \A i \in 1..Len(s) : s[i] \in Messages
      BY ONLY <2>2, SetOfSeq
    <3> QED
      BY ONLY <2>2, <2>4, <3>2, <3>3
  <2>6. ToSet(SubSeq(s, 1, n)) \subseteq Messages
    <3> HIDE DEF s, n, r
    <3>1. ToSet(SubSeq(s, 1, n)) = {s[i] : i \in 1..n}
      BY ONLY <2>2, <2>4, TakeFacts
    <3> QED
      BY ONLY <2>5, <3>1
  <2>7. items \in Seq(Messages) /\ Len(items) = Len(r) + 1
    <3>1. items = Append(r, m) /\ r \in Seq(Messages) /\ m \in Messages
      BY <2>5
    <3> HIDE DEF r, items
    <3> QED
      BY ONLY <3>1, AppendProperties
  <2>8. Len(items) <= object.cap
    <3> HIDE DEF s, n, r, items
    <3> QED
      BY ONLY <2>2, <2>3, <2>4, <2>5, <2>7
  <2>9. dropped \in SUBSET Messages
    BY <1>5, <2>6, ObjectFacts
  <2> HIDE DEF s, n, r, items, dropped
  <2>10. o \in QueueObject /\ o.items = items /\ o.cap = object.cap
    BY <1>5, <2>7, <2>9 DEF QueueObject
  <2> HIDE DEF o
  <2>11. /\ F \in [Queues -> QueueObject] /\ F[k] = o
         /\ \A y \in Queues : y # k => F[y] = followups[y]
    BY <1>2, <1>3, <2>10
  <2> HIDE DEF F
  <2>12. Settled(followups', F, k, callback')
    BY <1>2, <1>3, <2>1, <2>11, KickFacts
  <2>13. CASE x = k
    <3>1. followups'[x].items = items /\ followups'[x].cap = object.cap
      BY <1>2, <2>10, <2>11, <2>12, <2>13 DEF Settled
    <3> QED
      BY <2>8, <3>1 DEF RoomFor
  <2>14. CASE x # k
    <3>1. followups'[x] = followups[x] \/ followups'[x] = NewQueue
      BY <2>11, <2>12, <2>14 DEF Settled
    <3> QED
      BY <1>3, <3>1, NewQueueFacts DEF RoomFor
  <2> QED
    BY <2>13, <2>14
<1> QED
  BY <1>1, <1>6, <1>7

\* No message runs before one that was queued ahead of it in queue q.
InTurn(q) ==
  \A i, j \in DOMAIN followups[q].items :
    /\ i < j
    /\ msg[followups[q].items[j]] = "queued" /\ msg'[followups[q].items[j]] = "ran"
    => msg'[followups[q].items[i]] = "ran"

LEMMA RunEndsInTurn ==
  ASSUME FollowupIInv, NEW p \in Queues, RunEnds(p), NEW q \in Queues PROVE InTurn(q)
<1>1. followups[q].items \in Seq(Messages)
  BY FollowupFacts, ObjectFacts
<1>2. /\ DOMAIN followups[q].items = 1..Len(followups[q].items)
      /\ Len(followups[q].items) \in Nat
      /\ \A i \in 1..Len(followups[q].items) : followups[q].items[i] \in Messages
  <2> DEFINE s == followups[q].items
  <2>1. s \in Seq(Messages)
    BY <1>1
  <2> HIDE DEF s
  <2>2. /\ DOMAIN s = 1..Len(s) /\ Len(s) \in Nat
        /\ \A i \in 1..Len(s) : s[i] \in Messages
    BY ONLY <2>1, SetOfSeq
  <2> QED
    BY <2>2 DEF s
<1>3. \A m \in Messages : msg'[m] = IF m \in followups[p].run.carries THEN "ran" ELSE msg[m]
  BY DEF RunEnds
<1> SUFFICES ASSUME NEW i \in 1..Len(followups[q].items), NEW j \in 1..Len(followups[q].items),
                    i < j, msg[followups[q].items[j]] = "queued",
                    msg'[followups[q].items[j]] = "ran"
             PROVE  msg'[followups[q].items[i]] = "ran"
  BY <1>2 DEF InTurn
<1>4. followups[q].items[j] \in followups[p].run.carries
  BY <1>2, <1>3
<1>5. p = q
  BY <1>4, FollowupFacts DEF ItemsAreOfOneQueue
<1>6. followups[q].items[i] \in followups[q].run.carries
  BY <1>4, <1>5, FollowupFacts DEF CarriesTheFirst
<1> QED
  BY <1>2, <1>3, <1>5, <1>6

\* The other steps run nothing that was queued.
LEMMA OthersInTurn ==
  ASSUME FollowupIInv, NEW q \in Queues,
         \A m \in Messages : msg[m] = "queued" => msg'[m] # "ran"
  PROVE  InTurn(q)
<1> DEFINE s == followups[q].items
<1>1. s \in Seq(Messages)
  BY FollowupFacts, ObjectFacts
<1> HIDE DEF s
<1>2. \A i \in DOMAIN s : s[i] \in Messages
  BY ONLY <1>1, SetOfSeq
<1> QED
  BY <1>2 DEF InTurn, s

LEMMA EnqueueRunsNothing ==
  ASSUME FollowupIInv, NEW m \in Messages, NEW settings \in Settings,
         EnqueueFollowupRun(m, settings)
  PROVE  \A x \in Messages : msg[x] = "queued" => msg'[x] # "ran"
<1> SUFFICES ASSUME NEW x \in Messages, msg[x] = "queued" PROVE msg'[x] # "ran"
  OBVIOUS
<1>1. PICK k, object, refused :
        \/ msg' = [msg EXCEPT ![m] = IF refused THEN "refused" ELSE "duplicate"]
        \/ Push(m, k, object)
  BY DEF EnqueueFollowupRun
<1>2. CASE msg' = [msg EXCEPT ![m] = IF refused THEN "refused" ELSE "duplicate"]
  <2>1. msg \in [Messages -> Statuses]
    BY DEF FollowupIInv
  <2> QED
    BY <1>2, <2>1
<1>3. CASE Push(m, k, object)
  <2> DEFINE out == ToSet(SubSeq(object.items, 1, Overflow(object)))
  <2>1. msg' = [y \in Messages |->
                  CASE y = m -> "queued"
                    [] y \in out /\ object.drop = "old" -> "dropped"
                    [] OTHER -> msg[y]]
    BY <1>3 DEF Push
  <2> HIDE DEF out
  <2>2. msg'[x] \in {"queued", "dropped", msg[x]}
    <3>1. msg'[x] = CASE x = m -> "queued"
                      [] x \in out /\ object.drop = "old" -> "dropped"
                      [] OTHER -> msg[x]
      BY <2>1
    <3>2. CASE x = m \/ (x \in out /\ object.drop = "old")
      BY <3>1, <3>2
    <3>3. CASE ~(x = m \/ (x \in out /\ object.drop = "old"))
      BY <3>1, <3>3
    <3> QED
      BY <3>2, <3>3
  <2> QED
    BY <2>2
<1> QED
  BY <1>1, <1>2, <1>3

\* A queue only takes messages up to its cap, whichever cap and policy each message brings;
\* and the queued messages run in the order in which they were queued, whatever is dropped,
\* cleared or switched to another mode while one runs (utils/queue-helpers.ts, drain.ts).
THEOREM QueuesKeepOrder == FollowupSpec => FollowupOrder
<1>1. FollowupIInv /\ [FollowupNext]_followupVars =>
        [\A q \in Queues : RoomFor(q) /\ InTurn(q)]_followupVars
  <2> SUFFICES ASSUME FollowupIInv, FollowupNext, NEW q \in Queues
               PROVE  RoomFor(q) /\ InTurn(q)
    OBVIOUS
  <2>0. /\ followups \in [Queues -> QueueObject] /\ msg \in [Messages -> Statuses]
        /\ \A x \in Queues : Len(followups[x].items) \in Nat
    BY FollowupFacts, LengthFacts DEF FollowupIInv
  <2>1. ASSUME Fewer PROVE RoomFor(q)
    <3>1. Len(followups'[q].items) <= Len(followups[q].items)
      BY <2>1 DEF Fewer
    <3>2. followups'[q].items \in Seq(Messages)
      <4>1. FollowupIInv'
        BY FollowupNextInv
      <4> QED
        BY <4>1, ObjectFacts DEF FollowupIInv, Sound
    <3>3. Len(followups'[q].items) \in Nat
      BY <3>2, LenProperties
    <3> QED
      BY <2>0, <3>1, <3>3 DEF RoomFor
  <2>2. ASSUME UNCHANGED msg PROVE InTurn(q)
    BY <2>2, OthersInTurn
  <2>3. CASE \E m \in Messages : Arrive(m)
    <3>1. PICK m \in Messages : Arrive(m)
      BY <2>3
    <3>2. followups' = followups /\ \A x \in Messages : msg[x] = "queued" => msg'[x] # "ran"
      BY <2>0, <3>1 DEF Arrive
    <3>3. Fewer
      BY <2>0, <3>2 DEF Fewer
    <3> QED
      BY <2>1, <3>2, <3>3, OthersInTurn
  <2>4. CASE \E m \in Messages : TurnEnds(m)
    <3>1. PICK m \in Messages : TurnEnds(m)
      BY <2>4
    <3>2. /\ ScheduleFollowupDrain(followups, current)
          /\ \A x \in Messages : msg[x] = "queued" => msg'[x] # "ran"
      BY <2>0, <3>1 DEF TurnEnds
    <3>3. Settled(followups', followups, current, callback') /\ current \in Queues \cup {None}
      BY <3>2, FollowupFacts, ScheduleFacts2
    <3>4. Fewer
      BY <2>0, <3>3, SettledFewer
    <3> QED
      BY <2>1, <3>2, <3>4, OthersInTurn
  <2>5. CASE \E m \in Messages, s \in Settings : EnqueueFollowupRun(m, s)
    BY <2>5, EnqueueHasRoom, EnqueueRunsNothing, OthersInTurn
  <2>6. CASE \E p \in Queues : DebounceEnds(p) \/ Collect(p) \/ RunFails(p)
    <3>1. Fewer /\ UNCHANGED msg
      BY <2>6, DrainFewer DEF DebounceEnds, Collect, RunFails
    <3> QED
      BY <2>1, <2>2, <3>1
  <2>7. CASE \E p \in Queues : RunEnds(p)
    BY <2>1, <2>7, DrainFewer, RunEndsInTurn
  <2>8. CASE ClearSessionQueues
    <3>1. \A x \in Messages : msg[x] = "queued" => msg'[x] # "ran"
      BY <2>0, <2>8 DEF ClearSessionQueues
    <3> QED
      BY <2>1, <2>8, <3>1, ClearFewer, OthersInTurn
  <2> QED
    BY <2>3, <2>4, <2>5, <2>6, <2>7, <2>8 DEF FollowupNext
<1>2. [\A q \in Queues : RoomFor(q) /\ InTurn(q)]_followupVars =>
        /\ [\A q \in Queues : Len(followups'[q].items) > Len(followups[q].items)
              => Len(followups'[q].items) <= followups'[q].cap]_followupVars
        /\ [\A q \in Queues : \A i, j \in DOMAIN followups[q].items :
              /\ i < j
              /\ msg[followups[q].items[j]] = "queued" /\ msg'[followups[q].items[j]] = "ran"
              => msg'[followups[q].items[i]] = "ran"]_followupVars
  BY DEF RoomFor, InTurn
<1> QED
  BY <1>1, <1>2, FollowupIInvHolds, PTL DEF FollowupSpec, FollowupOrder, GrowsWithinCap, RunsInOrder
=============================================================================
