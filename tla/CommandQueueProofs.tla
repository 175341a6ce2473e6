------------------------- MODULE CommandQueueProofs -------------------------
(***************************************************************************)
(* Proofs about CommandQueue, for every set of lanes, every finite set of  *)
(* entries, every set of concurrency values and every bound on the resets. *)
(*                                                                         *)
(* All the operations that start tasks do it through Pump, on queues,      *)
(* active sets, caps, generations and an entry table they have prepared.   *)
(* The conjuncts of the invariant are therefore first stated of such       *)
(* values, and PumpLemma shows once what a pump establishes.               *)
(***************************************************************************)
EXTENDS CommandQueue, FiniteSetTheorems, FunctionTheorems, SequenceTheorems, TLAPS

-----------------------------------------------------------------------------
(* The invariant, as a predicate on values *)

Typed(q, a, m, g, es) ==
  /\ q \in [Lanes -> Seq(Entries)]
  /\ a \in [Lanes -> SUBSET Entries]
  /\ m \in [Lanes -> Nat \ {0}]
  /\ g \in [Lanes -> Nat]
  /\ es \in [Entries -> EntryRecord]

\* The entries in the queues are the ones whose status is "queued".
QueueOK(q, es) ==
  /\ \A l \in Lanes : \A i \in 1..Len(q[l]) :
       es[q[l][i]].st = "queued" /\ es[q[l][i]].lane = l
  /\ \A l \in Lanes : \A i, j \in 1..Len(q[l]) : q[l][i] = q[l][j] => i = j
  /\ \A e \in Entries : es[e].st = "queued" =>
       /\ es[e].lane \in Lanes
       /\ \E i \in 1..Len(q[es[e].lane]) : q[es[e].lane][i] = e

\* The slots are held by the running tasks of the present generation.
SlotsOK(a, g, es) ==
  \A l \in Lanes :
    a[l] = {e \in Entries : /\ es[e].st = "running"
                            /\ es[e].lane = l
                            /\ es[e].gen = g[l]}

\* The lanes of L with a queued entry have no free slot.
BusyOK(L, q, a, m) ==
  \A l \in L : q[l] # <<>> => Cardinality(a[l]) >= m[l]

\* No entry was started in a generation still to come.
GenerationOK(g, es) ==
  \A e \in Entries :
    /\ es[e].lane \in Lanes => es[e].gen <= g[es[e].lane]
    /\ es[e].st = "new" => es[e].gen = 0

\* What a pump of the lanes D needs, and, with no lane in D, what it leaves.
Ready(D, q, a, m, g, es) ==
  /\ Typed(q, a, m, g, es)
  /\ QueueOK(q, es)
  /\ SlotsOK(a, g, es)
  /\ BusyOK(Lanes \ D, q, a, m)
  /\ GenerationOK(g, es)

-----------------------------------------------------------------------------
(* Lemmas about the operators of the pump *)

\* What the pump starts and leaves of one lane: Startable never exceeds the
\* queue, it leaves something only if it fills the cap, and it starts something
\* only within the cap.
LEMMA StartableFacts ==
  ASSUME NEW q \in Seq(Entries), NEW a \in SUBSET Entries, NEW m \in Nat \ {0}
  PROVE  /\ Startable(q, a, m) \in 0..Len(q)
         /\ Startable(q, a, m) < Len(q) =>
              Cardinality(a) + Startable(q, a, m) >= m
         /\ Startable(q, a, m) > 0 => Cardinality(a) + Startable(q, a, m) <= m
<1>1. Cardinality(a) \in Nat
  BY EntriesAssumption, FS_Subset, FS_CardinalityType
<1>2. Len(q) \in Nat
  BY LenProperties
<1> QED
  BY <1>1, <1>2 DEF Startable

\* The first n entries of a queue without repetition are n entries.
LEMMA FirstFacts ==
  ASSUME NEW q \in Seq(Entries), NEW n \in 0..Len(q),
         \A i, j \in 1..Len(q) : q[i] = q[j] => i = j
  PROVE  /\ First(q, n) \in SUBSET Entries
         /\ IsFiniteSet(First(q, n))
         /\ Cardinality(First(q, n)) = n
<1> DEFINE f == [i \in 1..n |-> q[i]]
<1>1. n \in Nat /\ Len(q) \in Nat /\ 1..n \subseteq 1..Len(q)
  BY LenProperties
<1>2. First(q, n) \in SUBSET Entries
  BY <1>1, ElementOfSeq DEF First
<1>3. f \in Bijection(1..n, First(q, n))
  <2>1. f \in [1..n -> First(q, n)]
    BY DEF First
  <2>2. \A i, j \in 1..n : f[i] = f[j] => i = j
    BY <1>1
  <2>3. \A e \in First(q, n) : \E i \in 1..n : f[i] = e
    BY DEF First
  <2> QED
    BY <2>1, <2>2, <2>3, Fun_IsBij
<1>4. ExistsBijection(1..n, First(q, n))
  BY <1>3 DEF ExistsBijection
<1>5. IsFiniteSet(First(q, n)) /\ Cardinality(First(q, n)) = n
  BY <1>1, <1>2, <1>4, FS_CountingElements, FS_Subset, EntriesAssumption
<1> QED
  BY <1>2, <1>5

\* The rest of a queue is the queue shifted by n.
LEMMA RestFacts ==
  ASSUME NEW q \in Seq(Entries), NEW n \in 0..Len(q)
  PROVE  /\ Rest(q, n) \in Seq(Entries)
         /\ Len(Rest(q, n)) = Len(q) - n
         /\ \A i \in 1..(Len(q) - n) : Rest(q, n)[i] = q[i + n]
<1>1. Len(q) \in Nat /\ n \in Nat
  BY LenProperties
<1>2. \A i \in (n + 1)..Len(q) : q[i] \in Entries
  BY <1>1, ElementOfSeq
<1>3. /\ Rest(q, n) \in Seq(Entries)
      /\ Len(Rest(q, n)) = IF n + 1 <= Len(q) THEN Len(q) - (n + 1) + 1 ELSE 0
      /\ \A i \in 1..(Len(q) - (n + 1) + 1) : Rest(q, n)[i] = q[(n + 1) + i - 1]
  BY <1>1, <1>2, SubSeqProperties DEF Rest
<1> QED
  BY <1>1, <1>3

-----------------------------------------------------------------------------
(* What a pump establishes *)

\* Pump as a relation between values, those before and those after.
Pumps(D, q, a, m, g, es, q2, a2, m2, g2, es2) ==
  LET n == [l \in Lanes |->
              IF l \in D THEN Startable(q[l], a[l], m[l]) ELSE 0]
      started == [l \in Lanes |-> First(q[l], n[l])]
  IN  /\ q2 = [l \in Lanes |-> Rest(q[l], n[l])]
      /\ a2 = [l \in Lanes |-> a[l] \cup started[l]]
      /\ m2 = m
      /\ g2 = g
      /\ es2 = [e \in Entries |->
           IF es[e].lane \in Lanes /\ e \in started[es[e].lane]
           THEN [st |-> "running", lane |-> es[e].lane, gen |-> g[es[e].lane]]
           ELSE es[e]]

\* What a pump that leaves active sets a2, caps m2 and the entry table es2 has
\* started of the queues q and the entry table es it was run on.
Starts(es, es2, e) == es[e].st # "running" /\ es2[e].st = "running"

InTurn(q, es, a2, m2, es2) ==
  /\ \A l \in Lanes :
       (\E e \in Entries : Starts(es, es2, e) /\ es2[e].lane = l)
         => Cardinality(a2[l]) <= m2[l]
  /\ \A l \in Lanes : \A i, j \in 1..Len(q[l]) :
       i < j /\ Starts(es, es2, q[l][j]) => es2[q[l][i]].st # "queued"

\* Entry d stands before entry e in the queue s, e stands in it.
Ahead(s, d, e) == \E i, j \in 1..Len(s) : i < j /\ s[i] = d /\ s[j] = e
StandsIn(s, e) == \E i \in 1..Len(s) : s[i] = e

\* What a pump makes of the queues q and the entry table es, in generations g: it
\* starts queued entries and no others, it leaves the others in their order, and
\* it leaves none that stood before one it starts.
Serves(q, g, es, q2, es2) ==
  /\ \A e \in Entries : es[e].st # "queued" => es2[e] = es[e]
  /\ \A e \in Entries : es[e].st = "queued" =>
       /\ es2[e].lane = es[e].lane
       /\ \/ es2[e] = es[e]
          \/ es2[e].st = "running" /\ es2[e].gen = g[es[e].lane]
  /\ \A l \in Lanes : \A d, e \in Entries :
       Ahead(q2[l], d, e) => Ahead(q[l], d, e)
  /\ \A l \in Lanes : \A d, e \in Entries :
       /\ es[d].st = "queued" /\ es[d].lane = l /\ es2[d].st = "running"
       /\ StandsIn(q2[l], e)
       => Ahead(q[l], d, e)

\* A pump of the lanes D restores the invariant: it needs it of the values it is
\* run on, with the claim about free slots only of the lanes outside D.  What it
\* starts, it starts in turn.
LEMMA PumpLemma ==
  ASSUME NEW D \in SUBSET Lanes, NEW q, NEW a, NEW m, NEW g, NEW es,
         NEW q2, NEW a2, NEW m2, NEW g2, NEW es2,
         Ready(D, q, a, m, g, es),
         Pumps(D, q, a, m, g, es, q2, a2, m2, g2, es2)
  PROVE  /\ Ready({}, q2, a2, m2, g2, es2)
         /\ g2 = g
         /\ \A e \in Entries : es[e].st # "queued" => es2[e] = es[e]
         /\ InTurn(q, es, a2, m2, es2)
         /\ Serves(q, g, es, q2, es2)
<1> DEFINE n == [l \in Lanes |->
                   IF l \in D THEN Startable(q[l], a[l], m[l]) ELSE 0]
           started == [l \in Lanes |-> First(q[l], n[l])]
<1>0. /\ Typed(q, a, m, g, es)
      /\ QueueOK(q, es)
      /\ SlotsOK(a, g, es)
      /\ BusyOK(Lanes \ D, q, a, m)
      /\ GenerationOK(g, es)
  BY DEF Ready
<1> USE <1>0 DEF Typed
<1>1. /\ q2 = [l \in Lanes |-> Rest(q[l], n[l])]
      /\ a2 = [l \in Lanes |-> a[l] \cup started[l]]
      /\ m2 = m
      /\ g2 = g
      /\ es2 = [e \in Entries |->
           IF es[e].lane \in Lanes /\ e \in started[es[e].lane]
           THEN [st |-> "running", lane |-> es[e].lane, gen |-> g[es[e].lane]]
           ELSE es[e]]
  BY DEF Pumps
<1>2. \A l \in Lanes : n[l] \in 0..Len(q[l])
  <2> TAKE l \in Lanes
  <2>1. q[l] \in Seq(Entries) /\ a[l] \in SUBSET Entries /\ m[l] \in Nat \ {0}
    OBVIOUS
  <2>2. Len(q[l]) \in Nat
    BY <2>1, LenProperties
  <2>3. Startable(q[l], a[l], m[l]) \in 0..Len(q[l])
    BY <2>1, StartableFacts
  <2> QED
    BY <2>2, <2>3
<1>3. \A l \in Lanes :
        /\ started[l] \in SUBSET Entries
        /\ IsFiniteSet(started[l])
        /\ Cardinality(started[l]) = n[l]
  <2> TAKE l \in Lanes
  <2>1. q[l] \in Seq(Entries) /\ n[l] \in 0..Len(q[l])
    BY <1>2
  <2>2. \A i, j \in 1..Len(q[l]) : q[l][i] = q[l][j] => i = j
    BY DEF QueueOK
  <2>3. started[l] = First(q[l], n[l])
    OBVIOUS
  <2> HIDE DEF n, started
  <2>4. /\ First(q[l], n[l]) \in SUBSET Entries
        /\ IsFiniteSet(First(q[l], n[l]))
        /\ Cardinality(First(q[l], n[l])) = n[l]
    BY ONLY <2>1, <2>2, FirstFacts
  <2> QED
    BY <2>3, <2>4
<1>4. \A l \in Lanes :
        /\ q2[l] \in Seq(Entries)
        /\ Len(q2[l]) = Len(q[l]) - n[l]
        /\ \A i \in 1..(Len(q[l]) - n[l]) : q2[l][i] = q[l][i + n[l]]
  BY <1>1, <1>2, RestFacts
<1> HIDE DEF n
<1>5. \A l \in Lanes, e \in Entries :
        e \in started[l] <=> \E i \in 1..n[l] : q[l][i] = e
  BY <1>2 DEF First
<1> HIDE DEF started
<1>6. \A l \in Lanes, e \in Entries :
        e \in started[l] => es[e].st = "queued" /\ es[e].lane = l
  <2> TAKE l \in Lanes, e \in Entries
  <2> HAVE e \in started[l]
  <2>1. PICK i \in 1..n[l] : q[l][i] = e
    BY <1>5
  <2>2. i \in 1..Len(q[l])
    BY <1>2, LenProperties
  <2> QED
    BY <2>1, <2>2 DEF QueueOK
<1>7. \A e \in Entries :
        /\ es2[e].lane = es[e].lane
        /\ es[e].lane \in Lanes /\ e \in started[es[e].lane] =>
             /\ es2[e].st = "running"
             /\ es2[e].gen = g[es[e].lane]
        /\ ~(es[e].lane \in Lanes /\ e \in started[es[e].lane]) =>
             es2[e] = es[e]
        /\ es2[e] \in EntryRecord
  <2> TAKE e \in Entries
  <2>1. es[e] \in EntryRecord
    OBVIOUS
  <2>2. CASE es[e].lane \in Lanes /\ e \in started[es[e].lane]
    <3>1. es2[e] = [st |-> "running", lane |-> es[e].lane, gen |-> g[es[e].lane]]
      BY <1>1, <2>2
    <3>2. g[es[e].lane] \in Nat
      BY <2>2
    <3> QED
      BY <2>1, <2>2, <3>1, <3>2 DEF EntryRecord, Statuses
  <2>3. CASE ~(es[e].lane \in Lanes /\ e \in started[es[e].lane])
    BY <1>1, <2>1, <2>3
  <2> QED
    BY <2>2, <2>3
<1>8. Typed(q2, a2, m2, g2, es2)
  <2>1. q2 \in [Lanes -> Seq(Entries)]
    BY <1>1, <1>4
  <2>2. a2 \in [Lanes -> SUBSET Entries]
    BY <1>1, <1>3
  <2>3. es2 \in [Entries -> EntryRecord]
    BY <1>1, <1>7
  <2> QED
    BY <1>1, <2>1, <2>2, <2>3
<1>9. QueueOK(q2, es2)
  <2>1. ASSUME NEW l \in Lanes, NEW i \in 1..Len(q2[l])
        PROVE  /\ i + n[l] \in 1..Len(q[l])
               /\ q2[l][i] = q[l][i + n[l]]
               /\ q2[l][i] \in Entries
               /\ q2[l][i] \notin started[l]
    <3>1. Len(q[l]) \in Nat /\ n[l] \in Nat
      BY <1>2, LenProperties
    <3>a. Len(q2[l]) = Len(q[l]) - n[l]
      BY <1>4
    <3>b. \A k \in 1..(Len(q[l]) - n[l]) : q2[l][k] = q[l][k + n[l]]
      BY <1>4
    <3>c. i \in 1..(Len(q[l]) - n[l])
      BY <3>a
    <3>d. i + n[l] \in 1..Len(q[l])
      BY <3>1, <3>c
    <3>e. q2[l][i] = q[l][i + n[l]]
      BY <3>b, <3>c
    <3>2. i + n[l] \in 1..Len(q[l]) /\ q2[l][i] = q[l][i + n[l]]
      BY <3>d, <3>e
    <3>3. q[l][i + n[l]] \in Entries
      BY <3>2, ElementOfSeq
    <3>4. \A j \in 1..n[l] : q[l][j] # q[l][i + n[l]]
      BY <1>2, <3>1, <3>2 DEF QueueOK
    <3> QED
      BY <1>5, <3>2, <3>3, <3>4
  <2>2. ASSUME NEW l \in Lanes, NEW i \in 1..Len(q2[l])
        PROVE  es2[q2[l][i]].st = "queued" /\ es2[q2[l][i]].lane = l
    <3>1. i + n[l] \in 1..Len(q[l]) /\ q2[l][i] = q[l][i + n[l]]
      BY <2>1
    <3>2. es[q[l][i + n[l]]].st = "queued" /\ es[q[l][i + n[l]]].lane = l
      BY <3>1 DEF QueueOK
    <3>3. q2[l][i] \in Entries /\ q2[l][i] \notin started[l]
      BY <2>1
    <3> QED
      BY <1>7, <3>1, <3>2, <3>3
  <2>3. ASSUME NEW l \in Lanes, NEW i \in 1..Len(q2[l]),
               NEW j \in 1..Len(q2[l]), q2[l][i] = q2[l][j]
        PROVE  i = j
    <3>1. i + n[l] \in 1..Len(q[l]) /\ q2[l][i] = q[l][i + n[l]]
      BY <2>1
    <3>2. j + n[l] \in 1..Len(q[l]) /\ q2[l][j] = q[l][j + n[l]]
      BY <2>1
    <3>3. q[l][i + n[l]] = q[l][j + n[l]]
      BY <2>3, <3>1, <3>2
    <3>4. i + n[l] = j + n[l]
      BY <3>1, <3>2, <3>3 DEF QueueOK
    <3> QED
      BY <1>2, <1>4, <3>4, LenProperties
  <2>4. ASSUME NEW e \in Entries, es2[e].st = "queued"
        PROVE  /\ es2[e].lane \in Lanes
               /\ \E i \in 1..Len(q2[es2[e].lane]) :
                    q2[es2[e].lane][i] = e
    <3>1. es2[e] = es[e] /\ es[e].st = "queued"
      BY <1>7, <2>4
    <3>2. es[e].lane \in Lanes
      BY <3>1 DEF QueueOK
    <3>3. PICK k \in 1..Len(q[es[e].lane]) : q[es[e].lane][k] = e
      BY <3>1 DEF QueueOK
    <3>4. k \notin 1..n[es[e].lane]
      BY <1>5, <1>7, <2>4, <3>2, <3>3
    <3>5. /\ Len(q[es[e].lane]) \in Nat /\ n[es[e].lane] \in Nat
          /\ k \in Nat
      BY <1>2, <3>2, LenProperties
    <3>6. /\ k - n[es[e].lane] \in 1..(Len(q[es[e].lane]) - n[es[e].lane])
          /\ k - n[es[e].lane] + n[es[e].lane] = k
      BY <3>3, <3>4, <3>5
    <3>7. q2[es[e].lane][k - n[es[e].lane]] = e
      BY <1>4, <3>2, <3>3, <3>6
    <3> QED
      BY <1>4, <3>1, <3>2, <3>6, <3>7
  <2> QED
    BY <2>2, <2>3, <2>4 DEF QueueOK
<1>10. SlotsOK(a2, g2, es2)
  <2> SUFFICES ASSUME NEW l \in Lanes, NEW e \in Entries
               PROVE  e \in a2[l] <=> /\ es2[e].st = "running"
                                            /\ es2[e].lane = l
                                            /\ es2[e].gen = g2[l]
    BY <1>8 DEF SlotsOK
  <2>1. e \in a2[l] <=> e \in a[l] \/ e \in started[l]
    BY <1>1
  <2>2. e \in a[l] <=> es[e].st = "running" /\ es[e].lane = l /\ es[e].gen = g[l]
    BY DEF SlotsOK
  <2>3. CASE e \in started[l]
    BY <1>1, <1>6, <1>7, <2>1, <2>3
  <2>4. CASE e \notin started[l]
    BY <1>1, <1>6, <1>7, <2>1, <2>2, <2>4
  <2> QED
    BY <2>3, <2>4
<1>11. BusyOK(Lanes \ {}, q2, a2, m2)
  <2> SUFFICES ASSUME NEW l \in Lanes, q2[l] # <<>>
               PROVE  Cardinality(a2[l]) >= m[l]
    BY <1>1 DEF BusyOK
  <2>1. a2[l] = a[l] \cup started[l]
    BY <1>1
  <2>2. IsFiniteSet(a[l]) /\ Cardinality(a[l]) \in Nat
    BY EntriesAssumption, FS_Subset, FS_CardinalityType
  <2>3. a[l] \cap started[l] = {}
    BY <1>3, <1>6 DEF SlotsOK
  <2>4. Cardinality(a2[l]) = Cardinality(a[l]) + n[l]
    <3>1. Cardinality(a[l] \cap started[l]) = 0
      BY <2>3, FS_EmptySet
    <3>2. n[l] \in Nat
      BY <1>2, LenProperties
    <3>3. /\ IsFiniteSet(started[l])
          /\ Cardinality(started[l]) = n[l]
      BY <1>3
    <3>4. Cardinality(a[l] \cup started[l]) =
            Cardinality(a[l]) + Cardinality(started[l])
              - Cardinality(a[l] \cap started[l])
      BY <2>2, <3>3, FS_Union, ZenonT(20)
    <3>5. Cardinality(a2[l]) = Cardinality(a[l]) + n[l] - 0
      BY <2>1, <3>1, <3>3, <3>4
    <3> QED
      BY <2>2, <3>2, <3>5
  <2>5. Len(q[l]) \in Nat /\ n[l] < Len(q[l])
    BY <1>2, <1>4, EmptySeq, LenProperties
  <2>6. CASE l \in D
    <3>1. n[l] = Startable(q[l], a[l], m[l])
      BY <2>6 DEF n
    <3> QED
      BY <2>4, <2>5, <3>1, StartableFacts
  <2>7. CASE l \notin D
    <3>1. n[l] = 0
      BY <2>7 DEF n
    <3>2. q[l] # <<>>
      BY <2>5, <3>1, EmptySeq
    <3>3. Cardinality(a[l]) >= m[l]
      BY <2>7, <3>2 DEF BusyOK
    <3> QED
      BY <2>2, <2>4, <3>1, <3>3
  <2> QED
    BY <2>6, <2>7
<1>12. GenerationOK(g2, es2)
  <2> SUFFICES ASSUME NEW e \in Entries, es[e].lane \in Lanes
               PROVE  es2[e].gen <= g[es[e].lane]
    BY <1>1, <1>6, <1>7 DEF GenerationOK
  <2>1. g[es[e].lane] \in Nat /\ es[e].gen <= g[es[e].lane]
    BY DEF GenerationOK
  <2>2. CASE e \in started[es[e].lane]
    BY <1>7, <2>1, <2>2
  <2>3. CASE e \notin started[es[e].lane]
    BY <1>7, <2>1, <2>3
  <2> QED
    BY <2>2, <2>3
<1>13. \A e \in Entries : es[e].st # "queued" => es2[e] = es[e]
  BY <1>6, <1>7
<1>14. \A e \in Entries : Starts(es, es2, e) =>
         es[e].lane \in Lanes /\ e \in started[es[e].lane]
  BY <1>7 DEF Starts
<1>15. ASSUME NEW l \in Lanes, NEW e \in Entries, Starts(es, es2, e), es2[e].lane = l
       PROVE  Cardinality(a2[l]) <= m2[l]
  <2>1. e \in started[l]
    BY <1>7, <1>14, <1>15
  <2>2. PICK i \in 1..n[l] : q[l][i] = e
    BY <1>5, <2>1
  <2>3. n[l] \in Nat /\ n[l] > 0
    BY <1>2, <2>2, LenProperties
  <2>4. l \in D /\ n[l] = Startable(q[l], a[l], m[l])
    BY <2>3 DEF n
  <2>5. q[l] \in Seq(Entries) /\ a[l] \in SUBSET Entries /\ m[l] \in Nat \ {0}
    OBVIOUS
  <2>6. Cardinality(a[l]) + n[l] <= m[l]
    BY <2>3, <2>4, <2>5, StartableFacts
  <2>7. IsFiniteSet(a[l]) /\ Cardinality(a[l]) \in Nat
    BY <2>5, EntriesAssumption, FS_Subset, FS_CardinalityType
  <2>8. IsFiniteSet(started[l]) /\ Cardinality(started[l]) = n[l]
    BY <1>3
  <2>9. a[l] \cap started[l] = {}
    BY <1>3, <1>6 DEF SlotsOK
  <2>10. Cardinality(a[l] \cap started[l]) = 0
    BY <2>9, FS_EmptySet
  <2>11. Cardinality(a[l] \cup started[l]) =
           Cardinality(a[l]) + Cardinality(started[l]) - Cardinality(a[l] \cap started[l])
    BY <2>7, <2>8, FS_Union, ZenonT(20)
  <2>12. a2[l] = a[l] \cup started[l] /\ m2[l] = m[l]
    BY <1>1
  <2> QED
    BY <2>3, <2>6, <2>7, <2>8, <2>10, <2>11, <2>12
<1>16. ASSUME NEW l \in Lanes, NEW i \in 1..Len(q[l]), NEW j \in 1..Len(q[l]),
              i < j, Starts(es, es2, q[l][j])
       PROVE  es2[q[l][i]].st # "queued"
  <2>1. Len(q[l]) \in Nat /\ n[l] \in Nat
    BY <1>2, LenProperties
  <2>2. q[l][i] \in Entries /\ q[l][j] \in Entries
    BY ElementOfSeq
  <2>3. es[q[l][i]].lane = l /\ es[q[l][j]].lane = l
    BY DEF QueueOK
  <2>4. q[l][j] \in started[l]
    BY <1>14, <1>16, <2>2, <2>3
  <2>5. PICK k \in 1..n[l] : q[l][k] = q[l][j]
    BY <1>5, <2>2, <2>4
  <2>6. k \in 1..Len(q[l])
    BY <1>2, <2>1
  <2>7. k = j
    BY <2>5, <2>6 DEF QueueOK
  <2>8. i \in 1..n[l]
    BY <1>16, <2>1, <2>7
  <2>9. q[l][i] \in started[l]
    BY <1>5, <2>2, <2>8
  <2> QED
    BY <1>7, <2>2, <2>3, <2>9
<1>17. InTurn(q, es, a2, m2, es2)
  BY <1>15, <1>16 DEF InTurn
<1>18. ASSUME NEW l \in Lanes, NEW i \in 1..Len(q2[l])
       PROVE  i + n[l] \in 1..Len(q[l]) /\ q2[l][i] = q[l][i + n[l]]
  <2>1. Len(q[l]) \in Nat /\ n[l] \in 0..Len(q[l])
    BY <1>2, LenProperties
  <2>2. i \in 1..(Len(q[l]) - n[l])
    BY <1>4
  <2> QED
    BY <1>4, <2>1, <2>2
<1>19. ASSUME NEW l \in Lanes, NEW d \in Entries, NEW e \in Entries,
              Ahead(q2[l], d, e)
       PROVE  Ahead(q[l], d, e)
  <2>1. PICK i, j \in 1..Len(q2[l]) : i < j /\ q2[l][i] = d /\ q2[l][j] = e
    BY <1>19 DEF Ahead
  <2>2. /\ i + n[l] \in 1..Len(q[l]) /\ q[l][i + n[l]] = d
        /\ j + n[l] \in 1..Len(q[l]) /\ q[l][j + n[l]] = e
    BY <1>18, <2>1
  <2>3. n[l] \in Nat
    BY <1>2, LenProperties
  <2>4. i + n[l] < j + n[l]
    BY <2>1, <2>3
  <2> QED
    BY <2>2, <2>4 DEF Ahead
<1>20. ASSUME NEW l \in Lanes, NEW d \in Entries, NEW e \in Entries,
              es[d].st = "queued", es[d].lane = l, es2[d].st = "running",
              StandsIn(q2[l], e)
       PROVE  Ahead(q[l], d, e)
  <2>1. d \in started[l]
    BY <1>14, <1>20 DEF Starts
  <2>2. PICK i \in 1..n[l] : q[l][i] = d
    BY <1>5, <2>1
  <2>3. PICK j \in 1..Len(q2[l]) : q2[l][j] = e
    BY <1>20 DEF StandsIn
  <2>4. j + n[l] \in 1..Len(q[l]) /\ q[l][j + n[l]] = e
    BY <1>18, <2>3
  <2>5. Len(q[l]) \in Nat /\ n[l] \in 0..Len(q[l])
    BY <1>2, LenProperties
  <2>6. i \in 1..Len(q[l]) /\ i < j + n[l]
    BY <2>2, <2>3, <2>4, <2>5
  <2> QED
    BY <2>2, <2>4, <2>6 DEF Ahead
<1>21. ASSUME NEW e \in Entries, es[e].st = "queued"
       PROVE  /\ es2[e].lane = es[e].lane
              /\ \/ es2[e] = es[e]
                 \/ es2[e].st = "running" /\ es2[e].gen = g[es[e].lane]
  BY <1>7
<1>22. Serves(q, g, es, q2, es2)
  BY <1>13, <1>19, <1>20, <1>21 DEF Serves
<1> QED
  BY <1>1, <1>8, <1>9, <1>10, <1>11, <1>12, <1>13, <1>17, <1>22 DEF Ready

-----------------------------------------------------------------------------
(* The inductive invariant *)

\* What the wait of waitForActiveTasks has seen.  While it waits, its tasks have
\* started; when it has reported "drained", each has settled or was disowned.
WaiterOK ==
  /\ waiter \in WaiterRecord
  /\ waiter.st = "waiting" => \A e \in waiter.tasks :
       entry[e].lane \in Lanes /\ entry[e].st \in {"running", "done"}
  /\ waiter.st = "drained" => \A e \in waiter.tasks :
       \/ entry[e].st = "done"
       \/ /\ entry[e].st = "running"
          /\ entry[e].lane \in Lanes
          /\ entry[e].gen < generation[entry[e].lane]

QueueInv == Ready({}, queue, active, maxConcurrent, generation, entry)

IInv ==
  /\ gatewayDraining \in BOOLEAN
  /\ QueueInv
  /\ WaiterOK

\* What no step undoes: a started entry keeps its lane and its generation and
\* can only settle, a settled one stays settled, generations only grow.
Progress ==
  /\ \A e \in Entries :
       /\ entry[e].st = "done" =>
            entry'[e].st = "done" /\ entry'[e].lane = entry[e].lane
       /\ entry[e].st = "running" =>
            /\ entry'[e].st \in {"running", "done"}
            /\ entry'[e].lane = entry[e].lane
            /\ entry'[e].gen = entry[e].gen
  /\ \A l \in Lanes : generation[l] <= generation'[l]

\* The step starts entries in turn.
TurnStep == InTurn(queue, entry, active', maxConcurrent', entry')

LEMMA InitInv == Init => IInv
<1> SUFFICES ASSUME Init PROVE IInv
  OBVIOUS
<1> USE DEF Init
<1>1. \A l \in Lanes : queue[l] = <<>> /\ Len(queue[l]) = 0
  BY EmptySeq
<1>2. Typed(queue, active, maxConcurrent, generation, entry)
  BY EmptySeq DEF Typed, EntryRecord, Statuses, NoLane
<1>3. QueueOK(queue, entry)
  BY <1>1 DEF QueueOK
<1>4. SlotsOK(active, generation, entry)
  BY DEF SlotsOK
<1>5. BusyOK(Lanes \ {}, queue, active, maxConcurrent)
  BY <1>1 DEF BusyOK
<1>6. GenerationOK(generation, entry)
  BY DEF GenerationOK
<1>7. WaiterOK
  BY DEF WaiterOK, WaiterRecord
<1> QED
  BY <1>2, <1>3, <1>4, <1>5, <1>6, <1>7 DEF IInv, QueueInv, Ready

\* The wait's part follows from Progress for every step that leaves it alone.
LEMMA WaiterStep ==
  ASSUME QueueInv, WaiterOK, Progress, waiter' = waiter,
         Typed(queue', active', maxConcurrent', generation', entry')
  PROVE  WaiterOK'
<1>1. waiter.tasks \in SUBSET Entries
  BY DEF WaiterOK, WaiterRecord
<1>2. ASSUME waiter.st = "waiting", NEW e \in waiter.tasks
      PROVE  entry'[e].lane \in Lanes /\ entry'[e].st \in {"running", "done"}
  BY <1>1, <1>2 DEF WaiterOK, Progress
<1>3. ASSUME waiter.st = "drained", NEW e \in waiter.tasks
      PROVE  \/ entry'[e].st = "done"
             \/ /\ entry'[e].st = "running"
                /\ entry'[e].lane \in Lanes
                /\ entry'[e].gen < generation'[entry'[e].lane]
  <2>1. e \in Entries
    BY <1>1
  <2>2. CASE entry[e].st = "done"
    BY <2>1, <2>2 DEF Progress
  <2>3. CASE entry[e].st # "done"
    <3>1. /\ entry[e].st = "running"
          /\ entry[e].lane \in Lanes
          /\ entry[e].gen < generation[entry[e].lane]
      BY <1>3, <2>3 DEF WaiterOK
    <3>2. /\ entry'[e].st \in {"running", "done"}
          /\ entry'[e].lane = entry[e].lane
          /\ entry'[e].gen = entry[e].gen
      BY <2>1, <3>1 DEF Progress
    <3>3. generation[entry[e].lane] <= generation'[entry[e].lane]
      BY <3>1 DEF Progress
    <3>4. /\ generation[entry[e].lane] \in Nat
          /\ generation'[entry[e].lane] \in Nat
          /\ entry[e].gen \in Nat
      BY <2>1, <3>1 DEF QueueInv, Ready, Typed, EntryRecord
    <3> QED
      BY <3>1, <3>2, <3>3, <3>4
  <2> QED
    BY <2>2, <2>3
<1> QED
  BY <1>2, <1>3 DEF WaiterOK

\* A step that starts nothing starts nothing out of turn.
LEMMA NothingStarts ==
  ASSUME QueueInv,
         \A e \in Entries : entry[e].st # "running" => entry'[e].st # "running"
  PROVE  TurnStep
<1>1. \A l \in Lanes : \A i \in 1..Len(queue[l]) : queue[l][i] \in Entries
  BY ElementOfSeq DEF QueueInv, Ready, Typed
<1> QED
  BY <1>1 DEF TurnStep, InTurn, Starts

-----------------------------------------------------------------------------
(* One lemma per operation that pumps or rearranges a lane *)

\* The queues and the entry table that entry e on lane l leaves for the pump.
Appended(l, e) == [queue EXCEPT ![l] = Append(@, e)]

Prepared(l, e, q, es) ==
  /\ Pumps({l}, q, active, maxConcurrent, generation, es,
           queue', active', maxConcurrent', generation', entry')
  /\ Ready({l}, q, active, maxConcurrent, generation, es)
  /\ \A k \in Lanes : k # l => q[k] = queue[k]
  /\ Len(queue[l]) \in Nat /\ Len(q[l]) = Len(queue[l]) + 1
  /\ \A i \in 1..Len(queue[l]) : q[l][i] = queue[l][i]
  /\ q[l][Len(queue[l]) + 1] = e
  /\ \A f \in Entries : f # e => es[f] = entry[f]
  /\ es[e].st = "queued" /\ es[e].lane = l /\ es[e].gen = entry[e].gen
  /\ entry[e].st = "new"
  /\ \A k \in Lanes : \A i \in 1..Len(queue[k]) :
       queue[k][i] \in Entries /\ queue[k][i] # e

LEMMA EnqueueReady ==
  ASSUME QueueInv, NEW l \in Lanes, NEW e \in Entries, EnqueueCommandInLane(l, e),
         ~gatewayDraining
  PROVE  Prepared(l, e, Appended(l, e), Pushed(l, e))
<1> DEFINE q == Appended(l, e)
           es == Pushed(l, e)
<1> USE DEF QueueInv, Ready
<1>a. entry \in [Entries -> EntryRecord] /\ generation \in [Lanes -> Nat]
  BY DEF Typed
<1>b. entry[e].st = "new"
  BY DEF EnqueueCommandInLane
<1>1. Pumps({l}, q, active, maxConcurrent, generation, es,
            queue', active', maxConcurrent', generation', entry')
  BY DEF EnqueueCommandInLane, Pump, Pumps, Appended
<1>2. /\ queue \in [Lanes -> Seq(Entries)]
      /\ queue[l] \in Seq(Entries)
      /\ Len(queue[l]) \in Nat
  BY LenProperties DEF Typed
<1>3. /\ q \in [Lanes -> Seq(Entries)]
      /\ \A k \in Lanes : k # l => q[k] = queue[k]
      /\ Len(q[l]) = Len(queue[l]) + 1
      /\ \A i \in 1..Len(queue[l]) : q[l][i] = queue[l][i]
      /\ q[l][Len(queue[l]) + 1] = e
  BY <1>2, AppendProperties DEF Appended
<1>4. /\ es \in [Entries -> EntryRecord]
      /\ \A f \in Entries : f # e => es[f] = entry[f]
      /\ es[e].st = "queued" /\ es[e].lane = l /\ es[e].gen = entry[e].gen
  BY <1>a DEF Pushed, EntryRecord, Statuses
<1> HIDE DEF q, es
<1>5. Typed(q, active, maxConcurrent, generation, es)
  BY <1>3, <1>4 DEF Typed
<1>6. \A k \in Lanes : \A i \in 1..Len(queue[k]) :
        queue[k][i] \in Entries /\ queue[k][i] # e
  BY <1>b, ElementOfSeq DEF Typed, QueueOK
<1>7. QueueOK(q, es)
  <2>1. ASSUME NEW k \in Lanes, NEW i \in 1..Len(q[k])
        PROVE  /\ es[q[k][i]].st = "queued"
               /\ es[q[k][i]].lane = k
    <3>1. CASE k = l /\ i = Len(queue[l]) + 1
      BY <1>3, <1>4, <3>1
    <3>2. CASE ~(k = l /\ i = Len(queue[l]) + 1)
      <4>1. i \in 1..Len(queue[k]) /\ q[k][i] = queue[k][i]
        BY <1>2, <1>3, <3>2
      <4> QED
        BY <1>4, <1>6, <4>1 DEF QueueOK
    <3> QED
      BY <3>1, <3>2
  <2>2. ASSUME NEW k \in Lanes, NEW i \in 1..Len(q[k]), NEW j \in 1..Len(q[k]),
               q[k][i] = q[k][j]
        PROVE  i = j
    <3>1. CASE k # l
      BY <1>3, <2>2, <3>1 DEF QueueOK
    <3>2. CASE k = l
      <4>1. CASE i \in 1..Len(queue[l]) /\ j \in 1..Len(queue[l])
        BY <1>3, <2>2, <3>2, <4>1 DEF QueueOK
      <4>2. CASE i \notin 1..Len(queue[l])
        <5>1. i = Len(queue[l]) + 1 /\ q[l][i] = e
          BY <1>2, <1>3, <3>2, <4>2
        <5> QED
          BY <1>2, <1>3, <1>6, <2>2, <3>2, <5>1
      <4>3. CASE j \notin 1..Len(queue[l])
        <5>1. j = Len(queue[l]) + 1 /\ q[l][j] = e
          BY <1>2, <1>3, <3>2, <4>3
        <5> QED
          BY <1>2, <1>3, <1>6, <2>2, <3>2, <5>1
      <4> QED
        BY <4>1, <4>2, <4>3
    <3> QED
      BY <3>1, <3>2
  <2>3. ASSUME NEW f \in Entries, es[f].st = "queued"
        PROVE  /\ es[f].lane \in Lanes
               /\ \E i \in 1..Len(q[es[f].lane]) : q[es[f].lane][i] = f
    <3>1. CASE f = e
      BY <1>2, <1>3, <1>4, <3>1
    <3>2. CASE f # e
      <4>1. /\ es[f].lane = entry[f].lane
            /\ entry[f].lane \in Lanes
            /\ \E i \in 1..Len(queue[entry[f].lane]) :
                 queue[entry[f].lane][i] = f
        BY <1>4, <2>3, <3>2 DEF QueueOK
      <4>2. PICK i \in 1..Len(queue[entry[f].lane]) :
              queue[entry[f].lane][i] = f
        BY <4>1
      <4>3. i \in 1..Len(q[entry[f].lane]) /\ q[entry[f].lane][i] = f
        <5>1. CASE entry[f].lane = l
          BY <1>2, <1>3, <4>2, <5>1
        <5>2. CASE entry[f].lane # l
          BY <1>3, <4>1, <4>2, <5>2
        <5> QED
          BY <5>1, <5>2
      <4> QED
        BY <4>1, <4>3
    <3> QED
      BY <3>1, <3>2
  <2> QED
    BY <2>1, <2>2, <2>3 DEF QueueOK
<1>8. SlotsOK(active, generation, es)
  BY <1>b, <1>4 DEF SlotsOK
<1>9. BusyOK(Lanes \ {l}, q, active, maxConcurrent)
  BY <1>3 DEF BusyOK
<1>10. GenerationOK(generation, es)
  <2> SUFFICES ASSUME NEW f \in Entries, es[f].lane \in Lanes
               PROVE  es[f].gen <= generation[es[f].lane]
    BY <1>4 DEF GenerationOK
  <2>1. CASE f # e
    BY <1>4, <2>1 DEF GenerationOK
  <2>2. CASE f = e
    BY <1>a, <1>b, <1>4, <2>2 DEF GenerationOK
  <2> QED
    BY <2>1, <2>2
<1>11. Ready({l}, q, active, maxConcurrent, generation, es)
  BY <1>5, <1>7, <1>8, <1>9, <1>10
<1> QED
  BY <1>1, <1>2, <1>3, <1>4, <1>6, <1>11, <1>b DEF Prepared, q, es

LEMMA EnqueueStep ==
  ASSUME QueueInv, NEW l \in Lanes, NEW e \in Entries, EnqueueCommandInLane(l, e)
  PROVE  /\ QueueInv' /\ Progress /\ TurnStep
         /\ ~gatewayDraining =>
              Serves(Appended(l, e), generation', Pushed(l, e), queue', entry')
<1> USE DEF QueueInv, Ready
<1>1. entry \in [Entries -> EntryRecord] /\ generation \in [Lanes -> Nat]
  BY DEF Typed
<1>2. entry[e].st = "new"
  BY DEF EnqueueCommandInLane
<1>3. CASE gatewayDraining
  <2>1. entry' = [entry EXCEPT ![e].st = "refused"] /\ UNCHANGED laneVars
    BY <1>3 DEF EnqueueCommandInLane
  <2>2. Typed(queue', active', maxConcurrent', generation', entry')
    BY <1>1, <2>1 DEF Typed, EntryRecord, Statuses, Settled, laneVars
  <2>3. \A f \in Entries : f # e => entry'[f] = entry[f]
    BY <1>1, <2>1
  <2>4. entry'[e].st = "refused" /\ entry'[e].lane = entry[e].lane
          /\ entry'[e].gen = entry[e].gen
    BY <1>1, <2>1 DEF EntryRecord
  <2>5. QueueOK(queue', entry')
    <3>1. \A k \in Lanes : \A i \in 1..Len(queue[k]) :
            queue[k][i] \in Entries /\ queue[k][i] # e
      BY <1>2, ElementOfSeq DEF Typed, QueueOK
    <3> QED
      BY <2>1, <2>3, <2>4, <3>1 DEF QueueOK, laneVars
  <2>6. SlotsOK(active', generation', entry')
    BY <1>2, <2>1, <2>3, <2>4 DEF SlotsOK, laneVars
  <2>7. BusyOK(Lanes \ {}, queue', active', maxConcurrent')
    BY <2>1 DEF BusyOK, laneVars
  <2>8. GenerationOK(generation', entry')
    BY <2>1, <2>3, <2>4 DEF GenerationOK, laneVars
  <2>9. Progress
    BY <1>1, <1>2, <2>1, <2>3 DEF Progress, laneVars
  <2>10. TurnStep
    BY <2>3, <2>4, NothingStarts
  <2> QED
    BY <1>3, <2>2, <2>5, <2>6, <2>7, <2>8, <2>9, <2>10
<1>4. CASE ~gatewayDraining
  <2> DEFINE q == Appended(l, e)
             es == Pushed(l, e)
  <2> HIDE DEF QueueInv, Ready
  <2>0. Prepared(l, e, q, es)
    BY <1>4, EnqueueReady
  <2> HIDE DEF q, es
  <2>1. /\ Pumps({l}, q, active, maxConcurrent, generation, es,
                 queue', active', maxConcurrent', generation', entry')
        /\ Ready({l}, q, active, maxConcurrent, generation, es)
        /\ \A k \in Lanes : k # l => q[k] = queue[k]
        /\ Len(queue[l]) \in Nat /\ Len(q[l]) = Len(queue[l]) + 1
        /\ \A i \in 1..Len(queue[l]) : q[l][i] = queue[l][i]
        /\ \A f \in Entries : f # e => es[f] = entry[f]
        /\ es[e].st = "queued" /\ es[e].lane = l /\ es[e].gen = entry[e].gen
        /\ \A k \in Lanes : \A i \in 1..Len(queue[k]) :
             queue[k][i] \in Entries /\ queue[k][i] # e
    BY <2>0 DEF Prepared
  <2>12. {l} \in SUBSET Lanes
    OBVIOUS
  <2>13. /\ Ready({}, queue', active', maxConcurrent', generation', entry')
         /\ generation' = generation
         /\ \A f \in Entries : es[f].st # "queued" => entry'[f] = es[f]
         /\ InTurn(q, es, active', maxConcurrent', entry')
         /\ Serves(q, generation, es, queue', entry')
    <3> HIDE DEF Ready
    <3> QED
      BY <2>1, <2>12, PumpLemma
  <2>14. Progress
    BY <1>1, <1>2, <2>1, <2>13 DEF Progress
  <2>15. \A f \in Entries : entry[f].st # "running" => es[f].st # "running"
    BY <2>1
  <2>16. \A k \in Lanes : \A i \in 1..Len(queue[k]) :
           i \in 1..Len(q[k]) /\ q[k][i] = queue[k][i] /\ queue[k][i] \in Entries
    <3> TAKE k \in Lanes
    <3> TAKE i \in 1..Len(queue[k])
    <3>1. CASE k = l
      BY <2>1, <3>1
    <3>2. CASE k # l
      BY <2>1, <3>2
    <3> QED
      BY <3>1, <3>2
  <2>17. TurnStep
    BY <2>13, <2>15, <2>16 DEF TurnStep, InTurn, Starts
  <2> QED
    BY <2>13, <2>14, <2>17 DEF QueueInv, q, es
<1> QED
  BY <1>3, <1>4

\* The entry table after the task of entry e has settled.
Ended(e) == [entry EXCEPT ![e].st = "done"]

Ends(e, es) ==
  /\ es \in [Entries -> EntryRecord]
  /\ \A f \in Entries : f # e => es[f] = entry[f]
  /\ es[e].st = "done" /\ es[e].lane = entry[e].lane /\ es[e].gen = entry[e].gen
  /\ entry[e].st = "running"
  /\ QueueOK(queue, es)
  /\ \A k \in Lanes : \A i \in 1..Len(queue[k]) :
       queue[k][i] \in Entries /\ queue[k][i] # e

LEMMA SettleReady ==
  ASSUME QueueInv, NEW e \in Entries, Settle(e)
  PROVE  Ends(e, Ended(e))
<1> DEFINE l  == entry[e].lane
           es == Ended(e)
<1>1. entry \in [Entries -> EntryRecord] /\ generation \in [Lanes -> Nat]
  BY DEF QueueInv, Ready, Typed
<1>2. entry[e].st = "running"
  BY DEF Settle
<1>3. /\ es \in [Entries -> EntryRecord]
      /\ \A f \in Entries : f # e => es[f] = entry[f]
      /\ es[e].st = "done" /\ es[e].lane = l /\ es[e].gen = entry[e].gen
  BY <1>1 DEF Ended, EntryRecord, Statuses, Settled
<1>4. queue \in [Lanes -> Seq(Entries)] /\ QueueOK(queue, entry)
  BY DEF QueueInv, Ready, Typed
<1>5. /\ entry[e].st # "queued"
      /\ es[e].st # "queued"
      /\ \A f \in Entries : f # e => es[f] = entry[f]
  BY <1>2, <1>3
<1>6. \A k \in Lanes : \A i \in 1..Len(queue[k]) :
        queue[k][i] \in Entries /\ queue[k][i] # e
  BY <1>4, <1>5, ElementOfSeq DEF QueueOK
<1> HIDE DEF es
<1>7. QueueOK(queue, es)
  BY <1>4, <1>5, <1>6 DEF QueueOK
<1> QED
  BY <1>2, <1>3, <1>6, <1>7 DEF Ends, es

LEMMA SettleStep ==
  ASSUME QueueInv, NEW e \in Entries, Settle(e)
  PROVE  /\ QueueInv' /\ Progress /\ TurnStep
         /\ Serves(queue, generation', Ended(e), queue', entry')
<1> DEFINE l  == entry[e].lane
           es == Ended(e)
<1>1. entry \in [Entries -> EntryRecord] /\ generation \in [Lanes -> Nat]
  BY DEF QueueInv, Ready, Typed
<1>0. Ends(e, es)
  BY SettleReady
<1>2. entry[e].st = "running"
  BY <1>0 DEF Ends
<1>3. /\ es \in [Entries -> EntryRecord]
      /\ \A f \in Entries : f # e => es[f] = entry[f]
      /\ es[e].st = "done" /\ es[e].lane = l /\ es[e].gen = entry[e].gen
  BY <1>0 DEF Ends
<1>6. \A k \in Lanes : \A i \in 1..Len(queue[k]) :
        queue[k][i] \in Entries /\ queue[k][i] # e
  BY <1>0 DEF Ends
<1>7. QueueOK(queue, es)
  BY <1>0 DEF Ends
<1>8. CASE OfCurrentGeneration(e)
  <2> DEFINE a == [active EXCEPT ![l] = @ \ {e}]
  <2>1. Pumps({l}, queue, a, maxConcurrent, generation, es,
              queue', active', maxConcurrent', generation', entry')
    BY <1>8 DEF Settle, Pump, Pumps, Ended
  <2>2. /\ a \in [Lanes -> SUBSET Entries]
        /\ \A k \in Lanes : k # l => a[k] = active[k]
        /\ l \in Lanes => a[l] = active[l] \ {e}
    BY DEF QueueInv, Ready, Typed
  <2>3. Typed(queue, a, maxConcurrent, generation, es)
    BY <1>3, <2>2 DEF QueueInv, Ready, Typed
  <2> HIDE DEF a, es, l
  <2>4. QueueOK(queue, es)
    BY <1>7
  <2>5. SlotsOK(a, generation, es)
    <3> SUFFICES ASSUME NEW k \in Lanes, NEW f \in Entries
                 PROVE  f \in a[k] <=> /\ es[f].st = "running"
                                       /\ es[f].lane = k
                                       /\ es[f].gen = generation[k]
      BY <2>2 DEF SlotsOK
    <3>1. f \in active[k] <=> /\ entry[f].st = "running"
                              /\ entry[f].lane = k
                              /\ entry[f].gen = generation[k]
      BY DEF QueueInv, Ready, SlotsOK
    <3>2. CASE f = e
      BY <1>3, <2>2, <3>1, <3>2 DEF l
    <3>3. CASE f # e
      BY <1>3, <2>2, <3>1, <3>3
    <3> QED
      BY <3>2, <3>3
  <2>6. BusyOK(Lanes \ {l}, queue, a, maxConcurrent)
    BY <2>2 DEF QueueInv, Ready, BusyOK
  <2>7. GenerationOK(generation, es)
    BY <1>1, <1>2, <1>3 DEF QueueInv, Ready, GenerationOK, l
  <2>8. BusyOK(Lanes \ ({l} \cap Lanes), queue, a, maxConcurrent)
    BY <2>6 DEF BusyOK
  <2>9. Pumps({l} \cap Lanes, queue, a, maxConcurrent, generation, es,
              queue', active', maxConcurrent', generation', entry')
    BY <2>1 DEF Pumps
  <2>10. Ready({l} \cap Lanes, queue, a, maxConcurrent, generation, es)
    BY <2>3, <2>4, <2>5, <2>7, <2>8 DEF Ready
  <2>11. /\ Ready({}, queue', active', maxConcurrent', generation', entry')
         /\ generation' = generation
         /\ \A f \in Entries : es[f].st # "queued" => entry'[f] = es[f]
         /\ InTurn(queue, es, active', maxConcurrent', entry')
         /\ Serves(queue, generation, es, queue', entry')
    <3>1. {l} \cap Lanes \in SUBSET Lanes
      OBVIOUS
    <3> QED
      BY <2>9, <2>10, <3>1, PumpLemma
  <2>12. Progress
    BY <1>1, <1>2, <1>3, <2>11 DEF Progress, l
  <2>13. \A f \in Entries : entry[f].st # "running" => es[f].st # "running"
    BY <1>3
  <2>14. TurnStep
    BY <1>6, <2>11, <2>13 DEF TurnStep, InTurn, Starts
  <2> QED
    BY <2>11, <2>12, <2>14 DEF QueueInv, es
<1>9. CASE ~OfCurrentGeneration(e)
  <2>1. entry' = es /\ UNCHANGED laneVars
    BY <1>9 DEF Settle, Ended
  <2>2. Typed(queue', active', maxConcurrent', generation', entry')
    BY <1>3, <2>1 DEF QueueInv, Ready, Typed, laneVars
  <2> HIDE DEF es
  <2>3. QueueOK(queue', entry')
    BY <1>7, <2>1 DEF laneVars
  <2>4. SlotsOK(active', generation', entry')
    <3> SUFFICES ASSUME NEW k \in Lanes, NEW f \in Entries
                 PROVE  f \in active[k] <=> /\ es[f].st = "running"
                                            /\ es[f].lane = k
                                            /\ es[f].gen = generation[k]
      BY <2>1, <2>2 DEF SlotsOK, Typed, laneVars
    <3>1. f \in active[k] <=> /\ entry[f].st = "running"
                              /\ entry[f].lane = k
                              /\ entry[f].gen = generation[k]
      BY DEF QueueInv, Ready, SlotsOK
    <3>2. e \notin active[k]
      BY <1>9 DEF QueueInv, Ready, SlotsOK, OfCurrentGeneration
    <3>3. CASE f = e
      BY <1>3, <3>2, <3>3
    <3>4. CASE f # e
      BY <1>3, <3>1, <3>4
    <3> QED
      BY <3>3, <3>4
  <2>5. BusyOK(Lanes \ {}, queue', active', maxConcurrent')
    BY <2>1 DEF QueueInv, Ready, BusyOK, laneVars
  <2>6. GenerationOK(generation', entry')
    BY <1>1, <1>2, <1>3, <2>1 DEF QueueInv, Ready, GenerationOK, laneVars
  <2>7. Progress
    BY <1>1, <1>2, <1>3, <2>1 DEF Progress, laneVars
  <2>8. TurnStep
    BY <1>3, <2>1, NothingStarts
  <2>9. Serves(queue, generation', es, queue', entry')
    BY <2>1 DEF Serves, laneVars
  <2> QED
    BY <2>2, <2>3, <2>4, <2>5, <2>6, <2>7, <2>8, <2>9 DEF QueueInv, Ready, es
<1> QED
  BY <1>8, <1>9

LEMMA SetConcurrencyStep ==
  ASSUME QueueInv, NEW l \in Lanes, NEW n \in Concurrencies,
         SetCommandLaneConcurrency(l, n)
  PROVE  /\ QueueInv' /\ Progress /\ TurnStep
         /\ Serves(queue, generation', entry, queue', entry')
<1> DEFINE m == [maxConcurrent EXCEPT ![l] = IF n < 1 THEN 1 ELSE n]
<1>1. Pumps({l}, queue, active, m, generation, entry,
            queue', active', maxConcurrent', generation', entry')
  BY DEF SetCommandLaneConcurrency, Pump, Pumps
<1>2. /\ m \in [Lanes -> Nat \ {0}]
      /\ \A k \in Lanes : k # l => m[k] = maxConcurrent[k]
  BY ConcurrencyAssumption DEF QueueInv, Ready, Typed
<1> HIDE DEF m
<1>3. Typed(queue, active, m, generation, entry)
  BY <1>2 DEF QueueInv, Ready, Typed
<1>4. BusyOK(Lanes \ {l}, queue, active, m)
  BY <1>2 DEF QueueInv, Ready, BusyOK
<1>5. /\ QueueOK(queue, entry)
      /\ SlotsOK(active, generation, entry)
      /\ GenerationOK(generation, entry)
  BY DEF QueueInv, Ready
<1>6. Ready({l}, queue, active, m, generation, entry)
  BY <1>3, <1>4, <1>5 DEF Ready
<1>7. /\ Ready({}, queue', active', maxConcurrent', generation', entry')
      /\ generation' = generation
      /\ \A f \in Entries : entry[f].st # "queued" => entry'[f] = entry[f]
      /\ InTurn(queue, entry, active', maxConcurrent', entry')
      /\ Serves(queue, generation, entry, queue', entry')
  <2>1. {l} \in SUBSET Lanes
    OBVIOUS
  <2> QED
    BY <1>1, <1>6, <2>1, PumpLemma
<1>8. generation \in [Lanes -> Nat]
  BY DEF QueueInv, Ready, Typed
<1>9. Progress
  BY <1>7, <1>8 DEF Progress
<1> QED
  BY <1>7, <1>9 DEF QueueInv, TurnStep

LEMMA ClearStep ==
  ASSUME QueueInv, NEW l \in Lanes, ClearCommandLane(l)
  PROVE  QueueInv' /\ Progress /\ TurnStep
<1> DEFINE cleared == First(queue[l], Len(queue[l]))
<1>1. /\ queue \in [Lanes -> Seq(Entries)]
      /\ entry \in [Entries -> EntryRecord]
      /\ generation \in [Lanes -> Nat]
  BY DEF QueueInv, Ready, Typed
<1>2. /\ queue' = [queue EXCEPT ![l] = <<>>]
      /\ entry' = [e \in Entries |->
           IF e \in cleared THEN [entry[e] EXCEPT !.st = "cleared"] ELSE entry[e]]
      /\ UNCHANGED <<active, maxConcurrent, generation>>
  BY DEF ClearCommandLane
<1>3. \A e \in Entries :
        /\ e \in cleared => /\ entry'[e].st = "cleared"
                            /\ entry'[e].lane = entry[e].lane
                            /\ entry'[e].gen = entry[e].gen
                            /\ entry'[e] \in EntryRecord
        /\ e \notin cleared => entry'[e] = entry[e]
  BY <1>1, <1>2 DEF EntryRecord, Statuses, Settled
<1>4. \A e \in Entries :
        e \in cleared <=> \E i \in 1..Len(queue[l]) : queue[l][i] = e
  BY DEF First
<1> HIDE DEF cleared
<1>5. \A e \in Entries :
        e \in cleared <=> entry[e].st = "queued" /\ entry[e].lane = l
  BY <1>4 DEF QueueInv, Ready, QueueOK
<1>6. /\ queue' \in [Lanes -> Seq(Entries)]
      /\ queue'[l] = <<>> /\ Len(queue'[l]) = 0
      /\ \A k \in Lanes : k # l => queue'[k] = queue[k]
  BY <1>1, <1>2, EmptySeq
<1>7. Typed(queue', active', maxConcurrent', generation', entry')
  <2>1. entry' \in [Entries -> EntryRecord]
    BY <1>1, <1>2, <1>3
  <2> QED
    BY <1>2, <1>6, <2>1 DEF QueueInv, Ready, Typed
<1>8. QueueOK(queue', entry')
  <2>1. ASSUME NEW k \in Lanes, NEW i \in 1..Len(queue'[k])
        PROVE  /\ k # l /\ i \in 1..Len(queue[k]) /\ queue'[k][i] = queue[k][i]
               /\ entry'[queue'[k][i]].st = "queued"
               /\ entry'[queue'[k][i]].lane = k
    <3>1. k # l /\ i \in 1..Len(queue[k]) /\ queue'[k][i] = queue[k][i]
      BY <1>6
    <3>2. queue[k][i] \in Entries
      BY <1>1, <3>1, ElementOfSeq
    <3>3. entry[queue[k][i]].st = "queued" /\ entry[queue[k][i]].lane = k
      BY <3>1 DEF QueueInv, Ready, QueueOK
    <3> QED
      BY <1>3, <1>5, <3>1, <3>2, <3>3
  <2>2. ASSUME NEW k \in Lanes, NEW i \in 1..Len(queue'[k]),
               NEW j \in 1..Len(queue'[k]), queue'[k][i] = queue'[k][j]
        PROVE  i = j
    BY <1>6, <2>1, <2>2 DEF QueueInv, Ready, QueueOK
  <2>3. ASSUME NEW e \in Entries, entry'[e].st = "queued"
        PROVE  /\ entry'[e].lane \in Lanes
               /\ \E i \in 1..Len(queue'[entry'[e].lane]) :
                    queue'[entry'[e].lane][i] = e
    <3>1. e \notin cleared /\ entry'[e] = entry[e]
      BY <1>3, <2>3
    <3>2. entry[e].lane \in Lanes /\ entry[e].lane # l
      BY <1>5, <2>3, <3>1 DEF QueueInv, Ready, QueueOK
    <3> QED
      BY <1>6, <2>3, <3>1, <3>2 DEF QueueInv, Ready, QueueOK
  <2> QED
    BY <2>1, <2>2, <2>3 DEF QueueOK
<1>9. SlotsOK(active', generation', entry')
  <2> SUFFICES ASSUME NEW k \in Lanes, NEW f \in Entries
               PROVE  f \in active[k] <=> /\ entry'[f].st = "running"
                                          /\ entry'[f].lane = k
                                          /\ entry'[f].gen = generation[k]
    BY <1>2, <1>7 DEF SlotsOK, Typed
  <2>1. f \in active[k] <=> /\ entry[f].st = "running"
                            /\ entry[f].lane = k
                            /\ entry[f].gen = generation[k]
    BY DEF QueueInv, Ready, SlotsOK
  <2>2. CASE f \in cleared
    BY <1>3, <1>5, <2>1, <2>2
  <2>3. CASE f \notin cleared
    BY <1>3, <2>1, <2>3
  <2> QED
    BY <2>2, <2>3
<1>10. BusyOK(Lanes \ {}, queue', active', maxConcurrent')
  BY <1>2, <1>6 DEF QueueInv, Ready, BusyOK
<1>11. GenerationOK(generation', entry')
  BY <1>2, <1>3, <1>5 DEF QueueInv, Ready, GenerationOK
<1>12. Progress
  BY <1>1, <1>2, <1>3, <1>5 DEF Progress
<1>13. TurnStep
  BY <1>3, NothingStarts
<1> QED
  BY <1>7, <1>8, <1>9, <1>10, <1>11, <1>12, <1>13 DEF QueueInv, Ready

LEMMA ResetStep ==
  ASSUME QueueInv, ResetAllLanes
  PROVE  /\ QueueInv' /\ Progress /\ TurnStep
         /\ Serves(queue, generation', entry, queue', entry')
<1> DEFINE a == [l \in Lanes |-> {}]
           g == [l \in Lanes |-> generation[l] + 1]
<1>1. generation \in [Lanes -> Nat] /\ entry \in [Entries -> EntryRecord]
  BY DEF QueueInv, Ready, Typed
<1>2. Pumps(LanesToDrain, queue, a, maxConcurrent, g, entry,
            queue', active', maxConcurrent', generation', entry')
  BY DEF ResetAllLanes, Pump, Pumps
<1>3. /\ a \in [Lanes -> SUBSET Entries]
      /\ g \in [Lanes -> Nat]
      /\ \A l \in Lanes : a[l] = {} /\ g[l] = generation[l] + 1
  BY <1>1
<1> HIDE DEF a, g
<1>4. Typed(queue, a, maxConcurrent, g, entry)
  BY <1>3 DEF QueueInv, Ready, Typed
<1>5. SlotsOK(a, g, entry)
  <2> SUFFICES ASSUME NEW l \in Lanes, NEW e \in Entries,
                      entry[e].lane = l, entry[e].gen = g[l]
               PROVE  FALSE
    BY <1>3 DEF SlotsOK
  <2>1. /\ entry[e].gen <= generation[l]
        /\ generation[l] \in Nat
        /\ entry[e].gen \in Nat
    BY <1>1 DEF QueueInv, Ready, GenerationOK, EntryRecord
  <2> QED
    BY <1>3, <2>1
<1>6. BusyOK(Lanes \ LanesToDrain, queue, a, maxConcurrent)
  BY DEF BusyOK, LanesToDrain
<1>7. GenerationOK(g, entry)
  <2> SUFFICES ASSUME NEW e \in Entries, entry[e].lane \in Lanes
               PROVE  entry[e].gen <= g[entry[e].lane]
    BY DEF QueueInv, Ready, GenerationOK
  <2>1. /\ entry[e].gen <= generation[entry[e].lane]
        /\ generation[entry[e].lane] \in Nat
        /\ entry[e].gen \in Nat
    BY <1>1 DEF QueueInv, Ready, GenerationOK, EntryRecord
  <2> QED
    BY <1>3, <2>1
<1>8. QueueOK(queue, entry) /\ LanesToDrain \in SUBSET Lanes
  BY DEF QueueInv, Ready, LanesToDrain
<1>9. Ready(LanesToDrain, queue, a, maxConcurrent, g, entry)
  BY <1>4, <1>5, <1>6, <1>7, <1>8 DEF Ready
<1>10. /\ Ready({}, queue', active', maxConcurrent', generation', entry')
       /\ generation' = g
       /\ \A f \in Entries : entry[f].st # "queued" => entry'[f] = entry[f]
       /\ InTurn(queue, entry, active', maxConcurrent', entry')
       /\ Serves(queue, g, entry, queue', entry')
  BY <1>2, <1>8, <1>9, PumpLemma, SMTT(60)
<1>11. Progress
  BY <1>1, <1>3, <1>10 DEF Progress
<1> QED
  BY <1>10, <1>11 DEF QueueInv, TurnStep

-----------------------------------------------------------------------------
(* The invariant is inductive *)

\* A wait that begins looks at the tasks executing.
LEMMA WaitBegins ==
  ASSUME QueueInv, UNCHANGED <<laneVars, entry>>,
         waiter' = [st |-> IF ActiveTasks = {} THEN "drained" ELSE "waiting",
                    tasks |-> ActiveTasks]
  PROVE  WaiterOK'
<1>1. ActiveTasks \in SUBSET Entries
  BY DEF ActiveTasks, QueueInv, Ready, Typed
<1>2. \A e \in ActiveTasks : entry[e].lane \in Lanes /\ entry[e].st = "running"
  BY DEF ActiveTasks, QueueInv, Ready, SlotsOK
<1> QED
  BY <1>1, <1>2 DEF WaiterOK, WaiterRecord, laneVars

LEMMA NextInv == IInv /\ [Next]_vars => IInv'
<1> SUFFICES ASSUME IInv, [Next]_vars PROVE IInv'
  OBVIOUS
<1>1. gatewayDraining \in BOOLEAN /\ QueueInv /\ WaiterOK
  BY DEF IInv
<1>2. ASSUME QueueInv', Progress, waiter' = waiter, gatewayDraining' \in BOOLEAN
      PROVE  IInv'
  <2>1. Typed(queue', active', maxConcurrent', generation', entry')
    BY <1>2 DEF QueueInv, Ready
  <2>2. WaiterOK'
    BY <1>1, <1>2, <2>1, WaiterStep
  <2> QED
    BY <1>2, <2>2 DEF IInv
<1>3. ASSUME UNCHANGED <<laneVars, entry>>
      PROVE  QueueInv'
  BY <1>1, <1>3 DEF QueueInv, laneVars
<1>4. ASSUME NEW l \in Lanes, NEW e \in Entries, EnqueueCommandInLane(l, e)
      PROVE  IInv'
  <2>1. waiter' = waiter /\ gatewayDraining' = gatewayDraining
    BY <1>4 DEF EnqueueCommandInLane
  <2> QED
    BY <1>1, <1>2, <1>4, <2>1, EnqueueStep
<1>5. ASSUME NEW e \in Entries, Settle(e)
      PROVE  IInv'
  <2>1. waiter' = waiter /\ gatewayDraining' = gatewayDraining
    BY <1>5 DEF Settle
  <2> QED
    BY <1>1, <1>2, <1>5, <2>1, SettleStep
<1>6. ASSUME NEW l \in Lanes, NEW n \in Concurrencies, SetCommandLaneConcurrency(l, n)
      PROVE  IInv'
  <2>1. waiter' = waiter /\ gatewayDraining' = gatewayDraining
    BY <1>6 DEF SetCommandLaneConcurrency
  <2> QED
    BY <1>1, <1>2, <1>6, <2>1, SetConcurrencyStep
<1>7. ASSUME NEW l \in Lanes, ClearCommandLane(l)
      PROVE  IInv'
  <2>1. waiter' = waiter /\ gatewayDraining' = gatewayDraining
    BY <1>7 DEF ClearCommandLane
  <2> QED
    BY <1>1, <1>2, <1>7, <2>1, ClearStep
<1>8. CASE ResetAllLanes
  <2>1. waiter' = waiter /\ gatewayDraining' = FALSE
    BY <1>8 DEF ResetAllLanes
  <2> QED
    BY <1>1, <1>2, <1>8, <2>1, ResetStep
<1>9. CASE MarkGatewayDraining
  <2>1. /\ UNCHANGED <<laneVars, entry>>
        /\ waiter' = waiter /\ gatewayDraining' = TRUE
    BY <1>9 DEF MarkGatewayDraining
  <2>2. WaiterOK'
    BY <1>1, <2>1 DEF WaiterOK, laneVars
  <2> QED
    BY <1>3, <2>1, <2>2 DEF IInv
<1>10. CASE WaitForActiveTasks
  <2>1. /\ UNCHANGED <<laneVars, entry>>
        /\ gatewayDraining' = gatewayDraining
        /\ waiter' = [st |-> IF ActiveTasks = {} THEN "drained" ELSE "waiting",
                      tasks |-> ActiveTasks]
    BY <1>10 DEF WaitForActiveTasks
  <2>2. WaiterOK'
    BY <1>1, <2>1, WaitBegins
  <2> QED
    BY <1>1, <1>3, <2>1, <2>2 DEF IInv
<1>11. CASE PollDrained
  <2>1. /\ UNCHANGED <<laneVars, entry>>
        /\ gatewayDraining' = gatewayDraining
        /\ waiter.st = "waiting"
        /\ waiter.tasks \cap ActiveTasks = {}
        /\ waiter' = [waiter EXCEPT !.st = "drained"]
    BY <1>11 DEF PollDrained, HasPending
  <2>2. /\ waiter' \in WaiterRecord
        /\ waiter'.st = "drained" /\ waiter'.tasks = waiter.tasks
    BY <1>1, <2>1 DEF WaiterOK, WaiterRecord
  <2>3. ASSUME NEW e \in waiter.tasks
        PROVE  \/ entry[e].st = "done"
               \/ /\ entry[e].st = "running"
                  /\ entry[e].lane \in Lanes
                  /\ entry[e].gen < generation[entry[e].lane]
    <3>1. e \in Entries
      BY <1>1 DEF WaiterOK, WaiterRecord
    <3>2. entry[e].lane \in Lanes /\ entry[e].st \in {"running", "done"}
      BY <1>1, <2>1 DEF WaiterOK
    <3>3. e \notin active[entry[e].lane]
      BY <2>1, <3>2 DEF ActiveTasks
    <3>4. entry[e].st = "running" => entry[e].gen # generation[entry[e].lane]
      BY <1>1, <3>1, <3>2, <3>3 DEF QueueInv, Ready, SlotsOK
    <3>5. /\ entry[e].gen <= generation[entry[e].lane]
          /\ entry[e].gen \in Nat
          /\ generation[entry[e].lane] \in Nat
      BY <1>1, <3>1, <3>2 DEF QueueInv, Ready, GenerationOK, Typed, EntryRecord
    <3> QED
      BY <3>2, <3>4, <3>5
  <2>4. WaiterOK'
    BY <2>1, <2>2, <2>3 DEF WaiterOK, laneVars
  <2> QED
    BY <1>1, <1>3, <2>1, <2>4 DEF IInv
<1>12. CASE PollTimedOut
  <2>1. /\ UNCHANGED <<laneVars, entry>>
        /\ gatewayDraining' = gatewayDraining
        /\ waiter' = [waiter EXCEPT !.st = "timeout"]
    BY <1>12 DEF PollTimedOut
  <2>2. waiter' \in WaiterRecord /\ waiter'.st = "timeout"
    BY <1>1, <2>1 DEF WaiterOK, WaiterRecord
  <2>3. WaiterOK'
    BY <2>2 DEF WaiterOK
  <2> QED
    BY <1>1, <1>3, <2>1, <2>3 DEF IInv
<1>13. CASE UNCHANGED vars
  <2>1. /\ UNCHANGED <<laneVars, entry>>
        /\ waiter' = waiter /\ gatewayDraining' = gatewayDraining
    BY <1>13 DEF vars, laneVars
  <2>2. WaiterOK'
    BY <1>1, <2>1 DEF WaiterOK, laneVars
  <2> QED
    BY <1>1, <1>3, <2>1, <2>2 DEF IInv
<1> QED
  BY <1>4, <1>5, <1>6, <1>7, <1>8, <1>9, <1>10, <1>11, <1>12, <1>13 DEF Next

THEOREM Invariance == Spec => []IInv
BY InitInv, NextInv, PTL DEF Spec

\* Whatever an operation starts, it starts in turn.
LEMMA NextInTurn == IInv /\ [Next]_vars => TurnStep
<1> SUFFICES ASSUME IInv, [Next]_vars PROVE TurnStep
  OBVIOUS
<1>1. QueueInv
  BY DEF IInv
<1>2. ASSUME entry' = entry
      PROVE  TurnStep
  BY <1>1, <1>2, NothingStarts
<1>3. ASSUME NEW l \in Lanes, NEW e \in Entries, EnqueueCommandInLane(l, e)
      PROVE  TurnStep
  BY <1>1, <1>3, EnqueueStep
<1>4. ASSUME NEW e \in Entries, Settle(e)
      PROVE  TurnStep
  BY <1>1, <1>4, SettleStep
<1>5. ASSUME NEW l \in Lanes, NEW n \in Concurrencies, SetCommandLaneConcurrency(l, n)
      PROVE  TurnStep
  BY <1>1, <1>5, SetConcurrencyStep
<1>6. ASSUME NEW l \in Lanes, ClearCommandLane(l)
      PROVE  TurnStep
  BY <1>1, <1>6, ClearStep
<1>7. CASE ResetAllLanes
  BY <1>1, <1>7, ResetStep
<1>8. CASE MarkGatewayDraining \/ WaitForActiveTasks \/ PollDrained \/ PollTimedOut
  <2>1. entry' = entry
    BY <1>8 DEF MarkGatewayDraining, WaitForActiveTasks, PollDrained, PollTimedOut
  <2> QED
    BY <1>2, <2>1
<1>9. CASE UNCHANGED vars
  BY <1>2, <1>9 DEF vars
<1> QED
  BY <1>3, <1>4, <1>5, <1>6, <1>7, <1>8, <1>9 DEF Next

-----------------------------------------------------------------------------
(* The properties *)

\* Every reachable state is in the state space TypeOK describes.
THEOREM TypeCorrect == Spec => []TypeOK
<1>1. IInv => TypeOK
  BY DEF IInv, QueueInv, Ready, Typed, WaiterOK, TypeOK
<1> QED
  BY <1>1, Invariance, PTL

\* No wakeup is lost: a lane with a queued entry always has all its slots taken.
THEOREM NoSlotIsIdle == Spec => []NoIdleSlot
<1>1. IInv => NoIdleSlot
  BY DEF IInv, QueueInv, Ready, BusyOK, NoIdleSlot
<1> QED
  BY <1>1, Invariance, PTL

\* The slots of a lane are always held by exactly the running tasks of its
\* present generation, so no completion of an earlier life frees one.
THEOREM SlotsAreCurrent == Spec => []SlotsMatchGeneration
<1>1. IInv => SlotsMatchGeneration
  BY DEF IInv, QueueInv, Ready, SlotsOK, SlotsMatchGeneration
<1> QED
  BY <1>1, Invariance, PTL

\* No pending promise is dropped and none can be started twice.
THEOREM NoEntryIsLost == Spec => []QueuedExactlyOnce
<1>1. IInv => QueuedExactlyOnce
  BY DEF IInv, QueueInv, Ready, QueueOK, QueuedExactlyOnce
<1> QED
  BY <1>1, Invariance, PTL

\* "drained" is only reported when every task waited for has settled or has been
\* disowned by a reset.
THEOREM DrainIsSound == Spec => []DrainedMeansSettled
<1>1. IInv => DrainedMeansSettled
  BY DEF IInv, WaiterOK, DrainedMeansSettled
<1> QED
  BY <1>1, Invariance, PTL

\* No step starts a task above the cap in force, and none starts one of a lane's
\* entries before another that has waited longer.
THEOREM StartsAreInTurn == Spec => StartsInTurn
<1>1. TurnStep => [WithinCap]_vars /\ [FirstComeFirst]_vars
  BY DEF TurnStep, InTurn, Starts, Started, WithinCap, FirstComeFirst
<1>2. IInv /\ [Next]_vars => [WithinCap]_vars /\ [FirstComeFirst]_vars
  BY <1>1, NextInTurn
<1> QED
  BY <1>2, Invariance, PTL DEF Spec, StartsInTurn

=============================================================================
