-------------------------- MODULE AgentLanesProofs --------------------------
(***************************************************************************)
(* Proofs about AgentLanes, for every set of runs, every assignment of     *)
(* session and global lanes to them and every bound: the handles are       *)
(* exact, who waits is told in time, and the two lanes of a run implement  *)
(* SessionTurns.                                                           *)
(*                                                                         *)
(* Every step is an operation of the command queue or leaves the queue     *)
(* alone, so the lemmas of CommandQueueProofs show what becomes of the     *)
(* lanes.  The conjuncts that a pump can disturb are stated of values, to  *)
(* be shown first of what the pump is run on.                              *)
(***************************************************************************)
EXTENDS AgentLanes, CommandQueueProofs

-----------------------------------------------------------------------------
(* The invariant *)

\* The two entries of a run wait and run in its two lanes.
TheirLanes(es) ==
  \A r \in Runs :
    /\ es[Outer(r)].st \in {"queued", "running"} => es[Outer(r)].lane = SessionOf[r]
    /\ es[Inner(r)].st \in {"queued", "running"} => es[Inner(r)].lane = GlobalOf[r]

\* The entry of the session lane encloses the one of the global lane.
Nested(es) ==
  \A r \in Runs :
    /\ es[Inner(r)].st # "new" => es[Outer(r)].st \in {"running", "done"}
    /\ es[Outer(r)].st = "done" => es[Inner(r)].st \in Settled

\* The session slots of one generation are one.
OneTurn(es) ==
  \A r, x \in Runs :
    /\ SessionOf[r] = SessionOf[x]
    /\ es[Outer(r)].st = "running" /\ es[Outer(x)].st = "running"
    /\ es[Outer(r)].gen = es[Outer(x)].gen
    => r = x

\* The runs in the history o of a session were queued, once each.
Lined(o, es) ==
  \A s \in Sessions : \A i \in 1..Len(o[s]) :
    /\ o[s][i] \in Runs /\ SessionOf[o[s][i]] = s
    /\ es[Outer(o[s][i])].st \notin {"new", "refused"}

\* A run is not overtaken by a later one, neither in the queue nor in the slot.
InOrder(o, q, es) ==
  \A s \in Sessions : \A x, r \in Runs :
    Ahead(o[s], x, r) =>
      /\ x # r
      /\ ~Ahead(q[s], Outer(r), Outer(x))
      /\ es[Outer(r)].st \in {"running", "done"} => es[Outer(x)].st # "queued"

LaneOrder(o, q, es) ==
  TheirLanes(es) /\ Nested(es) /\ OneTurn(es) /\ Lined(o, es) /\ InOrder(o, q, es)

\* The lanes are reset together, and only the caps of global lanes are set.
Together ==
  /\ \A k, l \in Lanes : generation[k] = generation[l]
  /\ \A s \in Sessions : maxConcurrent[s] = 1

Shapes ==
  /\ handle \in [Sessions -> Runs \cup {NoRun}]
  /\ trying \in [Runs -> BOOLEAN]
  /\ attempts \in [Runs -> 0..MaxAttempts]
  /\ watch \in [Sessions -> {"none", "waiting", "ended"}]
  /\ order \in [Sessions -> Seq(Runs)]

\* An attempt goes on in the global slot of its run.
TryingRuns == \A r \in Runs : trying[r] => entry[Inner(r)].st = "running"

LInv ==
  /\ IInv
  /\ Shapes
  /\ Together
  /\ LaneOrder(order, queue, entry)
  /\ TryingRuns
  /\ HandlesAreExact

-----------------------------------------------------------------------------
(* Entries and lanes of the runs *)

LEMMA EntryFacts ==
  /\ \A r \in Runs : Outer(r) \in Entries /\ Inner(r) \in Entries
  /\ \A r, x \in Runs : Outer(r) # Inner(x)
  /\ \A r, x \in Runs : Outer(r) = Outer(x) => r = x
  /\ \A r, x \in Runs : Inner(r) = Inner(x) => r = x
  /\ \A e \in Entries : \E r \in Runs : e = Outer(r) \/ e = Inner(r)
BY LanesAssumption DEF Outer, Inner

LEMMA LaneFacts ==
  /\ \A r \in Runs : /\ SessionOf[r] \in Sessions /\ SessionOf[r] \in Lanes
                     /\ GlobalOf[r] \in Globals /\ GlobalOf[r] \in Lanes
  /\ Sessions \subseteq Lanes /\ Globals \subseteq Lanes
  /\ Sessions \cap Globals = {}
BY LanesAssumption DEF Sessions, Globals

LEMMA AtMostOne ==
  ASSUME NEW S, IsFiniteSet(S), Cardinality(S) <= 1, NEW d \in S, NEW e \in S
  PROVE  d = e
<1> SUFFICES ASSUME d # e PROVE FALSE
  OBVIOUS
<1>1. IsFiniteSet({d}) /\ Cardinality({d}) = 1
  BY FS_Singleton
<1>2. IsFiniteSet({d} \cup {e}) /\ Cardinality({d} \cup {e}) = Cardinality({d}) + 1
  BY <1>1, FS_AddElement
<1>3. {d} \cup {e} \subseteq S
  OBVIOUS
<1>4. Cardinality({d} \cup {e}) <= Cardinality(S)
  BY <1>3, FS_Subset
<1>5. Cardinality(S) \in Nat
  BY FS_CardinalityType
<1> QED
  BY <1>1, <1>2, <1>4, <1>5

-----------------------------------------------------------------------------
(* What a pump keeps *)

LEMMA ServeKeeps ==
  ASSUME NEW o, NEW q, NEW g, NEW es, NEW q2, NEW es2,
         Serves(q, g, es, q2, es2), QueueOK(q2, es2), LaneOrder(o, q, es)
  PROVE  TheirLanes(es2) /\ Nested(es2) /\ Lined(o, es2) /\ InOrder(o, q2, es2)
<1>1. \A e \in Entries :
        /\ es[e].st # "queued" => es2[e] = es[e]
        /\ es[e].st = "queued" =>
             es2[e].lane = es[e].lane /\ es2[e].st \in {"queued", "running"}
        /\ es2[e].st = "queued" => es2[e] = es[e]
  BY DEF Serves
<1>2. \A r \in Runs : Outer(r) \in Entries /\ Inner(r) \in Entries
  BY EntryFacts
<1>3. TheirLanes(es) /\ Nested(es) /\ Lined(o, es) /\ InOrder(o, q, es)
  BY DEF LaneOrder
<1>4. TheirLanes(es2)
  BY <1>1, <1>2, <1>3 DEF TheirLanes
<1>5. Nested(es2)
  BY <1>1, <1>2, <1>3 DEF Nested, Settled
<1>6. Lined(o, es2)
  <2> SUFFICES ASSUME NEW s \in Sessions, NEW i \in 1..Len(o[s])
               PROVE  es2[Outer(o[s][i])].st \notin {"new", "refused"}
    BY <1>3 DEF Lined
  <2> QED
    BY <1>1, <1>2, <1>3 DEF Lined
<1>7. InOrder(o, q2, es2)
  <2> SUFFICES ASSUME NEW s \in Sessions, NEW x \in Runs, NEW r \in Runs,
                      Ahead(o[s], x, r)
               PROVE  /\ ~Ahead(q2[s], Outer(r), Outer(x))
                      /\ es2[Outer(r)].st \in {"running", "done"} =>
                           es2[Outer(x)].st # "queued"
    BY <1>3 DEF InOrder
  <2>1. /\ ~Ahead(q[s], Outer(r), Outer(x))
        /\ es[Outer(r)].st \in {"running", "done"} => es[Outer(x)].st # "queued"
    BY <1>3 DEF InOrder
  <2>2. SessionOf[x] = s /\ SessionOf[r] = s /\ s \in Lanes
    BY <1>3, LaneFacts DEF Ahead, Lined
  <2>3. ~Ahead(q2[s], Outer(r), Outer(x))
    BY <1>2, <2>1, <2>2 DEF Serves
  <2>4. ASSUME es2[Outer(r)].st \in {"running", "done"}, es2[Outer(x)].st = "queued"
        PROVE  FALSE
    <3>1. es2[Outer(x)].lane = s
      BY <1>4, <2>2, <2>4 DEF TheirLanes
    <3>2. StandsIn(q2[s], Outer(x))
      BY <1>2, <2>4, <3>1 DEF QueueOK, StandsIn
    <3>3. CASE es[Outer(r)].st = "queued"
      <4>1. es[Outer(r)].lane = s /\ es2[Outer(r)].st = "running"
        BY <1>1, <1>2, <1>3, <2>2, <2>4, <3>3 DEF TheirLanes
      <4> QED
        BY <1>2, <2>1, <2>2, <3>2, <3>3, <4>1 DEF Serves
    <3>4. CASE es[Outer(r)].st # "queued"
      BY <1>1, <1>2, <2>1, <2>4, <3>4
    <3> QED
      BY <3>3, <3>4
  <2> QED
    BY <2>3, <2>4
<1> QED
  BY <1>4, <1>5, <1>6, <1>7

\* The entry table es, from which a step pumps, counts nothing that runs as queued.
Fresh(es) == \A f \in Entries : es[f].st = "queued" => entry[f].st # "running"

LEMMA OneTurnKept ==
  ASSUME QueueInv', TurnStep, NEW q, NEW es,
         Serves(q, generation', es, queue', entry'), Fresh(es),
         TheirLanes(es), OneTurn(es), TheirLanes(entry'),
         \A s \in Sessions : maxConcurrent'[s] = 1
  PROVE  OneTurn(entry')
<1>1. \A r \in Runs : Outer(r) \in Entries
  BY EntryFacts
<1>2. \A l \in Lanes : active'[l] \in SUBSET Entries
  BY DEF QueueInv, Ready, Typed
<1>3. ASSUME NEW r \in Runs, NEW x \in Runs, SessionOf[r] = SessionOf[x],
             entry'[Outer(r)].st = "running", entry'[Outer(x)].st = "running",
             entry'[Outer(r)].gen = entry'[Outer(x)].gen,
             es[Outer(r)].st = "queued"
      PROVE  r = x
  <2> DEFINE s == SessionOf[r]
  <2>1. s \in Sessions /\ s \in Lanes
    BY LaneFacts
  <2>2. /\ entry'[Outer(r)].lane = s /\ entry'[Outer(x)].lane = s
        /\ es[Outer(r)].lane = s
    BY <1>3 DEF TheirLanes
  <2>3. entry'[Outer(r)].gen = generation'[s]
    BY <1>1, <1>3, <2>2 DEF Serves
  <2>4. Outer(r) \in active'[s] /\ Outer(x) \in active'[s]
    BY <1>1, <1>3, <2>1, <2>2, <2>3 DEF QueueInv, Ready, SlotsOK
  <2>5. Starts(entry, entry', Outer(r))
    BY <1>1, <1>3 DEF Starts, Fresh
  <2>6. Cardinality(active'[s]) <= 1
    BY <1>1, <2>1, <2>2, <2>5 DEF TurnStep, InTurn
  <2>7. IsFiniteSet(active'[s])
    BY <1>2, <2>1, EntriesAssumption, FS_Subset
  <2>8. Outer(r) = Outer(x)
    BY <2>4, <2>6, <2>7, AtMostOne
  <2> QED
    BY <2>8, EntryFacts
<1>4. ASSUME NEW r \in Runs, NEW x \in Runs, SessionOf[r] = SessionOf[x],
             entry'[Outer(r)].st = "running", entry'[Outer(x)].st = "running",
             entry'[Outer(r)].gen = entry'[Outer(x)].gen
      PROVE  r = x
  <2>1. CASE es[Outer(r)].st = "queued"
    BY <1>3, <1>4, <2>1
  <2>2. CASE es[Outer(x)].st = "queued"
    <3>1. x = r
      BY <1>3, <1>4, <2>2
    <3> QED
      BY <3>1
  <2>3. CASE es[Outer(r)].st # "queued" /\ es[Outer(x)].st # "queued"
    <3>1. entry'[Outer(r)] = es[Outer(r)] /\ entry'[Outer(x)] = es[Outer(x)]
      BY <1>1, <2>3 DEF Serves
    <3> QED
      BY <1>4, <3>1 DEF OneTurn
  <2> QED
    BY <2>1, <2>2, <2>3
<1> QED
  BY <1>4 DEF OneTurn

LEMMA PumpKeeps ==
  ASSUME QueueInv', TurnStep, NEW q, NEW es,
         Serves(q, generation', es, queue', entry'), Fresh(es),
         LaneOrder(order', q, es),
         \A s \in Sessions : maxConcurrent'[s] = 1
  PROVE  LaneOrder(order', queue', entry')
<1>1. QueueOK(queue', entry')
  BY DEF QueueInv, Ready
<1>2. /\ TheirLanes(entry') /\ Nested(entry')
      /\ Lined(order', entry') /\ InOrder(order', queue', entry')
  BY <1>1, ServeKeeps
<1>3. OneTurn(entry')
  BY <1>2, OneTurnKept DEF LaneOrder
<1> QED
  BY <1>2, <1>3 DEF LaneOrder

-----------------------------------------------------------------------------
(* What a step does to the entries *)

EntryGoes(e) ==
  \/ entry'[e] = entry[e]
  \/ entry[e].st = "new" /\ entry'[e].st \in {"queued", "running", "refused"}
  \/ entry[e].st = "queued" /\ entry'[e].st \in {"running", "cleared"}
  \/ /\ entry[e].st = "running"
     /\ entry'[e].st = "done" /\ entry'[e].gen = entry[e].gen

\* The global lane is entered from the session slot and not left during an attempt.
Moved ==
  /\ \A e \in Entries : EntryGoes(e)
  /\ \A r \in Runs :
       /\ entry[Inner(r)].st = "new" /\ entry'[Inner(r)].st # "new" =>
            entry[Outer(r)].st = "running"
       /\ trying[r] /\ entry[Inner(r)].st = "running" =>
            entry'[Inner(r)].st = "running"

\* The same of the entry table es that a step hands to its pump.
Touches(es) ==
  /\ \A e \in Entries :
       \/ es[e] = entry[e]
       \/ entry[e].st = "new" /\ es[e].st = "queued"
       \/ /\ entry[e].st = "running"
          /\ es[e].st = "done" /\ es[e].gen = entry[e].gen
  /\ \A r \in Runs :
       \/ es[Inner(r)] = entry[Inner(r)]
       \/ entry[Inner(r)].st = "new" /\ entry[Outer(r)].st = "running"
       \/ entry[Inner(r)].st = "running" /\ ~trying[r]

LEMMA ServeMoves ==
  ASSUME NEW q, NEW es, Serves(q, generation', es, queue', entry'), Touches(es)
  PROVE  Moved
<1>1. \A e \in Entries :
        /\ es[e].st # "queued" => entry'[e] = es[e]
        /\ es[e].st = "queued" => entry'[e] = es[e] \/ entry'[e].st = "running"
  BY DEF Serves
<1>2. ASSUME NEW e \in Entries PROVE EntryGoes(e)
  BY <1>1 DEF Touches, EntryGoes
<1>3. ASSUME NEW r \in Runs
      PROVE  /\ entry[Inner(r)].st = "new" /\ entry'[Inner(r)].st # "new" =>
                  entry[Outer(r)].st = "running"
             /\ trying[r] /\ entry[Inner(r)].st = "running" =>
                  entry'[Inner(r)].st = "running"
  <2>1. Inner(r) \in Entries
    BY EntryFacts
  <2> QED
    BY <1>1, <2>1 DEF Touches
<1> QED
  BY <1>2, <1>3 DEF Moved

LEMMA StillMoves == ASSUME entry' = entry PROVE Moved
BY DEF Moved, EntryGoes

-----------------------------------------------------------------------------
(* One lemma per operation on the lanes *)

\* What an appended element stands behind.
LEMMA AheadOfLast ==
  ASSUME NEW s, NEW t, NEW z, Len(s) \in Nat, Len(t) = Len(s) + 1,
         \A i \in 1..Len(s) : t[i] = s[i], t[Len(s) + 1] = z,
         NEW d, NEW e, Ahead(t, d, e)
  PROVE  Ahead(s, d, e) \/ (e = z /\ StandsIn(s, d))
<1>1. PICK i, j \in 1..Len(t) : i < j /\ t[i] = d /\ t[j] = e
  BY DEF Ahead
<1>2. i \in 1..Len(s) /\ s[i] = d
  BY <1>1
<1>3. CASE j \in 1..Len(s)
  BY <1>1, <1>2, <1>3 DEF Ahead
<1>4. CASE j = Len(s) + 1
  BY <1>1, <1>2, <1>4 DEF StandsIn
<1> QED
  BY <1>1, <1>3, <1>4

\* Only the resets and the cap settings touch generations and caps.
LEMMA CapsStay ==
  ASSUME NEW l, NEW e, EnqueueCommandInLane(l, e) \/ Settle(e)
  PROVE  maxConcurrent' = maxConcurrent /\ generation' = generation
BY DEF EnqueueCommandInLane, Settle, Pump, laneVars

LEMMA OneTurnOfLess ==
  ASSUME NEW es, NEW es2, OneTurn(es),
         \A r \in Runs : es2[Outer(r)].st = "running" => es2[Outer(r)] = es[Outer(r)]
  PROVE  OneTurn(es2)
<1> SUFFICES ASSUME NEW r \in Runs, NEW x \in Runs, SessionOf[r] = SessionOf[x],
                    es2[Outer(r)].st = "running", es2[Outer(x)].st = "running",
                    es2[Outer(r)].gen = es2[Outer(x)].gen
             PROVE  r = x
  BY DEF OneTurn
<1>1. es2[Outer(r)] = es[Outer(r)] /\ es2[Outer(x)] = es[Outer(x)]
  OBVIOUS
<1> QED
  BY <1>1 DEF OneTurn

LEMMA AskingKeeps ==
  ASSUME LInv, NEW r \in Runs, RunEmbeddedPiAgent(r)
  PROVE  LaneOrder(order', queue', entry') /\ Moved
<1> DEFINE s == SessionOf[r]
           e == Outer(r)
<1>1. /\ QueueInv
      /\ TheirLanes(entry) /\ Nested(entry) /\ OneTurn(entry)
      /\ Lined(order, entry) /\ InOrder(order, queue, entry)
      /\ order \in [Sessions -> Seq(Runs)]
      /\ \A t \in Sessions : maxConcurrent[t] = 1
  BY DEF LInv, IInv, LaneOrder, Shapes, Together
<1>2. /\ s \in Sessions /\ s \in Lanes /\ e \in Entries
      /\ \A x \in Runs : /\ Outer(x) \in Entries /\ Inner(x) \in Entries
                         /\ Inner(x) # e /\ (Outer(x) = e => x = r)
  BY EntryFacts, LaneFacts
<1>3. EnqueueCommandInLane(s, e)
  BY DEF RunEmbeddedPiAgent
<1>4. /\ QueueInv' /\ TurnStep
      /\ ~gatewayDraining =>
           Serves(Appended(s, e), generation', Pushed(s, e), queue', entry')
      /\ maxConcurrent' = maxConcurrent
  BY <1>1, <1>2, <1>3, EnqueueStep, CapsStay
<1>5. entry[e].st = "new" /\ entry[Inner(r)].st = "new"
  BY <1>1, <1>3 DEF EnqueueCommandInLane, Nested
<1>6. CASE gatewayDraining
  <2>1. /\ entry' = [entry EXCEPT ![e].st = "refused"]
        /\ queue' = queue /\ order' = order
    BY <1>3, <1>6 DEF EnqueueCommandInLane, RunEmbeddedPiAgent, laneVars
  <2>2. /\ \A f \in Entries : f # e => entry'[f] = entry[f]
        /\ entry'[e].st = "refused"
    BY <1>1, <1>2, <2>1 DEF QueueInv, Ready, Typed, EntryRecord
  <2> HIDE DEF s, e
  <2>7. \A x \in Runs : /\ entry'[Inner(x)] = entry[Inner(x)]
                        /\ Outer(x) # e => entry'[Outer(x)] = entry[Outer(x)]
                        /\ Outer(x) = e => x = r /\ entry'[Outer(x)].st = "refused"
    BY <1>2, <2>2
  <2>3. TheirLanes(entry') /\ OneTurn(entry')
    <3>1. TheirLanes(entry')
      BY <1>1, <2>7 DEF TheirLanes
    <3>2. OneTurn(entry')
      BY <1>1, <2>7, OneTurnOfLess
    <3> QED
      BY <3>1, <3>2
  <2>4. Nested(entry')
    BY <1>1, <1>5, <2>7 DEF Nested
  <2>5. Lined(order', entry')
    BY <1>1, <1>2, <1>5, <2>1, <2>2 DEF Lined
  <2>6. InOrder(order', queue', entry')
    BY <1>1, <1>2, <2>1, <2>2 DEF InOrder, e
  <2>8. Moved
    <3>1. \A f \in Entries : EntryGoes(f)
      BY <1>5, <2>2 DEF EntryGoes
    <3> QED
      BY <2>7, <3>1 DEF Moved
  <2> QED
    BY <2>3, <2>4, <2>5, <2>6, <2>8 DEF LaneOrder
<1>7. CASE ~gatewayDraining
  <2> DEFINE q  == Appended(s, e)
             es == Pushed(s, e)
  <2>1. Prepared(s, e, q, es)
    BY <1>1, <1>2, <1>3, <1>7, EnqueueReady
  <2>2. order' = [order EXCEPT ![s] = Append(@, r)]
    BY <1>7 DEF RunEmbeddedPiAgent
  <2>3. Serves(q, generation', es, queue', entry')
    BY <1>4, <1>7
  <2> HIDE DEF s, e, q, es
  <2>4. /\ order[s] \in Seq(Runs) /\ Len(order[s]) \in Nat
        /\ Len(order'[s]) = Len(order[s]) + 1
        /\ \A i \in 1..Len(order[s]) : order'[s][i] = order[s][i]
        /\ order'[s][Len(order[s]) + 1] = r
        /\ \A t \in Sessions : t # s => order'[t] = order[t]
    <3>1. order[s] \in Seq(Runs)
      BY <1>1, <1>2
    <3>2. order'[s] = Append(order[s], r)
      BY <1>1, <1>2, <2>2
    <3> QED
      BY <1>1, <2>2, <3>1, <3>2, AppendProperties, LenProperties
  <2>5. /\ \A f \in Entries : f # e => es[f] = entry[f]
        /\ es[e].st = "queued" /\ es[e].lane = s
        /\ \A k \in Lanes : k # s => q[k] = queue[k]
        /\ Len(queue[s]) \in Nat /\ Len(q[s]) = Len(queue[s]) + 1
        /\ \A i \in 1..Len(queue[s]) : q[s][i] = queue[s][i]
        /\ q[s][Len(queue[s]) + 1] = e
        /\ \A k \in Lanes : \A i \in 1..Len(queue[k]) : queue[k][i] # e
    BY <2>1 DEF Prepared
  <2>6. \A x \in Runs : /\ es[Inner(x)] = entry[Inner(x)]
                        /\ x # r => es[Outer(x)] = entry[Outer(x)]
    BY <1>2, <2>5
  <2>7. TheirLanes(es) /\ Nested(es) /\ OneTurn(es)
    <3>1. es[Outer(r)].st = "queued" /\ es[Outer(r)].lane = SessionOf[r]
      BY <2>5 DEF s, e
    <3>2. TheirLanes(es)
      BY <1>1, <2>6, <3>1 DEF TheirLanes
    <3>3. Nested(es)
      BY <1>1, <1>5, <2>6, <3>1 DEF Nested
    <3>4. OneTurn(es)
      BY <1>1, <2>6, <3>1, OneTurnOfLess
    <3> QED
      BY <3>2, <3>3, <3>4
  <2>8. \A t \in Sessions : \A i \in 1..Len(order[t]) :
          order[t][i] \in Runs /\ order[t][i] # r
    BY <1>1, <1>5 DEF Lined, e
  <2>9. Lined(order', es)
    <3> SUFFICES ASSUME NEW t \in Sessions, NEW i \in 1..Len(order'[t])
                 PROVE  /\ order'[t][i] \in Runs /\ SessionOf[order'[t][i]] = t
                        /\ es[Outer(order'[t][i])].st \notin {"new", "refused"}
      BY DEF Lined
    <3>1. CASE t = s /\ i = Len(order[s]) + 1
      BY <2>4, <2>5, <3>1 DEF s, e
    <3>2. CASE ~(t = s /\ i = Len(order[s]) + 1)
      <4>1. i \in 1..Len(order[t]) /\ order'[t][i] = order[t][i]
        BY <2>4, <3>2
      <4>2. /\ order[t][i] \in Runs /\ SessionOf[order[t][i]] = t
            /\ entry[Outer(order[t][i])].st \notin {"new", "refused"}
        BY <1>1, <4>1 DEF Lined
      <4>3. es[Outer(order[t][i])] = entry[Outer(order[t][i])]
        BY <2>6, <2>8, <4>1
      <4> QED
        BY <4>1, <4>2, <4>3
    <3> QED
      BY <3>1, <3>2
  <2>10. InOrder(order', q, es)
    <3> SUFFICES ASSUME NEW t \in Sessions, NEW x \in Runs, NEW y \in Runs,
                        Ahead(order'[t], x, y)
                 PROVE  /\ x # y
                        /\ ~Ahead(q[t], Outer(y), Outer(x))
                        /\ es[Outer(y)].st \in {"running", "done"} =>
                             es[Outer(x)].st # "queued"
      BY DEF InOrder
    <3>1. Ahead(order[t], x, y) \/ (t = s /\ y = r /\ StandsIn(order[s], x))
      <4>1. CASE t = s
        BY <2>4, <4>1, AheadOfLast
      <4>2. CASE t # s
        BY <2>4, <4>2
      <4> QED
        BY <4>1, <4>2
    <3>2. x # r
      BY <1>2, <2>8, <3>1 DEF Ahead, StandsIn
    <3>3. Outer(x) # e
      BY <1>2, <3>2
    <3>4. Ahead(q[t], Outer(y), Outer(x)) => Ahead(queue[t], Outer(y), Outer(x))
      <4>1. CASE t = s
        BY <2>5, <3>3, <4>1, AheadOfLast
      <4>2. CASE t # s
        BY <2>5, <4>2, LaneFacts
      <4> QED
        BY <4>1, <4>2
    <3>5. CASE Ahead(order[t], x, y)
      <4>1. y # r
        BY <2>8, <3>5 DEF Ahead
      <4>2. /\ x # y
            /\ ~Ahead(queue[t], Outer(y), Outer(x))
            /\ entry[Outer(y)].st \in {"running", "done"} =>
                 entry[Outer(x)].st # "queued"
        BY <1>1, <3>5 DEF InOrder
      <4>3. es[Outer(x)] = entry[Outer(x)] /\ es[Outer(y)] = entry[Outer(y)]
        BY <2>6, <3>2, <4>1
      <4> QED
        BY <3>4, <4>2, <4>3
    <3>6. CASE t = s /\ y = r
      <4>1. ~Ahead(queue[s], e, Outer(x))
        BY <1>2, <2>5 DEF Ahead
      <4> QED
        BY <2>5, <3>2, <3>4, <3>6, <4>1 DEF e
    <3> QED
      BY <3>1, <3>5, <3>6
  <2>11. Fresh(es)
    BY <1>5, <2>5 DEF Fresh
  <2>12. LaneOrder(order', q, es)
    BY <2>7, <2>9, <2>10 DEF LaneOrder
  <2>13. Touches(es)
    BY <1>5, <2>5, <2>6 DEF Touches
  <2> QED
    BY <1>1, <1>4, <2>3, <2>11, <2>12, <2>13, PumpKeeps, ServeMoves
<1> QED
  BY <1>6, <1>7

\* What changes the entries of the global lanes alone.
LEMMA InnerOnly ==
  ASSUME NEW o, NEW q, NEW es, NEW q2, NEW es2, LaneOrder(o, q, es),
         \A r \in Runs : es2[Outer(r)] = es[Outer(r)],
         \A s \in Sessions : q2[s] = q[s],
         TheirLanes(es2), Nested(es2)
  PROVE  LaneOrder(o, q2, es2)
<1>1. OneTurn(es2)
  BY OneTurnOfLess DEF LaneOrder
<1>2. Lined(o, es2)
  BY DEF LaneOrder, Lined
<1>3. InOrder(o, q2, es2)
  BY DEF LaneOrder, InOrder
<1> QED
  BY <1>1, <1>2, <1>3 DEF LaneOrder

LEMMA NestKeeps ==
  ASSUME LInv, NEW r \in Runs, Nest(r)
  PROVE  LaneOrder(order', queue', entry') /\ Moved
<1> DEFINE l == GlobalOf[r]
           e == Inner(r)
<1>1. /\ QueueInv
      /\ LaneOrder(order, queue, entry) /\ TheirLanes(entry) /\ Nested(entry)
      /\ \A t \in Sessions : maxConcurrent[t] = 1
  BY DEF LInv, IInv, LaneOrder, Together
<1>2. /\ l \in Lanes /\ l \notin Sessions /\ Sessions \subseteq Lanes /\ e \in Entries
      /\ \A x \in Runs : /\ Outer(x) \in Entries /\ Inner(x) \in Entries
                         /\ Outer(x) # e /\ (Inner(x) = e => x = r)
  BY EntryFacts, LaneFacts
<1>3. /\ EnqueueCommandInLane(l, e) /\ order' = order
      /\ entry[Outer(r)].st = "running"
  BY DEF Nest, Nesting, runVars
<1>4. /\ QueueInv' /\ TurnStep
      /\ ~gatewayDraining =>
           Serves(Appended(l, e), generation', Pushed(l, e), queue', entry')
      /\ maxConcurrent' = maxConcurrent
  BY <1>1, <1>2, <1>3, EnqueueStep, CapsStay
<1>5. entry[e].st = "new"
  BY <1>3 DEF EnqueueCommandInLane
<1>6. CASE gatewayDraining
  <2>1. entry' = [entry EXCEPT ![e].st = "refused"] /\ queue' = queue
    BY <1>3, <1>6 DEF EnqueueCommandInLane, laneVars
  <2>2. /\ \A f \in Entries : f # e => entry'[f] = entry[f]
        /\ entry'[e].st = "refused"
    BY <1>1, <1>2, <2>1 DEF QueueInv, Ready, Typed, EntryRecord
  <2> HIDE DEF l, e
  <2>3. \A x \in Runs :
          /\ entry'[Outer(x)] = entry[Outer(x)]
          /\ x # r => entry'[Inner(x)] = entry[Inner(x)]
    BY <1>2, <2>2
  <2>4. entry'[Inner(r)].st = "refused"
    BY <2>2 DEF e
  <2>5. TheirLanes(entry') /\ Nested(entry')
    BY <1>1, <1>3, <2>3, <2>4 DEF TheirLanes, Nested, Settled
  <2>6. Moved
    <3>1. \A f \in Entries : EntryGoes(f)
      BY <1>5, <2>2 DEF EntryGoes
    <3>2. entry[Inner(r)].st = "new"
      BY <1>5 DEF e
    <3> QED
      BY <1>3, <2>3, <3>1, <3>2 DEF Moved
  <2> QED
    BY <1>1, <1>3, <2>1, <2>3, <2>5, <2>6, InnerOnly
<1>7. CASE ~gatewayDraining
  <2> DEFINE q  == Appended(l, e)
             es == Pushed(l, e)
  <2>1. Prepared(l, e, q, es)
    BY <1>1, <1>2, <1>3, <1>7, EnqueueReady
  <2>2. Serves(q, generation', es, queue', entry')
    BY <1>4, <1>7
  <2> HIDE DEF l, e, q, es
  <2>3. /\ \A f \in Entries : f # e => es[f] = entry[f]
        /\ es[e].st = "queued" /\ es[e].lane = l
        /\ \A k \in Lanes : k # l => q[k] = queue[k]
    BY <2>1 DEF Prepared
  <2>4. \A x \in Runs :
          /\ es[Outer(x)] = entry[Outer(x)]
          /\ x # r => es[Inner(x)] = entry[Inner(x)]
    BY <1>2, <2>3
  <2>5. es[Inner(r)].st = "queued" /\ es[Inner(r)].lane = GlobalOf[r]
    BY <2>3 DEF l, e
  <2>6. TheirLanes(es)
    BY <1>1, <2>4, <2>5 DEF TheirLanes
  <2>7. Nested(es)
    BY <1>1, <1>3, <2>4, <2>5 DEF Nested
  <2>8. \A t \in Sessions : q[t] = queue[t]
    BY <1>2, <2>3
  <2>9. LaneOrder(order', q, es)
    BY <1>1, <1>3, <2>4, <2>6, <2>7, <2>8, InnerOnly
  <2>10. Fresh(es)
    BY <1>5, <2>3 DEF Fresh
  <2>11. Touches(es)
    <3>1. entry[Inner(r)].st = "new"
      BY <1>5 DEF e
    <3> QED
      BY <1>3, <1>5, <2>3, <2>4, <3>1 DEF Touches
  <2> QED
    BY <1>1, <1>4, <2>2, <2>9, <2>10, <2>11, PumpKeeps, ServeMoves
<1> QED
  BY <1>6, <1>7

LEMMA EndsInnerKeeps ==
  ASSUME LInv, NEW r \in Runs, EndsInner(r)
  PROVE  LaneOrder(order', queue', entry') /\ Moved
<1> DEFINE e  == Inner(r)
           es == Ended(e)
<1>1. /\ QueueInv
      /\ LaneOrder(order, queue, entry) /\ TheirLanes(entry) /\ Nested(entry)
      /\ \A t \in Sessions : maxConcurrent[t] = 1
  BY DEF LInv, IInv, LaneOrder, Together
<1>2. /\ e \in Entries
      /\ \A x \in Runs : /\ Outer(x) \in Entries /\ Inner(x) \in Entries
                         /\ Outer(x) # e /\ (Inner(x) = e => x = r)
  BY EntryFacts
<1>3. Settle(e) /\ order' = order
  BY DEF EndsInner, runVars
<1>4. /\ QueueInv' /\ TurnStep
      /\ Serves(queue, generation', es, queue', entry')
      /\ maxConcurrent' = maxConcurrent
  BY <1>1, <1>2, <1>3, SettleStep, CapsStay
<1>5. Ends(e, es)
  BY <1>1, <1>2, <1>3, SettleReady
<1> HIDE DEF e, es
<1>6. /\ \A f \in Entries : f # e => es[f] = entry[f]
      /\ es[e].st = "done" /\ entry[e].st = "running"
  BY <1>5 DEF Ends
<1>7. \A x \in Runs :
        /\ es[Outer(x)] = entry[Outer(x)]
        /\ x # r => es[Inner(x)] = entry[Inner(x)]
  BY <1>2, <1>6
<1>8. es[Inner(r)].st = "done" /\ entry[Inner(r)].st = "running"
  BY <1>6 DEF e
<1>9. TheirLanes(es)
  BY <1>1, <1>7, <1>8 DEF TheirLanes
<1>10. Nested(es)
  BY <1>1, <1>7, <1>8 DEF Nested, Settled
<1>11. LaneOrder(order', queue, es)
  BY <1>1, <1>3, <1>7, <1>9, <1>10, InnerOnly
<1>12. Fresh(es)
  BY <1>6 DEF Fresh
<1>13. es[e].gen = entry[e].gen /\ ~trying[r]
  BY <1>5 DEF Ends, EndsInner
<1>14. Touches(es)
  BY <1>6, <1>7, <1>8, <1>13 DEF Touches
<1> QED
  BY <1>1, <1>4, <1>11, <1>12, <1>14, PumpKeeps, ServeMoves

LEMMA EndsOuterKeeps ==
  ASSUME LInv, NEW r \in Runs, EndsOuter(r)
  PROVE  LaneOrder(order', queue', entry') /\ Moved
<1> DEFINE e  == Outer(r)
           es == Ended(e)
<1>1. /\ QueueInv
      /\ TheirLanes(entry) /\ Nested(entry) /\ OneTurn(entry)
      /\ Lined(order, entry) /\ InOrder(order, queue, entry)
      /\ \A t \in Sessions : maxConcurrent[t] = 1
  BY DEF LInv, IInv, LaneOrder, Together
<1>2. /\ e \in Entries
      /\ \A x \in Runs : /\ Outer(x) \in Entries /\ Inner(x) \in Entries
                         /\ Inner(x) # e /\ (Outer(x) = e => x = r)
  BY EntryFacts
<1>3. Settle(e) /\ order' = order /\ entry[Inner(r)].st \in Settled
  BY DEF EndsOuter, Ending, runVars
<1>4. /\ QueueInv' /\ TurnStep
      /\ Serves(queue, generation', es, queue', entry')
      /\ maxConcurrent' = maxConcurrent
  BY <1>1, <1>2, <1>3, SettleStep, CapsStay
<1>5. Ends(e, es)
  BY <1>1, <1>2, <1>3, SettleReady
<1> HIDE DEF e, es
<1>6. /\ \A f \in Entries : f # e => es[f] = entry[f]
      /\ es[e].st = "done" /\ entry[e].st = "running"
  BY <1>5 DEF Ends
<1>7. \A x \in Runs :
        /\ es[Inner(x)] = entry[Inner(x)]
        /\ x # r => es[Outer(x)] = entry[Outer(x)]
  BY <1>2, <1>6
<1>8. es[Outer(r)].st = "done" /\ entry[Outer(r)].st = "running"
  BY <1>6 DEF e
<1>9. TheirLanes(es)
  BY <1>1, <1>7, <1>8 DEF TheirLanes
<1>10. Nested(es)
  BY <1>1, <1>3, <1>7, <1>8 DEF Nested
<1>11. OneTurn(es)
  BY <1>1, <1>7, <1>8, OneTurnOfLess
<1>12. \A x \in Runs : /\ es[Outer(x)].st = "queued" <=> entry[Outer(x)].st = "queued"
                       /\ es[Outer(x)].st \in {"running", "done"} =>
                            entry[Outer(x)].st \in {"running", "done"}
                       /\ es[Outer(x)].st \in {"new", "refused"} =>
                            entry[Outer(x)].st \in {"new", "refused"}
  BY <1>7, <1>8
<1>13. Lined(order, es)
  BY <1>1, <1>12 DEF Lined
<1>14. InOrder(order, queue, es)
  BY <1>1, <1>12 DEF InOrder
<1>15. LaneOrder(order', queue, es)
  BY <1>3, <1>9, <1>10, <1>11, <1>13, <1>14 DEF LaneOrder
<1>16. Fresh(es)
  BY <1>6 DEF Fresh
<1>17. es[e].gen = entry[e].gen
  BY <1>5 DEF Ends
<1>18. Touches(es)
  BY <1>6, <1>7, <1>17 DEF Touches
<1> QED
  BY <1>1, <1>4, <1>15, <1>16, <1>18, PumpKeeps, ServeMoves

LEMMA CleanupKeeps ==
  ASSUME LInv, NEW s \in Sessions, EnsureSessionRuntimeCleanup(s)
  PROVE  LaneOrder(order', queue', entry') /\ Moved
<1>1. /\ QueueInv
      /\ TheirLanes(entry) /\ Nested(entry) /\ OneTurn(entry)
      /\ Lined(order, entry) /\ InOrder(order, queue, entry)
  BY DEF LInv, IInv, LaneOrder
<1>2. ClearCommandLane(s) /\ order' = order /\ s \in Lanes
  BY LaneFacts DEF EnsureSessionRuntimeCleanup
<1>3. /\ \A x \in Runs : Outer(x) \in Entries /\ Inner(x) \in Entries
      /\ \A x \in Runs : GlobalOf[x] # s
  BY EntryFacts, LaneFacts
<1>4. ASSUME NEW e \in Entries
      PROVE  \/ entry'[e] = entry[e]
             \/ /\ entry[e].st = "queued" /\ entry[e].lane = s
                /\ entry'[e].st = "cleared"
  <2>1. CASE e \in First(queue[s], Len(queue[s]))
    <3>1. entry[e].st = "queued" /\ entry[e].lane = s
      BY <1>1, <1>2, <2>1 DEF First, QueueInv, Ready, QueueOK
    <3>2. entry[e] \in EntryRecord /\ entry'[e] = [entry[e] EXCEPT !.st = "cleared"]
      BY <1>1, <1>2, <2>1 DEF ClearCommandLane, QueueInv, Ready, Typed
    <3> QED
      BY <3>1, <3>2 DEF EntryRecord
  <2>2. CASE e \notin First(queue[s], Len(queue[s]))
    BY <1>2, <2>2 DEF ClearCommandLane
  <2> QED
    BY <2>1, <2>2
<1>5. /\ Len(queue'[s]) = 0
      /\ \A t \in Sessions : t # s => queue'[t] = queue[t]
  <2>1. queue \in [Lanes -> Seq(Entries)]
    BY <1>1 DEF QueueInv, Ready, Typed
  <2>2. queue' = [queue EXCEPT ![s] = <<>>]
    BY <1>2 DEF ClearCommandLane
  <2> QED
    BY <1>2, <2>1, <2>2, LaneFacts, EmptySeq
<1>6. \A x \in Runs :
        /\ entry'[Inner(x)] = entry[Inner(x)]
        /\ \/ entry'[Outer(x)] = entry[Outer(x)]
           \/ entry[Outer(x)].st = "queued" /\ entry'[Outer(x)].st = "cleared"
  BY <1>1, <1>3, <1>4 DEF TheirLanes
<1>7. TheirLanes(entry')
  BY <1>1, <1>6 DEF TheirLanes
<1>8. Nested(entry')
  BY <1>1, <1>6 DEF Nested
<1>9. OneTurn(entry')
  BY <1>1, <1>6, OneTurnOfLess
<1>10. \A x \in Runs :
         /\ entry'[Outer(x)].st = "queued" => entry[Outer(x)].st = "queued"
         /\ entry'[Outer(x)].st \in {"running", "done"} =>
              entry[Outer(x)].st \in {"running", "done"}
         /\ entry'[Outer(x)].st \in {"new", "refused"} =>
              entry[Outer(x)].st \in {"new", "refused"}
  BY <1>6
<1>11. Lined(order', entry')
  BY <1>1, <1>2, <1>10 DEF Lined
<1>12. ASSUME NEW t \in Sessions, NEW x \in Runs, NEW r \in Runs,
              Ahead(queue'[t], Outer(r), Outer(x))
       PROVE  Ahead(queue[t], Outer(r), Outer(x))
  <2>1. CASE t = s
    BY <1>5, <1>12, <2>1 DEF Ahead
  <2>2. CASE t # s
    BY <1>5, <1>12, <2>2
  <2> QED
    BY <2>1, <2>2
<1>13. InOrder(order', queue', entry')
  BY <1>1, <1>2, <1>10, <1>12 DEF InOrder
<1>14. Moved
  <2>1. \A e \in Entries : EntryGoes(e)
    BY <1>4 DEF EntryGoes
  <2> QED
    BY <1>6, <2>1 DEF Moved
<1> QED
  BY <1>7, <1>8, <1>9, <1>11, <1>13, <1>14 DEF LaneOrder

-----------------------------------------------------------------------------
(* Every step *)

\* No step but a reset begins another life.
Lives ==
  \/ generation' = generation
  \/ generation' = [l \in Lanes |-> generation[l] + 1]

Kept ==
  /\ IInv' /\ Together' /\ Moved /\ Lives
  /\ LaneOrder(order', queue', entry')

LEMMA EnqueueKeeps ==
  ASSUME LInv, NEW l \in Lanes, NEW e \in Entries, EnqueueCommandInLane(l, e) \/ Settle(e)
  PROVE  IInv' /\ Together' /\ Lives
<1>1. IInv /\ Together
  BY DEF LInv
<1>2. Next
  BY DEF Next
<1> QED
  BY <1>1, <1>2, NextInv, CapsStay DEF Together, Lives

LEMMA RunKeeps ==
  ASSUME LInv, NEW r \in Runs,
         RunEmbeddedPiAgent(r) \/ Nest(r) \/ EndsOuter(r) \/ EndsInner(r)
  PROVE  Kept
<1>1. /\ Outer(r) \in Entries /\ Inner(r) \in Entries
      /\ SessionOf[r] \in Lanes /\ GlobalOf[r] \in Lanes
  BY EntryFacts, LaneFacts
<1>2. CASE RunEmbeddedPiAgent(r)
  <2>1. EnqueueCommandInLane(SessionOf[r], Outer(r))
    BY <1>2 DEF RunEmbeddedPiAgent
  <2> QED
    BY <1>1, <1>2, <2>1, EnqueueKeeps, AskingKeeps DEF Kept
<1>3. CASE Nest(r)
  <2>1. EnqueueCommandInLane(GlobalOf[r], Inner(r))
    BY <1>3 DEF Nest
  <2> QED
    BY <1>1, <1>3, <2>1, EnqueueKeeps, NestKeeps DEF Kept
<1>4. CASE EndsOuter(r)
  <2>1. Settle(Outer(r))
    BY <1>4 DEF EndsOuter
  <2> QED
    BY <1>1, <1>4, <2>1, EnqueueKeeps, EndsOuterKeeps DEF Kept
<1>5. CASE EndsInner(r)
  <2>1. Settle(Inner(r))
    BY <1>5 DEF EndsInner
  <2> QED
    BY <1>1, <1>5, <2>1, EnqueueKeeps, EndsInnerKeeps DEF Kept
<1> QED
  BY <1>2, <1>3, <1>4, <1>5

LEMMA IdleKeeps ==
  ASSUME LInv, UNCHANGED vars, order' = order
  PROVE  Kept
<1>1. IInv' /\ Together' /\ Lives
  BY NextInv DEF LInv, vars, Together, Lives
<1>2. LaneOrder(order', queue', entry') /\ Moved
  BY StillMoves DEF LInv, vars
<1> QED
  BY <1>1, <1>2 DEF Kept

LEMMA ClearKeeps ==
  ASSUME LInv, NEW s \in Sessions, EnsureSessionRuntimeCleanup(s)
  PROVE  Kept
<1>1. ClearCommandLane(s) /\ s \in Lanes
  BY LaneFacts DEF EnsureSessionRuntimeCleanup
<1>2. Next
  BY <1>1 DEF Next
<1>3. IInv'
  BY <1>2, NextInv DEF LInv
<1>4. Together' /\ Lives
  BY <1>1 DEF LInv, Together, Lives, ClearCommandLane
<1> QED
  BY <1>3, <1>4, CleanupKeeps DEF Kept

LEMMA LoopKeeps ==
  ASSUME LInv, LoopStep
  PROVE  Kept
<1>1. /\ IInv /\ QueueInv /\ Together /\ LaneOrder(order, queue, entry)
      /\ order' = order
  BY DEF LInv, IInv, LoopStep, runVars
<1>2. ASSUME UNCHANGED <<laneVars, entry>>, IInv'
      PROVE  Kept
  <2>1. Together' /\ Lives
    BY <1>1, <1>2 DEF Together, Lives, laneVars
  <2>2. LaneOrder(order', queue', entry') /\ Moved
    BY <1>1, <1>2, StillMoves DEF laneVars
  <2> QED
    BY <1>2, <2>1, <2>2 DEF Kept
<1>3. ASSUME IInv', Together', Lives, TurnStep, Serves(queue, generation', entry, queue', entry')
      PROVE  Kept
  <2>1. Fresh(entry) /\ Touches(entry)
    BY DEF Fresh, Touches
  <2>2. LaneOrder(order', queue', entry')
    BY <1>1, <1>3, <2>1, PumpKeeps DEF IInv, Together
  <2>3. Moved
    BY <1>3, <2>1, ServeMoves
  <2> QED
    BY <1>3, <2>2, <2>3 DEF Kept
<1>4. CASE BeginDrain
  <2>1. /\ UNCHANGED <<laneVars, entry>>
        /\ gatewayDraining' = TRUE
        /\ waiter' = [st |-> IF ActiveTasks = {} THEN "drained" ELSE "waiting",
                      tasks |-> ActiveTasks]
    BY <1>4 DEF BeginDrain
  <2>2. WaiterOK'
    BY <1>1, <2>1, WaitBegins
  <2>3. QueueInv'
    BY <1>1, <2>1 DEF QueueInv, laneVars
  <2> QED
    BY <1>2, <2>1, <2>2, <2>3 DEF IInv
<1>5. CASE PollDrained \/ PollTimedOut
  <2>1. UNCHANGED <<laneVars, entry>>
    BY <1>5 DEF PollDrained, PollTimedOut
  <2>2. Next
    BY <1>5 DEF Next
  <2> QED
    BY <1>1, <1>2, <2>1, <2>2, NextInv
<1>6. CASE EndDrain
  <2>1. ResetAllLanes
    BY <1>6 DEF EndDrain
  <2>2. Next
    BY <2>1 DEF Next
  <2>3. /\ maxConcurrent' = maxConcurrent
        /\ generation' = [l \in Lanes |-> generation[l] + 1]
    BY <2>1 DEF ResetAllLanes, Pump
  <2>4. Together' /\ Lives
    BY <1>1, <2>3 DEF Together, Lives
  <2> QED
    BY <1>1, <1>3, <2>1, <2>2, <2>4, NextInv, ResetStep
<1>7. ASSUME NEW l \in Globals, NEW n \in Concurrencies, SetCommandLaneConcurrency(l, n)
      PROVE  Kept
  <2>1. l \in Lanes /\ l \notin Sessions
    BY LaneFacts
  <2>2. Next
    BY <1>7, <2>1 DEF Next
  <2>3. /\ maxConcurrent' = [maxConcurrent EXCEPT ![l] = IF n < 1 THEN 1 ELSE n]
        /\ generation' = generation
    BY <1>7 DEF SetCommandLaneConcurrency, Pump
  <2>4. maxConcurrent \in [Lanes -> Nat \ {0}]
    BY <1>1 DEF QueueInv, Ready, Typed
  <2>5. Together' /\ Lives
    BY <1>1, <2>1, <2>3, <2>4, LaneFacts DEF Together, Lives
  <2> QED
    BY <1>1, <1>3, <1>7, <2>1, <2>2, <2>5, NextInv, SetConcurrencyStep
<1> QED
  BY <1>4, <1>5, <1>6, <1>7 DEF LoopStep

LEMMA StepKeeps == LInv /\ [LanesNext]_lanesVars => Kept
<1> SUFFICES ASSUME LInv, [LanesNext]_lanesVars PROVE Kept
  OBVIOUS
<1>1. ASSUME NEW r \in Runs, StartAttempt(r) \/ EndAttempt(r)
      PROVE  Kept
  BY <1>1, IdleKeeps DEF StartAttempt, EndAttempt
<1>2. ASSUME NEW s \in Sessions, WaitTimesOut(s)
      PROVE  Kept
  BY <1>2, IdleKeeps DEF WaitTimesOut
<1>3. CASE UNCHANGED lanesVars
  BY <1>3, IdleKeeps DEF lanesVars, runVars
<1> QED
  BY <1>1, <1>2, <1>3, RunKeeps, ClearKeeps, LoopKeeps DEF LanesNext

-----------------------------------------------------------------------------
(* Handles and attempts *)

LEMMA ShapesKept == LInv /\ [LanesNext]_lanesVars => Shapes'
<1> SUFFICES ASSUME LInv, [LanesNext]_lanesVars PROVE Shapes'
  OBVIOUS
<1>0. /\ handle \in [Sessions -> Runs \cup {NoRun}]
      /\ trying \in [Runs -> BOOLEAN]
      /\ attempts \in [Runs -> 0..MaxAttempts]
      /\ watch \in [Sessions -> {"none", "waiting", "ended"}]
      /\ order \in [Sessions -> Seq(Runs)]
  BY DEF LInv, Shapes
<1>1. ASSUME NEW r \in Runs, RunEmbeddedPiAgent(r)
      PROVE  Shapes'
  <2>1. SessionOf[r] \in Sessions /\ order[SessionOf[r]] \in Seq(Runs)
    BY <1>0, LaneFacts
  <2>2. Append(order[SessionOf[r]], r) \in Seq(Runs)
    BY <2>1, AppendProperties
  <2>3. order' \in [Sessions -> Seq(Runs)]
    BY <1>0, <1>1, <2>1, <2>2 DEF RunEmbeddedPiAgent
  <2> QED
    BY <1>0, <1>1, <2>3 DEF RunEmbeddedPiAgent, Shapes
<1>2. ASSUME NEW r \in Runs, StartAttempt(r)
      PROVE  Shapes'
  <2>1. SessionOf[r] \in Sessions
    BY LaneFacts
  <2>2. attempts' \in [Runs -> 0..MaxAttempts]
    <3>1. attempts[r] \in 0..MaxAttempts /\ attempts[r] < MaxAttempts
      BY <1>0, <1>2 DEF StartAttempt
    <3>2. attempts[r] + 1 \in 0..MaxAttempts
      BY <3>1, LanesAssumption
    <3> QED
      BY <1>0, <1>2, <3>2 DEF StartAttempt
  <2>3. trying' \in [Runs -> BOOLEAN] /\ handle' \in [Sessions -> Runs \cup {NoRun}]
    BY <1>0, <1>2, <2>1 DEF StartAttempt
  <2> QED
    BY <1>0, <1>2, <2>2, <2>3 DEF StartAttempt, Shapes
<1>3. ASSUME NEW r \in Runs, EndAttempt(r)
      PROVE  Shapes'
  <2>1. SessionOf[r] \in Sessions
    BY LaneFacts
  <2>2. trying' \in [Runs -> BOOLEAN]
    BY <1>0, <1>3 DEF EndAttempt
  <2>3. /\ handle' \in [Sessions -> Runs \cup {NoRun}]
        /\ watch' \in [Sessions -> {"none", "waiting", "ended"}]
    BY <1>0, <1>3, <2>1 DEF EndAttempt, ClearActiveEmbeddedRun, Notified
  <2> QED
    BY <1>0, <1>3, <2>2, <2>3 DEF EndAttempt, Shapes
<1>4. ASSUME NEW s \in Sessions, EnsureSessionRuntimeCleanup(s) \/ WaitTimesOut(s)
      PROVE  Shapes'
  <2>1. watch' \in [Sessions -> {"none", "waiting", "ended"}]
    BY <1>0, <1>4 DEF EnsureSessionRuntimeCleanup, WaitTimesOut
  <2> QED
    BY <1>0, <1>4, <2>1 DEF EnsureSessionRuntimeCleanup, WaitTimesOut, Shapes
<1>5. ASSUME UNCHANGED runVars
      PROVE  Shapes'
  BY <1>0, <1>5 DEF runVars, Shapes
<1> QED
  BY <1>1, <1>2, <1>3, <1>4, <1>5
     DEF LanesNext, Nest, EndsOuter, EndsInner, LoopStep, lanesVars

\* Which steps leave the attempts and the handles alone.
LEMMA AttemptsOnly ==
  ASSUME [LanesNext]_lanesVars,
         \A r \in Runs : ~StartAttempt(r) /\ ~EndAttempt(r)
  PROVE  UNCHANGED <<handle, trying>>
BY DEF LanesNext, RunEmbeddedPiAgent, Nest, EndsOuter, EndsInner,
       EnsureSessionRuntimeCleanup, WaitTimesOut, LoopStep, lanesVars, runVars

LEMMA TryingKept == LInv /\ [LanesNext]_lanesVars => TryingRuns'
<1> SUFFICES ASSUME LInv, [LanesNext]_lanesVars PROVE TryingRuns'
  OBVIOUS
<1>1. TryingRuns /\ trying \in [Runs -> BOOLEAN]
  BY DEF LInv, Shapes
<1>2. Moved
  BY StepKeeps DEF Kept
<1>3. ASSUME NEW r \in Runs, StartAttempt(r)
      PROVE  TryingRuns'
  BY <1>1, <1>3 DEF StartAttempt, TryingRuns, vars
<1>4. ASSUME NEW r \in Runs, EndAttempt(r)
      PROVE  TryingRuns'
  BY <1>1, <1>4 DEF EndAttempt, TryingRuns, vars
<1>5. CASE UNCHANGED <<handle, trying>>
  BY <1>1, <1>2, <1>5 DEF TryingRuns, Moved
<1> QED
  BY <1>3, <1>4, <1>5, AttemptsOnly

\* Before the first reset, two attempts of one session are one.
LEMMA OneAttempt ==
  ASSUME LInv, \A l \in Lanes : generation[l] = 0,
         NEW r \in Runs, NEW x \in Runs, SessionOf[r] = SessionOf[x],
         entry[Inner(r)].st = "running", entry[Inner(x)].st = "running"
  PROVE  r = x
<1>1. QueueInv /\ TheirLanes(entry) /\ Nested(entry) /\ OneTurn(entry)
  BY DEF LInv, IInv, LaneOrder
<1>2. ASSUME NEW y \in Runs, entry[Inner(y)].st = "running"
      PROVE  entry[Outer(y)].st = "running" /\ entry[Outer(y)].gen = 0
  <2>1. entry[Outer(y)].st = "running"
    BY <1>1, <1>2 DEF Nested, Settled
  <2>2. Outer(y) \in Entries /\ entry[Outer(y)].lane = SessionOf[y] /\ SessionOf[y] \in Lanes
    BY <1>1, <2>1, EntryFacts, LaneFacts DEF TheirLanes
  <2>3. entry[Outer(y)].gen <= generation[SessionOf[y]] /\ entry[Outer(y)].gen \in Nat
    BY <1>1, <2>2 DEF QueueInv, Ready, GenerationOK, Typed, EntryRecord
  <2>4. generation[SessionOf[y]] = 0
    BY <2>2
  <2> QED
    BY <2>1, <2>3, <2>4
<1> QED
  BY <1>1, <1>2 DEF OneTurn

LEMMA HandlesKept == LInv /\ [LanesNext]_lanesVars => HandlesAreExact'
<1> SUFFICES ASSUME LInv, [LanesNext]_lanesVars PROVE HandlesAreExact'
  OBVIOUS
<1>1. /\ HandlesAreExact /\ TryingRuns /\ QueueInv
      /\ handle \in [Sessions -> Runs \cup {NoRun}]
      /\ trying \in [Runs -> BOOLEAN]
  BY DEF LInv, IInv, Shapes
<1>2. NoRun \notin Runs /\ \A x \in Runs : SessionOf[x] \in Sessions
  BY LanesAssumption, LaneFacts
<1>3. (\A l \in Lanes : generation'[l] = 0) => \A l \in Lanes : generation[l] = 0
  <2>1. Lives /\ generation \in [Lanes -> Nat]
    BY <1>1, StepKeeps DEF Kept, QueueInv, Ready, Typed
  <2> QED
    BY <2>1 DEF Lives
<1>4. ASSUME NEW r \in Runs, StartAttempt(r)
      PROVE  HandlesAreExact'
  <2>1. /\ trying' = [trying EXCEPT ![r] = TRUE]
        /\ handle' = [handle EXCEPT ![SessionOf[r]] = r]
        /\ entry[Inner(r)].st = "running"
    BY <1>4 DEF StartAttempt
  <2>2. ASSUME NEW x \in Runs, handle'[SessionOf[x]] = x
        PROVE  trying'[x]
    BY <1>1, <1>2, <2>1, <2>2 DEF HandlesAreExact
  <2>3. ASSUME NEW x \in Runs, trying'[x], \A l \in Lanes : generation'[l] = 0
        PROVE  handle'[SessionOf[x]] = x
    <3>1. CASE x = r
      BY <1>1, <1>2, <2>1, <3>1
    <3>2. CASE x # r
      <4>1. trying[x] /\ handle[SessionOf[x]] = x
        BY <1>1, <1>3, <2>1, <2>3, <3>2 DEF HandlesAreExact
      <4>2. entry[Inner(x)].st = "running"
        BY <1>1, <4>1 DEF TryingRuns
      <4>3. SessionOf[x] # SessionOf[r]
        BY <1>3, <2>1, <2>3, <3>2, <4>2, OneAttempt
      <4> QED
        BY <1>1, <1>2, <2>1, <4>1, <4>3
    <3> QED
      BY <3>1, <3>2
  <2> QED
    BY <2>2, <2>3 DEF HandlesAreExact
<1>5. ASSUME NEW r \in Runs, EndAttempt(r)
      PROVE  HandlesAreExact'
  <2>1. /\ trying' = [trying EXCEPT ![r] = FALSE]
        /\ \/ handle[SessionOf[r]] = r /\ handle' = [handle EXCEPT ![SessionOf[r]] = NoRun]
           \/ handle[SessionOf[r]] # r /\ handle' = handle
    BY <1>5 DEF EndAttempt, ClearActiveEmbeddedRun
  <2>2. ASSUME NEW x \in Runs, handle'[SessionOf[x]] = x
        PROVE  trying'[x]
    BY <1>1, <1>2, <2>1, <2>2 DEF HandlesAreExact
  <2>3. ASSUME NEW x \in Runs, trying'[x], \A l \in Lanes : generation'[l] = 0
        PROVE  handle'[SessionOf[x]] = x
    BY <1>1, <1>2, <1>3, <2>1, <2>3 DEF HandlesAreExact
  <2> QED
    BY <2>2, <2>3 DEF HandlesAreExact
<1>6. CASE UNCHANGED <<handle, trying>>
  BY <1>1, <1>3, <1>6 DEF HandlesAreExact
<1> QED
  BY <1>4, <1>5, <1>6, AttemptsOnly

-----------------------------------------------------------------------------
(* The invariant is inductive *)

LEMMA LanesInitInv == LanesInit => LInv
<1> SUFFICES ASSUME LanesInit PROVE LInv
  OBVIOUS
<1>1. Init /\ IInv
  BY InitInv DEF LanesInit
<1>2. \A r \in Runs : entry[Outer(r)].st = "new" /\ entry[Inner(r)].st = "new"
  BY <1>1, EntryFacts DEF Init
<1>3. \A s \in Sessions : order[s] = <<>> /\ Len(order[s]) = 0
  BY EmptySeq DEF LanesInit
<1>4. Shapes
  BY LanesAssumption, EmptySeq DEF LanesInit, Shapes
<1>5. Together
  BY <1>1, LaneFacts DEF Init, Together
<1>6. TheirLanes(entry) /\ Nested(entry) /\ OneTurn(entry)
  BY <1>2 DEF TheirLanes, Nested, OneTurn
<1>7. Lined(order, entry) /\ InOrder(order, queue, entry)
  BY <1>3 DEF Lined, InOrder, Ahead
<1>8. TryingRuns /\ HandlesAreExact
  <2>1. \A r \in Runs : ~trying[r] /\ handle[SessionOf[r]] = NoRun /\ NoRun # r
    BY LaneFacts, LanesAssumption DEF LanesInit
  <2> QED
    BY <2>1 DEF TryingRuns, HandlesAreExact
<1> QED
  BY <1>1, <1>4, <1>5, <1>6, <1>7, <1>8 DEF LInv, LaneOrder

LEMMA LanesNextInv == LInv /\ [LanesNext]_lanesVars => LInv'
BY StepKeeps, ShapesKept, TryingKept, HandlesKept DEF LInv, Kept

LEMMA LanesInvariance == LanesSpec => []LInv
BY LanesInitInv, LanesNextInv, PTL DEF LanesSpec

-----------------------------------------------------------------------------
(* The properties *)

\* Every registered handle is that of an attempt going on, and until the lanes are
\* reset every attempt going on is registered.
THEOREM HandlesAreSound == LanesSpec => []AgentLanesInv
<1>1. LInv => AgentLanesInv
  BY DEF LInv, Shapes, LaneOrder, Nested, AgentLanesInv, LanesTypeOK
<1> QED
  BY <1>1, LanesInvariance, PTL

\* Who waits for the end of a session's run is told when the registered run ends its
\* attempt, and at no other moment.
THEOREM WaitersAreTold == LanesSpec => ToldWhenOver
<1> DEFINE Told ==
      \A s \in Sessions :
        watch[s] = "waiting" /\ watch'[s] = "ended" =>
          handle[s] # NoRun /\ trying[handle[s]] /\ ~trying'[handle[s]]
<1>1. LInv /\ [LanesNext]_lanesVars => [Told]_lanesVars
  <2> SUFFICES ASSUME LInv, [LanesNext]_lanesVars, NEW s \in Sessions,
                      watch[s] = "waiting", watch'[s] = "ended"
               PROVE  handle[s] # NoRun /\ trying[handle[s]] /\ ~trying'[handle[s]]
    OBVIOUS
  <2>0. /\ watch \in [Sessions -> {"none", "waiting", "ended"}]
        /\ trying \in [Runs -> BOOLEAN]
    BY DEF LInv, Shapes
  <2>1. ASSUME watch' = watch
        PROVE  FALSE
    BY <2>1
  <2>2. ASSUME NEW r \in Runs, EndAttempt(r)
        PROVE  handle[s] # NoRun /\ trying[handle[s]] /\ ~trying'[handle[s]]
    <3>1. trying[r] /\ trying' = [trying EXCEPT ![r] = FALSE]
      BY <2>2 DEF EndAttempt
    <3>2. handle[SessionOf[r]] = r /\ watch' = Notified(SessionOf[r])
      BY <2>1, <2>2 DEF EndAttempt, ClearActiveEmbeddedRun
    <3>3. s = SessionOf[r]
      BY <2>0, <3>2 DEF Notified
    <3> QED
      BY <2>0, <3>1, <3>2, <3>3, LanesAssumption
  <2>3. ASSUME NEW t \in Sessions, EnsureSessionRuntimeCleanup(t)
        PROVE  FALSE
    <3>1. watch[t] # "waiting"
          /\ watch' = [watch EXCEPT ![t] = IF handle[t] = NoRun THEN "none" ELSE "waiting"]
      BY <2>3 DEF EnsureSessionRuntimeCleanup
    <3> QED
      BY <2>0, <3>1
  <2>4. ASSUME NEW t \in Sessions, WaitTimesOut(t)
        PROVE  FALSE
    BY <2>0, <2>4 DEF WaitTimesOut
  <2> QED
    BY <2>1, <2>2, <2>3, <2>4
       DEF LanesNext, RunEmbeddedPiAgent, Nest, EndsOuter, EndsInner, StartAttempt,
           LoopStep, lanesVars, runVars
<1> QED
  BY <1>1, LanesInvariance, PTL DEF LanesSpec, ToldWhenOver

-----------------------------------------------------------------------------
(* The lanes implement SessionTurns *)

\* The state of a run whose two entries have the statuses o and i.
Stage(o, i) ==
  CASE i = "running" -> "executing"
    [] i \in Settled \/ o \in Settled -> "over"
    [] o = "new" -> "new"
    [] OTHER -> "waiting"

Fits(o, i) ==
  /\ o \in Statuses /\ i \in Statuses
  /\ i # "new" => o \in {"running", "done"}
  /\ o = "done" => i \in Settled

LEMMA StageFacts ==
  ASSUME NEW o, NEW i, Fits(o, i)
  PROVE  /\ Stage(o, i) = "executing" <=> i = "running"
         /\ Stage(o, i) = "new" <=> o = "new"
         /\ Stage(o, i) = "over" <=> o \in Settled \/ i \in Settled
         /\ Stage(o, i) = "waiting" <=> o \in {"queued", "running"} /\ i \in {"new", "queued"}
BY DEF Fits, Stage, Statuses, Settled

\* One status of a step, as EntryGoes has it.
Goes(a, b) ==
  \/ b = a
  \/ a = "new" /\ b \in {"queued", "running", "refused"}
  \/ a = "queued" /\ b \in {"running", "cleared"}
  \/ a = "running" /\ b = "done"

LEMMA StageGoes ==
  ASSUME NEW o, NEW i, NEW p, NEW j, Fits(o, i), Fits(p, j), Goes(o, p), Goes(i, j),
         i = "new" /\ j # "new" => o = "running"
  PROVE  Stage(p, j) = Stage(o, i) \/ <<Stage(o, i), Stage(p, j)>> \in Turns!Moves
<1>1. CASE i = "running"
  BY <1>1, StageFacts DEF Fits, Goes, Turns!Moves, Statuses, Settled
<1>2. CASE o \in Settled \/ i \in Settled
  BY <1>2, StageFacts DEF Fits, Goes, Turns!Moves, Statuses, Settled
<1>3. CASE o = "new"
  BY <1>3, StageFacts DEF Fits, Goes, Turns!Moves, Statuses, Settled
<1>4. CASE o \in {"queued", "running"} /\ i \in {"new", "queued"}
  BY <1>4, StageFacts DEF Fits, Goes, Turns!Moves, Statuses, Settled
<1> QED
  BY <1>1, <1>2, <1>3, <1>4 DEF Fits, Statuses, Settled

LEMMA FitsNow ==
  ASSUME LInv, NEW r \in Runs
  PROVE  /\ Fits(entry[Outer(r)].st, entry[Inner(r)].st)
         /\ StateOf(r) = Stage(entry[Outer(r)].st, entry[Inner(r)].st)
<1>1. entry \in [Entries -> EntryRecord] /\ Nested(entry)
  BY DEF LInv, IInv, QueueInv, Ready, Typed, LaneOrder
<1>2. entry[Outer(r)].st \in Statuses /\ entry[Inner(r)].st \in Statuses
  BY <1>1, EntryFacts DEF EntryRecord
<1> QED
  BY <1>1, <1>2 DEF Fits, Nested, StateOf, Stage

LEMMA FitsNext ==
  ASSUME LInv', NEW r \in Runs
  PROVE  /\ Fits(entry'[Outer(r)].st, entry'[Inner(r)].st)
         /\ StateOf(r)' = Stage(entry'[Outer(r)].st, entry'[Inner(r)].st)
<1>1. entry' \in [Entries -> EntryRecord] /\ Nested(entry')
  BY DEF LInv, IInv, QueueInv, Ready, Typed, LaneOrder
<1>2. entry'[Outer(r)].st \in Statuses /\ entry'[Inner(r)].st \in Statuses
  BY <1>1, EntryFacts DEF EntryRecord
<1> QED
  BY <1>1, <1>2 DEF Fits, Nested, StateOf, Stage

Home == CHOOSE l \in Lanes : TRUE

LEMMA HomeFacts == Home \in Lanes
BY LanesAssumption DEF Home

\* The turn of a run, as the refinement mapping has it.
TurnOf(r) == IF entry[Inner(r)].st \in {"running", "done"} THEN entry[Outer(r)].gen ELSE 0

\* A run takes one step of SessionTurns, keeps its turn unless it begins ...
LEMMA RunMoves ==
  ASSUME LInv, LInv', Moved, NEW r \in Runs
  PROVE  /\ \/ StateOf(r)' = StateOf(r)
            \/ <<StateOf(r), StateOf(r)'>> \in Turns!Moves
         /\ StateOf(r) = "executing" \/ StateOf(r)' # "executing" => TurnOf(r)' = TurnOf(r)
<1> DEFINE o == entry[Outer(r)].st
           i == entry[Inner(r)].st
           p == entry'[Outer(r)].st
           j == entry'[Inner(r)].st
<1>1. Fits(o, i) /\ StateOf(r) = Stage(o, i)
  BY FitsNow
<1>2. Fits(p, j) /\ StateOf(r)' = Stage(p, j)
  BY FitsNext
<1>3. EntryGoes(Outer(r)) /\ EntryGoes(Inner(r))
  BY EntryFacts DEF Moved
<1>4. Goes(o, p) /\ Goes(i, j)
  BY <1>3 DEF EntryGoes, Goes
<1>5. i = "new" /\ j # "new" => o = "running"
  BY DEF Moved
<1>6. /\ i \in {"running", "done"} => o \in {"running", "done"}
      /\ o \in {"running", "done"} => entry'[Outer(r)].gen = entry[Outer(r)].gen
  BY <1>1, <1>3 DEF Fits, EntryGoes
<1>7. /\ TurnOf(r) = IF i \in {"running", "done"} THEN entry[Outer(r)].gen ELSE 0
      /\ TurnOf(r)' = IF j \in {"running", "done"} THEN entry'[Outer(r)].gen ELSE 0
  BY DEF TurnOf
<1> HIDE DEF o, i, p, j
<1>8. i = "running" \/ j # "running" => TurnOf(r)' = TurnOf(r)
  BY <1>4, <1>6, <1>7 DEF Goes
<1> QED
  BY <1>1, <1>2, <1>4, <1>5, <1>8, StageGoes, StageFacts

\* ... and begins, if it begins, when its turn has come.
LEMMA RunBegins ==
  ASSUME LInv', NEW r \in Runs, StateOf(r)' = "executing"
  PROVE  /\ TurnOf(r)' \in 0..generation'[Home]
         /\ \A x \in Runs \ {r} :
              SessionOf[x] = SessionOf[r] /\ StateOf(x)' = "executing" =>
                TurnOf(x)' # TurnOf(r)'
         /\ generation'[Home] = 0 =>
              \A x \in Runs : Ahead(order'[SessionOf[r]], x, r) => StateOf(x)' = "over"
<1>1. /\ QueueInv' /\ Together'
      /\ TheirLanes(entry') /\ Nested(entry') /\ OneTurn(entry')
      /\ Lined(order', entry') /\ InOrder(order', queue', entry')
      /\ order' \in [Sessions -> Seq(Runs)]
  BY DEF LInv, IInv, LaneOrder, Shapes
<1>2. ASSUME NEW x \in Runs, entry'[Outer(x)].st = "running"
      PROVE  entry'[Outer(x)].gen \in 0..generation'[Home]
  <2>1. /\ Outer(x) \in Entries /\ entry'[Outer(x)].lane = SessionOf[x]
        /\ SessionOf[x] \in Lanes /\ Home \in Lanes
    BY <1>1, <1>2, EntryFacts, LaneFacts, HomeFacts DEF TheirLanes
  <2>2. /\ entry'[Outer(x)].gen <= generation'[SessionOf[x]]
        /\ entry'[Outer(x)].gen \in Nat /\ generation'[Home] \in Nat
    BY <1>1, <2>1 DEF QueueInv, Ready, GenerationOK, Typed, EntryRecord
  <2>3. generation'[SessionOf[x]] = generation'[Home]
    BY <1>1, <2>1 DEF Together
  <2> QED
    BY <2>2, <2>3
<1>3. ASSUME NEW x \in Runs, StateOf(x)' = "executing"
      PROVE  entry'[Outer(x)].st = "running" /\ TurnOf(x)' = entry'[Outer(x)].gen
  <2>1. entry'[Inner(x)].st = "running"
    BY <1>3, FitsNext, StageFacts
  <2>2. entry'[Outer(x)].st = "running"
    BY <1>1, <2>1 DEF Nested, Settled
  <2> QED
    BY <2>1, <2>2 DEF TurnOf
<1>4. entry'[Outer(r)].st = "running" /\ TurnOf(r)' = entry'[Outer(r)].gen
  BY <1>3
<1>5. TurnOf(r)' \in 0..generation'[Home]
  BY <1>2, <1>4
<1>6. ASSUME NEW x \in Runs \ {r}, SessionOf[x] = SessionOf[r], StateOf(x)' = "executing"
      PROVE  TurnOf(x)' # TurnOf(r)'
  <2>1. entry'[Outer(x)].st = "running" /\ TurnOf(x)' = entry'[Outer(x)].gen
    BY <1>3, <1>6
  <2> QED
    BY <1>1, <1>4, <1>6, <2>1 DEF OneTurn
<1>7. ASSUME generation'[Home] = 0, NEW x \in Runs, Ahead(order'[SessionOf[r]], x, r)
      PROVE  StateOf(x)' = "over"
  <2> DEFINE s == SessionOf[r]
  <2>1. s \in Sessions
    BY LaneFacts
  <2>2. SessionOf[x] = s /\ entry'[Outer(x)].st \notin {"new", "refused"}
    BY <1>1, <1>7, <2>1 DEF Ahead, Lined
  <2>5. x # r /\ entry'[Outer(x)].st # "queued"
    BY <1>1, <1>4, <1>7, <2>1 DEF InOrder
  <2>6. entry'[Outer(x)].st # "running"
    <3>1. ASSUME entry'[Outer(x)].st = "running"
          PROVE  FALSE
      <4>1. entry'[Outer(x)].gen \in 0..0 /\ entry'[Outer(r)].gen \in 0..0
        BY <1>2, <1>4, <1>7, <3>1
      <4>2. entry'[Outer(x)].gen = entry'[Outer(r)].gen
        BY <4>1
      <4> QED
        BY <1>1, <1>4, <2>2, <2>5, <3>1, <4>2 DEF OneTurn
    <3> QED
      BY <3>1
  <2>7. entry'[Outer(x)].st \in Settled
    BY <2>2, <2>5, <2>6, FitsNext DEF Fits, Statuses
  <2> QED
    BY <2>7, FitsNext, StageFacts
<1> QED
  BY <1>5, <1>6, <1>7

LEMMA OrderGrows ==
  ASSUME LInv, LInv', Moved, [LanesNext]_lanesVars
  PROVE  \/ order' = order
         \/ \E r \in Runs :
              /\ StateOf(r) = "new" /\ StateOf(r)' = "waiting"
              /\ order' = [order EXCEPT ![SessionOf[r]] = Append(@, r)]
<1>1. ASSUME NEW r \in Runs, RunEmbeddedPiAgent(r), ~gatewayDraining
      PROVE  StateOf(r) = "new" /\ StateOf(r)' = "waiting"
  <2>1. /\ entry[Outer(r)].st = "new"
        /\ order' = [order EXCEPT ![SessionOf[r]] = Append(@, r)]
    BY <1>1 DEF RunEmbeddedPiAgent, EnqueueCommandInLane
  <2>2. order \in [Sessions -> Seq(Runs)] /\ SessionOf[r] \in Sessions
    BY LaneFacts DEF LInv, Shapes
  <2>3. order[SessionOf[r]] \in Seq(Runs) /\ order'[SessionOf[r]] = Append(order[SessionOf[r]], r)
    BY <2>1, <2>2
  <2>4. \E i \in 1..Len(order'[SessionOf[r]]) : order'[SessionOf[r]][i] = r
    BY <2>3, AppendProperties, LenProperties
  <2>5. entry'[Outer(r)].st \notin {"new", "refused"}
    BY <2>2, <2>4 DEF LInv, LaneOrder, Lined
  <2>6. entry'[Outer(r)].st \in {"queued", "running"}
    BY <2>1, <2>5, EntryFacts DEF Moved, EntryGoes
  <2>7. entry[Inner(r)].st = "new"
    BY <2>1, FitsNow DEF Fits
  <2>8. entry'[Inner(r)].st = "new"
    BY <2>1, <2>7 DEF Moved
  <2> QED
    BY <2>1, <2>6, <2>8, FitsNow, FitsNext, StageFacts
<1>2. ASSUME NEW r \in Runs, RunEmbeddedPiAgent(r)
      PROVE  \/ order' = order
             \/ order' = [order EXCEPT ![SessionOf[r]] = Append(@, r)] /\ ~gatewayDraining
  BY <1>2 DEF RunEmbeddedPiAgent
<1>3. ASSUME \A r \in Runs : ~RunEmbeddedPiAgent(r)
      PROVE  order' = order
  BY <1>3 DEF LanesNext, Nest, EndsOuter, EndsInner, StartAttempt, EndAttempt,
              EnsureSessionRuntimeCleanup, WaitTimesOut, LoopStep, lanesVars, runVars
<1> QED
  BY <1>1, <1>2, <1>3

LEMMA TurnsInitially == LanesInit => Turns!TurnsInit
<1> SUFFICES ASSUME LanesInit PROVE Turns!TurnsInit
  OBVIOUS
<1>1. LInv
  BY LanesInitInv
<1>2. \A r \in Runs : entry[Outer(r)].st = "new" /\ entry[Inner(r)].st = "new"
  BY EntryFacts DEF LanesInit, Init
<1>3. \A r \in Runs : StateOf(r) = "new" /\ TurnOf(r) = 0
  BY <1>1, <1>2, FitsNow, StageFacts DEF TurnOf
<1>4. generation[Home] = 0
  BY HomeFacts DEF LanesInit, Init
<1>5. order = [s \in Sessions |-> <<>>]
  BY DEF LanesInit
<1> QED
  BY <1>3, <1>4, <1>5 DEF Turns!TurnsInit, TurnOf, Home, Sessions

LEMMA TurnsStep ==
  ASSUME LInv, LInv', [LanesNext]_lanesVars
  PROVE  Turns!TurnsNext
<1>1. Moved /\ Lives
  BY StepKeeps DEF Kept
<1>2. \A r \in Runs : StateOf(r)' = StateOf(r) \/ <<StateOf(r), StateOf(r)'>> \in Turns!Moves
  BY <1>1, RunMoves
<1>3. \A r \in Runs :
        StateOf(r) = "executing" \/ StateOf(r)' # "executing" => TurnOf(r)' = TurnOf(r)
  BY <1>1, RunMoves
<1>4. /\ order' \in [Sessions -> Seq(Runs)]
      /\ \A r \in Runs : SessionOf[r] \in Sessions
  BY LaneFacts DEF LInv, Shapes
<1>5. generation'[Home] \in {generation[Home], generation[Home] + 1}
  BY <1>1, HomeFacts DEF Lives
<1>6. \A r \in Runs : Turns!Begins(r) <=> StateOf(r) # "executing" /\ StateOf(r)' = "executing"
  BY DEF Turns!Begins
<1>7. ASSUME NEW r \in Runs, StateOf(r)' = "executing"
      PROVE  Turns!HasItsTurn(r)
  BY <1>7, RunBegins DEF Turns!HasItsTurn, TurnOf, Home
<1>8. ASSUME NEW r \in Runs, StateOf(r)' = "executing", generation'[Home] = 0
      PROVE  Turns!IsNext(r)
  <2> SUFFICES ASSUME NEW i \in DOMAIN order'[SessionOf[r]],
                      NEW j \in DOMAIN order'[SessionOf[r]],
                      i < j, order'[SessionOf[r]][j] = r
               PROVE  [x \in Runs |-> StateOf(x)]'[order'[SessionOf[r]][i]] = "over"
    BY DEF Turns!IsNext
  <2>1. order'[SessionOf[r]] \in Seq(Runs)
    BY <1>4
  <2>2. /\ i \in 1..Len(order'[SessionOf[r]]) /\ j \in 1..Len(order'[SessionOf[r]])
        /\ order'[SessionOf[r]][i] \in Runs
    BY <2>1, LenProperties, ElementOfSeq
  <2>3. PICK x \in Runs : x = order'[SessionOf[r]][i]
    BY <2>2
  <2>4. Ahead(order'[SessionOf[r]], x, r)
    BY <2>2, <2>3 DEF Ahead
  <2>5. StateOf(x)' = "over"
    BY <1>8, <2>4, RunBegins
  <2> QED
    BY <2>3, <2>5
<1>9. \A r \in Runs : Turns!Begins(r) =>
        Turns!HasItsTurn(r) /\ (generation'[Home] = 0 => Turns!IsNext(r))
  BY <1>6, <1>7, <1>8
<1>10. \/ order' = order
       \/ \E r \in Runs :
            /\ StateOf(r) = "new" /\ StateOf(r)' = "waiting"
            /\ order' = [order EXCEPT ![SessionOf[r]] = Append(@, r)]
  BY <1>1, OrderGrows
<1> QED
  BY <1>2, <1>3, <1>5, <1>6, <1>9, <1>10 DEF Turns!TurnsNext, TurnOf, Home

\* Runs of a session execute one at a time and in order, whatever is cleared,
\* refused or capped meanwhile; a restart in place begins other turns.
THEOREM LanesImplementTurns == LanesSpec => ImplementsTurns
<1>1. LInv /\ LInv' /\ [LanesNext]_lanesVars => [Turns!TurnsNext]_(Turns!turnVars)
  BY TurnsStep
<1> QED
  BY <1>1, TurnsInitially, LanesInvariance, PTL DEF LanesSpec, ImplementsTurns, Turns!TurnsSpec

=============================================================================
