-------------------------- MODULE AcpSessionsProofs --------------------------
(***************************************************************************)
(* Proofs about a turn and what is seen of it.                             *)
(*                                                                         *)
(* AcpSessions, for any sessions and calls: the operations of a session    *)
(* take place one at a time, a turn keeps its runtime, and the limit is    *)
(* kept unless runtimes were being created at the same time.               *)
(*                                                                         *)
(* DraftStream, for any number of texts and messages and whatever length a *)
(* first preview must have: the preview of a reply shows the last text, in *)
(* its own message, and nothing is left of one that was cleared.           *)
(***************************************************************************)
EXTENDS AcpSessions, DraftStream, FiniteSetTheorems, TLAPS

-----------------------------------------------------------------------------
(* The inductive invariant: the chains of the sessions *)

CallRecords ==
  [at : {"new", "evicting", "over"}, kind : Kinds \cup {"none"},
   todo : SUBSET AcpSessionKeys, stale : SUBSET AcpSessionKeys,
   op : {"none", "queued", "running", "settled"}, of : Kinds \cup {"none"},
   on : AcpSessionKeys \cup {"none"}, after : AcpCalls \cup {NoCall}, step : Nat, ok : BOOLEAN]

ChainTypes ==
  /\ call \in [AcpCalls -> CallRecords]
  /\ tail \in [AcpSessionKeys -> AcpCalls \cup {NoCall}]

\* An operation is one its call was made for, or an eviction on the way to it.
OpsAreCalled ==
  \A c \in AcpCalls :
    /\ call[c].op # "none" =>
         /\ call[c].at = "evicting" /\ call[c].of \in Kinds /\ call[c].on \in AcpSessionKeys
         /\ call[c].of = "evict" \/ (call[c].of = call[c].kind /\ call[c].on = AcpTarget[c])
    /\ call[c].at = "evicting" => call[c].kind \in AcpKinds[c]
    /\ call[c].op = "running" => /\ call[c].step \in 1..Len(Script(call[c].of))
                                 /\ call[c].after = NoCall

\* The tail of a session is an operation on it, be it settled.
TailsAreTheirs ==
  \A s \in AcpSessionKeys : tail[s] # NoCall => call[tail[s]].op # "none" /\ call[tail[s]].on = s

\* Operations that wait or run stand in a row: each is after the one before it, the
\* first after none, and the last is the tail.
Unsettled(c) == call[c].op \in {"queued", "running"}
InRow(pos) ==
  /\ \A c \in AcpCalls : Unsettled(c) =>
       LET s == call[c].on IN
       /\ tail[s] \in AcpCalls /\ Unsettled(tail[s]) /\ pos[c] <= pos[tail[s]]
       /\ call[c].after # NoCall =>
            /\ Unsettled(call[c].after) /\ call[call[c].after].on = s
            /\ pos[call[c].after] < pos[c]
  /\ \A c, d \in AcpCalls : Unsettled(c) /\ Unsettled(d) /\ call[c].on = call[d].on =>
       /\ pos[c] = pos[d] => c = d
       /\ pos[d] < pos[c] => call[c].after # NoCall /\ pos[d] <= pos[call[c].after]
OperationsQueue == \E pos \in [AcpCalls -> Nat] : InRow(pos)

ChainIInv == ChainTypes /\ OpsAreCalled /\ TailsAreTheirs /\ OperationsQueue

-----------------------------------------------------------------------------
(* The inductive invariant: the runtimes *)

RuntimeTypes ==
  /\ cached \in [AcpSessionKeys -> {"none", "fresh", "idle"}]
  /\ meta \in [AcpSessionKeys -> {"none", "idle", "running", "error"}]
  /\ activeTurn \in [AcpSessionKeys -> AcpCalls \cup {NoCall}]
  /\ open \in SUBSET AcpSessionKeys /\ misstated \in SUBSET AcpSessionKeys
  /\ overlapped \in BOOLEAN

\* An operation c that is at a step of its script.
Doing(c, kind, step) == call[c].op = "running" /\ call[c].of = kind /\ call[c].step = step
TurnIsActive(c) == Doing(c, "turn", 4) \/ Doing(c, "turn", 5)

\* A runtime is cached from the time it is there until it is being closed.
CachedIsOpen == \A s \in AcpSessionKeys : cached[s] # "none" => s \in open
KeepsRuntime ==
  \A c \in AcpCalls :
    /\ call[c].op = "running" /\ call[c].of \in {"turn", "status"} /\ call[c].step > 1 =>
         cached[call[c].on] # "none"
    /\ call[c].op = "running" /\ call[c].of = "evict" => cached[call[c].on] = "none"
    /\ Doing(c, "init", 2) => call[c].on \in open

\* Nothing is done with a session before it is initialized.
WillInitialize(c) ==
  /\ "init" \in AcpKinds[c] /\ (call[c].at = "new" \/ call[c].kind = "init")
  /\ ~(call[c].of = "init" /\ call[c].op = "settled")
NewIsUntouched ==
  \A c \in AcpCalls : WillInitialize(c) =>
    /\ meta[AcpTarget[c]] = "none" /\ cached[AcpTarget[c]] = "none"
    /\ \A d \in AcpCalls : call[d].op = "running" /\ call[d].on = AcpTarget[c] =>
         d = c /\ call[d].of = "init"

ActiveIsTurn ==
  \A s \in AcpSessionKeys, c \in AcpCalls :
    activeTurn[s] = c <=> TurnIsActive(c) /\ call[c].on = s
RunningIsActive ==
  \A s \in AcpSessionKeys : meta[s] = "running" /\ s \notin misstated => activeTurn[s] # NoCall

\* As long as no two runtimes have been in creation, there is room for the one that is.
Cached(s) == {x \in AcpSessionKeys \ {s} : cached[x] # "none"}
Ensures == {"turn", "cancel", "close", "reset", "option", "status"}
Creates(c) ==
  /\ call[c].op = "running"
  /\ call[c].of = "init" \/ (call[c].of \in Ensures /\ call[c].step = 1)
RoomForOne ==
  ~overlapped =>
    /\ Cardinality({x \in AcpSessionKeys : cached[x] # "none"}) <= MaxSessions
    /\ \A c \in AcpCalls : Creates(c) =>
         /\ Cardinality(Cached(call[c].on)) < MaxSessions
         /\ \A d \in AcpCalls : Creates(d) => c = d

RuntimeIInv ==
  /\ RuntimeTypes /\ CachedIsOpen /\ KeepsRuntime /\ NewIsUntouched
  /\ ActiveIsTurn /\ RunningIsActive /\ RoomForOne

AcpIInv == ChainIInv /\ RuntimeIInv
-----------------------------------------------------------------------------
(* Scripts *)

LEMMA Scripts ==
  /\ Script("turn") = <<"ensure", "controls", "mark_running", "stream", "mark_over", "finish">>
  /\ Script("cancel") = <<"ensure", "cancel", "mark_over">>
  /\ Script("close") = <<"ensure", "close", "clear_meta">>
  /\ Script("reset") = <<"ensure", "close", "persist">>
  /\ Script("option") = <<"ensure", "ask", "persist">>
  /\ Script("update") = <<"persist">>
  /\ Script("status") = <<"ensure", "ask", "finish">>
  /\ Script("init") = <<"create", "write_meta">>
  /\ Script("evict") = <<"evict">>
BY DEF Script

Length(kind) ==
  CASE kind = "turn" -> 6 [] kind \in {"cancel", "close", "reset", "option", "status"} -> 3
    [] kind = "init" -> 2 [] kind \in {"update", "evict"} -> 1

LEMMA ScriptLengths ==
  ASSUME NEW kind \in Kinds
  PROVE  /\ Len(Script(kind)) = Length(kind) /\ Length(kind) \in 1..6
         /\ Script(kind)[1] = "ensure" <=> kind \in Ensures
         /\ Script(kind)[1] = "create" <=> kind = "init"
         /\ Script(kind)[1] = "persist" <=> kind = "update"
BY Scripts DEF Kinds, Length, Ensures

\* At which step of which operation something is awaited.
Places(step) ==
  CASE step = "ensure" -> Ensures \X {1}
    [] step = "create" -> {<<"init", 1>>}
    [] step = "write_meta" -> {<<"init", 2>>}
    [] step = "controls" -> {<<"turn", 2>>}
    [] step = "mark_running" -> {<<"turn", 3>>}
    [] step = "stream" -> {<<"turn", 4>>}
    [] step = "mark_over" -> {<<"turn", 5>>, <<"cancel", 3>>}
    [] step = "finish" -> {<<"turn", 6>>, <<"status", 3>>}
    [] step = "cancel" -> {<<"cancel", 2>>}
    [] step = "close" -> {<<"close", 2>>, <<"reset", 2>>}
    [] step = "clear_meta" -> {<<"close", 3>>}
    [] step = "persist" -> {<<"reset", 3>>, <<"option", 3>>, <<"update", 1>>}
    [] step = "ask" -> {<<"option", 2>>, <<"status", 2>>}
    [] step = "evict" -> {<<"evict", 1>>}
Steps == {"ensure", "create", "write_meta", "controls", "mark_running", "stream", "mark_over",
          "finish", "cancel", "close", "clear_meta", "persist", "ask", "evict"}

LEMMA PlacesAre ==
  /\ "ensure" \in Steps /\ Places("ensure") = Ensures \X {1}
  /\ "create" \in Steps /\ Places("create") = {<<"init", 1>>}
  /\ "write_meta" \in Steps /\ Places("write_meta") = {<<"init", 2>>}
  /\ "controls" \in Steps /\ Places("controls") = {<<"turn", 2>>}
  /\ "mark_running" \in Steps /\ Places("mark_running") = {<<"turn", 3>>}
  /\ "stream" \in Steps /\ Places("stream") = {<<"turn", 4>>}
  /\ "mark_over" \in Steps /\ Places("mark_over") = {<<"turn", 5>>, <<"cancel", 3>>}
  /\ "finish" \in Steps /\ Places("finish") = {<<"turn", 6>>, <<"status", 3>>}
  /\ "cancel" \in Steps /\ Places("cancel") = {<<"cancel", 2>>}
  /\ "close" \in Steps /\ Places("close") = {<<"close", 2>>, <<"reset", 2>>}
  /\ "clear_meta" \in Steps /\ Places("clear_meta") = {<<"close", 3>>}
  /\ "persist" \in Steps /\ Places("persist") = {<<"reset", 3>>, <<"option", 3>>, <<"update", 1>>}
  /\ "ask" \in Steps /\ Places("ask") = {<<"option", 2>>, <<"status", 2>>}
  /\ "evict" \in Steps /\ Places("evict") = {<<"evict", 1>>}
BY DEF Steps, Places

LEMMA PlacesInScripts ==
  ASSUME NEW kind \in Kinds, NEW n \in 1..Length(kind), NEW step \in Steps
  PROVE  Script(kind)[n] = step <=> <<kind, n>> \in Places(step)
<1>1. CASE kind = "turn"
  <2>1. n = 1 \/ n = 2 \/ n = 3 \/ n = 4 \/ n = 5 \/ n = 6
    BY <1>1 DEF Length
  <2> QED
    BY <1>1, <2>1, Scripts DEF Steps, Places, Ensures
<1>2. CASE kind \in {"cancel", "close", "reset", "option", "status"}
  <2>1. n = 1 \/ n = 2 \/ n = 3
    BY <1>2 DEF Length
  <2> QED
    BY <1>2, <2>1, Scripts DEF Steps, Places, Ensures
<1>3. CASE kind = "init"
  <2>1. n = 1 \/ n = 2
    BY <1>3 DEF Length
  <2> QED
    BY <1>3, <2>1, Scripts DEF Steps, Places, Ensures
<1>4. CASE kind \in {"update", "evict"}
  <2>1. n = 1
    BY <1>4 DEF Length
  <2> QED
    BY <1>4, <2>1, Scripts DEF Steps, Places, Ensures
<1> QED
  BY <1>1, <1>2, <1>3, <1>4 DEF Kinds

LEMMA AtPlaces ==
  ASSUME ChainIInv, NEW c \in AcpCalls, NEW step \in Steps
  PROVE  At(c, step) <=> call[c].op = "running" /\ <<call[c].of, call[c].step>> \in Places(step)
<1>1. CASE call[c].op = "running"
  <2>1. call[c].of \in Kinds /\ call[c].step \in 1..Len(Script(call[c].of))
    BY <1>1 DEF ChainIInv, OpsAreCalled
  <2>2. call[c].step \in 1..Length(call[c].of)
    BY <2>1, ScriptLengths
  <2> QED
    BY <1>1, <2>1, <2>2, PlacesInScripts DEF At
<1> QED
  BY <1>1 DEF At

-----------------------------------------------------------------------------
(* The chains *)

\* What a step leaves to a call, and what it may do to the one whose operation it is.
Kept(d) ==
  /\ call'[d].at = call[d].at /\ call'[d].kind = call[d].kind
  /\ call'[d].op = call[d].op /\ call'[d].of = call[d].of /\ call'[d].on = call[d].on
  /\ call'[d].step = call[d].step
StepsTo(c, n) ==
  /\ call' \in [AcpCalls -> CallRecords] /\ tail' = tail
  /\ \A d \in AcpCalls \ {c} : Kept(d) /\ call'[d].after = call[d].after
  /\ call'[c].at = call[c].at /\ call'[c].kind = call[c].kind /\ call'[c].after = call[c].after
  /\ call'[c].of = call[c].of /\ call'[c].on = call[c].on
  /\ call'[c].op = "running" /\ call'[c].step = n
Settles(c) ==
  /\ call' \in [AcpCalls -> CallRecords] /\ tail' = tail
  /\ \A d \in AcpCalls \ {c} :
       Kept(d) /\ call'[d].after = IF call[d].after = c THEN NoCall ELSE call[d].after
  /\ call'[c].at = call[c].at /\ call'[c].kind = call[c].kind
  /\ call'[c].of = call[c].of /\ call'[c].on = call[c].on
  /\ call'[c].op = "settled"

\* The first operation in a row: it runs, or may.
First(c) == Unsettled(c) /\ call[c].after = NoCall

\* The first operation of a session is the only one that runs.
LEMMA FirstIsAlone ==
  ASSUME ChainIInv, NEW c \in AcpCalls, First(c)
  PROVE  /\ \A d \in AcpCalls : First(d) /\ call[d].on = call[c].on => d = c
         /\ \A d \in AcpCalls : call[d].op = "running" => First(d)
<1>1. PICK pos \in [AcpCalls -> Nat] : InRow(pos)
  BY DEF ChainIInv, OperationsQueue
<1>2. ASSUME NEW d \in AcpCalls, First(d), call[d].on = call[c].on
      PROVE  d = c
  <2>1. Unsettled(c) /\ Unsettled(d) /\ call[c].after = NoCall /\ call[d].after = NoCall
    BY <1>2 DEF First
  <2>2. pos[c] \in Nat /\ pos[d] \in Nat
    OBVIOUS
  <2>3. ~(pos[c] < pos[d]) /\ ~(pos[d] < pos[c])
    BY <1>1, <1>2, <2>1 DEF InRow
  <2> QED
    BY <1>1, <1>2, <2>1, <2>2, <2>3, SMTT(20) DEF InRow
<1>3. \A d \in AcpCalls : call[d].op = "running" => First(d)
  BY DEF ChainIInv, OpsAreCalled, First, Unsettled
<1> QED
  BY <1>2, <1>3

\* An operation goes on, or begins.
LEMMA ChainSteps ==
  ASSUME ChainIInv, NEW c \in AcpCalls, First(c), NEW n \in 1..Len(Script(call[c].of)), StepsTo(c, n)
  PROVE  ChainIInv'
<1>1. /\ call[c].op \in {"queued", "running"} /\ call[c].after = NoCall
      /\ call[c].at = "evicting" /\ call[c].of \in Kinds /\ call[c].on \in AcpSessionKeys
  BY DEF ChainIInv, OpsAreCalled, First, Unsettled
<1>2. ChainTypes'
  BY DEF ChainIInv, ChainTypes, StepsTo
<1>3. OpsAreCalled'
  BY <1>1 DEF ChainIInv, OpsAreCalled, StepsTo, Kept
<1>4. TailsAreTheirs'
  BY <1>1 DEF ChainIInv, ChainTypes, TailsAreTheirs, StepsTo, Kept
<1>5. \A d \in AcpCalls : /\ Unsettled(d)' = Unsettled(d) /\ call'[d].on = call[d].on
                          /\ call'[d].after = call[d].after
  BY <1>1 DEF StepsTo, Kept, Unsettled
<1>6. OperationsQueue'
  <2>1. PICK pos \in [AcpCalls -> Nat] : InRow(pos)
    BY DEF ChainIInv, OperationsQueue
  <2>2. \A d \in AcpCalls : call[d].after # NoCall => call[d].after \in AcpCalls
    BY DEF ChainIInv, ChainTypes, CallRecords
  <2>3. tail' = tail
    BY DEF StepsTo
  <2>4. InRow(pos)'
    BY <1>5, <2>1, <2>2, <2>3 DEF InRow
  <2> QED
    BY <2>4 DEF OperationsQueue
<1> QED
  BY <1>2, <1>3, <1>4, <1>6 DEF ChainIInv

\* The first operation ends: the one after it, if there is one, is the first now; and if it
\* was the last nothing waits.
LEMMA ChainSettles ==
  ASSUME ChainIInv, NEW c \in AcpCalls, First(c), Settles(c)
  PROVE  ChainIInv'
<1>1. /\ call[c].op \in {"queued", "running"} /\ call[c].after = NoCall
      /\ call[c].at = "evicting" /\ call[c].of \in Kinds /\ call[c].on \in AcpSessionKeys
  BY DEF ChainIInv, OpsAreCalled, First, Unsettled
<1>2. ChainTypes'
  BY DEF ChainIInv, ChainTypes, Settles
<1>3. OpsAreCalled'
  BY <1>1 DEF ChainIInv, OpsAreCalled, Settles, Kept
<1>4. TailsAreTheirs'
  BY <1>1 DEF ChainIInv, ChainTypes, TailsAreTheirs, Settles, Kept
<1>5. /\ tail' = tail /\ ~Unsettled(c)'
      /\ \A d \in AcpCalls \ {c} :
           /\ Unsettled(d)' = Unsettled(d) /\ call'[d].on = call[d].on
           /\ call'[d].after = IF call[d].after = c THEN NoCall ELSE call[d].after
  BY DEF Settles, Kept, Unsettled
<1>6. OperationsQueue'
  <2>1. PICK pos \in [AcpCalls -> Nat] : InRow(pos)
    BY DEF ChainIInv, OperationsQueue
  <2>2. \A d \in AcpCalls : call[d].after # NoCall => call[d].after \in AcpCalls
    BY DEF ChainIInv, ChainTypes, CallRecords
  <2>3. ASSUME NEW d \in AcpCalls \ {c}, Unsettled(d)
        PROVE  LET s == call[d].on IN
               /\ tail[s] \in AcpCalls /\ Unsettled(tail[s]) /\ pos[d] <= pos[tail[s]]
               /\ tail[s] # c
               /\ call'[d].after # NoCall =>
                    /\ call'[d].after # c /\ Unsettled(call'[d].after)
                    /\ call[call'[d].after].on = s
                    /\ pos[call'[d].after] < pos[d]
    <3> DEFINE s == call[d].on
    <3>1. /\ tail[s] \in AcpCalls /\ Unsettled(tail[s]) /\ pos[d] <= pos[tail[s]]
          /\ call[d].after # NoCall =>
               /\ Unsettled(call[d].after) /\ call[call[d].after].on = s
               /\ pos[call[d].after] < pos[d]
      BY <2>1, <2>3 DEF InRow
    <3>2. ASSUME tail[s] = c PROVE FALSE
      <4>0. s \in AcpSessionKeys
        BY <2>3 DEF ChainIInv, OpsAreCalled, Unsettled
      <4>1. call[c].on = s
        BY <3>1, <3>2, <4>0, AcpAssumption DEF ChainIInv, TailsAreTheirs, ChainTypes
      <4>2. ~(pos[d] < pos[c])
        BY <1>1, <2>1, <2>3, <4>1 DEF InRow, First
      <4>3. pos[d] = pos[c]
        BY <3>1, <3>2, <4>2
      <4> QED
        BY <2>1, <2>3, <4>1, <4>3 DEF InRow, First
    <3> QED
      BY <1>5, <3>1, <3>2
  <2>4. ASSUME NEW d \in AcpCalls \ {c}, NEW e \in AcpCalls \ {c}, Unsettled(d), Unsettled(e),
               call[d].on = call[e].on
        PROVE  /\ pos[d] = pos[e] => d = e
               /\ pos[e] < pos[d] => call'[d].after # NoCall /\ pos[e] <= pos[call'[d].after]
    <3>1. pos[d] = pos[e] => d = e
      BY <2>1, <2>4 DEF InRow
    <3>2. ASSUME pos[e] < pos[d]
          PROVE  call'[d].after # NoCall /\ pos[e] <= pos[call'[d].after]
      <4>1. call[d].after # NoCall /\ pos[e] <= pos[call[d].after]
        BY <2>1, <2>4, <3>2 DEF InRow
      <4>2. ASSUME call[d].after = c PROVE FALSE
        <5>1. call[c].on = call[e].on /\ Unsettled(c)
          BY <2>1, <2>4, <4>1, <4>2 DEF InRow
        <5>2. ~(pos[e] < pos[c])
          BY <1>1, <2>1, <2>4, <5>1 DEF InRow
        <5>3. pos[e] = pos[c]
          BY <4>1, <4>2, <5>2
        <5> QED
          BY <2>1, <2>4, <5>1, <5>3 DEF InRow
      <4> QED
        BY <1>5, <4>1, <4>2
    <3> QED
      BY <3>1, <3>2
  <2>5. \A d \in AcpCalls : call'[d].after # NoCall => call'[d].after \in AcpCalls
    BY <1>2 DEF ChainTypes, CallRecords
  <2>6. \A d \in AcpCalls : /\ call'[d].op \in {"queued", "running"} <=> d # c /\ Unsettled(d)
                            /\ d # c => call'[d].on = call[d].on
    BY <1>5 DEF Unsettled
  <2>7. ASSUME NEW d \in AcpCalls, call'[d].op \in {"queued", "running"}
        PROVE  LET s == call'[d].on IN
               /\ tail'[s] \in AcpCalls /\ call'[tail'[s]].op \in {"queued", "running"}
               /\ pos[d] <= pos[tail'[s]]
               /\ call'[d].after # NoCall =>
                    /\ call'[call'[d].after].op \in {"queued", "running"}
                    /\ call'[call'[d].after].on = s
                    /\ pos[call'[d].after] < pos[d]
    <3>1. d \in AcpCalls \ {c} /\ Unsettled(d) /\ call'[d].on = call[d].on
      BY <2>6, <2>7
    <3>2. tail' = tail
      BY <1>5
    <3> QED
      BY <2>3, <2>5, <2>6, <3>1, <3>2
  <2>8. ASSUME NEW d \in AcpCalls, NEW e \in AcpCalls, call'[d].op \in {"queued", "running"},
               call'[e].op \in {"queued", "running"}, call'[d].on = call'[e].on
        PROVE  /\ pos[d] = pos[e] => d = e
               /\ pos[e] < pos[d] => call'[d].after # NoCall /\ pos[e] <= pos[call'[d].after]
    BY <2>4, <2>6, <2>8
  <2>9. InRow(pos)'
    BY <2>7, <2>8 DEF InRow, Unsettled
  <2> QED
    BY <2>9 DEF OperationsQueue
<1> QED
  BY <1>2, <1>3, <1>4, <1>6 DEF ChainIInv

\* A call queues an operation: behind the last one that has not ended, if there is one.
LEMMA ChainEnqueues ==
  ASSUME ChainIInv, NEW c \in AcpCalls, NEW s \in AcpSessionKeys, NEW what \in Kinds,
         call[c].at = "evicting", call[c].op = "none",
         what = "evict" \/ (what = call[c].kind /\ s = AcpTarget[c]), Enqueue(c, s, what)
  PROVE  /\ ChainIInv'
         /\ \A d \in AcpCalls \ {c} : call'[d] = call[d]
         /\ /\ call'[c].at = call[c].at /\ call'[c].kind = call[c].kind
            /\ call'[c].op = "queued" /\ call'[c].of = what /\ call'[c].on = s
<1> DEFINE last == tail[s]
           queued == last # NoCall /\ call[last].op # "settled"
<1>1. call \in [AcpCalls -> CallRecords] /\ tail \in [AcpSessionKeys -> AcpCalls \cup {NoCall}]
  BY DEF ChainIInv, ChainTypes
<1>2. /\ call'[c].at = call[c].at /\ call'[c].kind = call[c].kind /\ call'[c].op = "queued"
      /\ call'[c].of = what /\ call'[c].on = s
      /\ call'[c].after = IF queued THEN last ELSE NoCall
  BY <1>1 DEF Enqueue, CallRecords
<1>3. \A d \in AcpCalls \ {c} : call'[d] = call[d]
  BY <1>1 DEF Enqueue
<1>4. ChainTypes'
  <2>1. call'[c] \in CallRecords
    <3>1. call'[c] = [call[c] EXCEPT !.op = "queued", !.of = what, !.on = s, !.step = 1, !.ok = TRUE,
                                     !.todo = @ \ {s}, !.after = IF queued THEN last ELSE NoCall]
      BY <1>1 DEF Enqueue
    <3>2. (IF queued THEN last ELSE NoCall) \in AcpCalls \cup {NoCall}
      BY <1>1
    <3>3. what \in Kinds \cup {"none"} /\ s \in AcpSessionKeys \cup {"none"} /\ 1 \in Nat
      OBVIOUS
    <3>4. call[c] \in CallRecords
      BY <1>1
    <3>5. call[c].todo \ {s} \in SUBSET AcpSessionKeys
      BY <3>4 DEF CallRecords
    <3>6. PICK after \in AcpCalls \cup {NoCall} : after = IF queued THEN last ELSE NoCall
      BY <3>2
    <3>7. call'[c] = [call[c] EXCEPT !.op = "queued", !.of = what, !.on = s, !.step = 1, !.ok = TRUE,
                                     !.todo = @ \ {s}, !.after = after]
      BY <3>1, <3>6
    <3> QED
      BY <3>3, <3>4, <3>5, <3>7, ZenonT(30) DEF CallRecords
  <2>2. DOMAIN call' = AcpCalls /\ call' = [d \in AcpCalls |-> call'[d]]
    BY <1>1 DEF Enqueue
  <2>3. tail' \in [AcpSessionKeys -> AcpCalls \cup {NoCall}]
    BY <1>1 DEF Enqueue
  <2>4. \A d \in AcpCalls : call'[d] \in CallRecords
    BY <1>1, <1>3, <2>1
  <2>5. call' \in [AcpCalls -> CallRecords]
    BY <2>2, <2>4
  <2> QED
    BY <2>3, <2>5 DEF ChainTypes
<1>5. tail'[s] = c /\ \A t \in AcpSessionKeys : t # s => tail'[t] = tail[t]
  BY <1>1 DEF Enqueue
<1>6. OpsAreCalled'
  BY <1>2, <1>3 DEF ChainIInv, OpsAreCalled
<1>7. TailsAreTheirs'
  <2>1. ASSUME NEW t \in AcpSessionKeys, tail'[t] # NoCall
        PROVE  call'[tail'[t]].op # "none" /\ call'[tail'[t]].on = t
    <3>1. CASE t = s
      BY <1>2, <1>5, <3>1
    <3>2. CASE t # s
      <4>1. tail'[t] = tail[t] /\ tail[t] \in AcpCalls
        BY <1>1, <1>5, <2>1, <3>2
      <4>2. call[tail[t]].op # "none" /\ call[tail[t]].on = t
        BY <2>1, <4>1 DEF ChainIInv, TailsAreTheirs
      <4>3. tail[t] # c
        BY <4>2
      <4> QED
        BY <1>3, <4>1, <4>2, <4>3
    <3> QED
      BY <3>1, <3>2
  <2> QED
    BY <2>1 DEF TailsAreTheirs
<1>8. OperationsQueue'
  <2>1. PICK pos \in [AcpCalls -> Nat] : InRow(pos)
    BY DEF ChainIInv, OperationsQueue
  <2>2. \A d \in AcpCalls : Unsettled(d) => d # c /\ call[d].on \in AcpSessionKeys
    BY DEF ChainIInv, OpsAreCalled, Unsettled
  <2>3. queued => last \in AcpCalls /\ Unsettled(last) /\ call[last].on = s
    <3> SUFFICES ASSUME queued PROVE last \in AcpCalls /\ Unsettled(last) /\ call[last].on = s
      OBVIOUS
    <3>1. last \in AcpCalls /\ call[last].op # "none" /\ call[last].on = s
      BY <1>1 DEF ChainIInv, TailsAreTheirs
    <3> QED
      BY <1>1, <3>1 DEF Unsettled, CallRecords
  <2>4. \A d \in AcpCalls : Unsettled(d) /\ call[d].on = s => queued /\ pos[d] <= pos[last]
    BY <2>1, AcpAssumption DEF InRow, Unsettled
  <2> DEFINE place == IF queued THEN pos[last] + 1 ELSE 0
  <2>0. PICK at \in [AcpCalls -> Nat] : at = [pos EXCEPT ![c] = place]
    <3>1. queued => pos[last] \in Nat
      BY <2>3
    <3>2. place \in Nat
      BY <3>1
    <3> HIDE DEF place
    <3> QED
      BY <3>2
  <2>5. /\ at \in [AcpCalls -> Nat] /\ at[c] = place
        /\ \A d \in AcpCalls \ {c} : at[d] = pos[d]
    BY <2>0
  <2>6. /\ call'[c].op \in {"queued", "running"}
        /\ \A d \in AcpCalls : d # c =>
             (call'[d].op \in {"queued", "running"} <=> Unsettled(d))
    BY <1>2, <1>3 DEF Unsettled
  <2>7. ASSUME NEW d \in AcpCalls, call'[d].op \in {"queued", "running"}
        PROVE  LET t == call'[d].on IN
               /\ tail'[t] \in AcpCalls /\ call'[tail'[t]].op \in {"queued", "running"}
               /\ at[d] <= at[tail'[t]]
               /\ call'[d].after # NoCall =>
                    /\ call'[call'[d].after].op \in {"queued", "running"}
                    /\ call'[call'[d].after].on = t
                    /\ at[call'[d].after] < at[d]
    <3>1. CASE d = c
      <4>1. /\ call'[d].on = s /\ tail'[s] = c /\ at[c] \in Nat
            /\ call'[d].after # NoCall => queued /\ call'[d].after = last
        BY <1>2, <1>5, <2>5, <3>1
      <4>2. ASSUME queued
            PROVE  /\ call'[last].op \in {"queued", "running"} /\ call'[last].on = s
                   /\ at[last] < at[c]
        <5>1. last \in AcpCalls /\ Unsettled(last) /\ call[last].on = s /\ last # c
          BY <2>2, <2>3, <4>2
        <5>2. at[last] = pos[last] /\ at[c] = pos[last] + 1 /\ pos[last] \in Nat
          BY <2>5, <4>2, <5>1
        <5> QED
          BY <1>3, <2>6, <5>1, <5>2
      <4>3. at[c] <= at[c]
        BY <4>1
      <4> QED
        BY <2>6, <3>1, <4>1, <4>2, <4>3
    <3>2. CASE d # c
      <4>1. Unsettled(d) /\ call'[d] = call[d] /\ at[d] = pos[d] /\ pos[d] \in Nat
        BY <1>3, <2>5, <2>6, <2>7, <3>2
      <4>2. call[d].on \in AcpSessionKeys
        BY <2>2, <4>1
      <4>3. /\ tail[call[d].on] \in AcpCalls /\ Unsettled(tail[call[d].on])
            /\ pos[d] <= pos[tail[call[d].on]]
            /\ call[d].after # NoCall =>
                 /\ Unsettled(call[d].after) /\ call[call[d].after].on = call[d].on
                 /\ pos[call[d].after] < pos[d]
        BY <2>1, <4>1 DEF InRow
      <4>4. call[d].after # NoCall =>
              /\ call'[call[d].after].op \in {"queued", "running"}
              /\ call'[call[d].after].on = call[d].on
              /\ at[call[d].after] < at[d]
        <5> SUFFICES ASSUME call[d].after # NoCall
                     PROVE  /\ call'[call[d].after].op \in {"queued", "running"}
                            /\ call'[call[d].after].on = call[d].on
                            /\ at[call[d].after] < at[d]
          OBVIOUS
        <5>1. call[d].after \in AcpCalls /\ Unsettled(call[d].after)
          BY <1>1, <4>3 DEF CallRecords
        <5>2. call[d].after # c
          BY <2>2, <5>1
        <5> QED
          BY <1>3, <2>5, <2>6, <4>1, <4>3, <5>1, <5>2
      <4>5. /\ tail'[call[d].on] \in AcpCalls
            /\ call'[tail'[call[d].on]].op \in {"queued", "running"}
            /\ at[d] <= at[tail'[call[d].on]]
        <5>1. CASE call[d].on = s
          <6>1. queued /\ pos[d] <= pos[last] /\ pos[last] \in Nat
            BY <2>3, <2>4, <4>1, <5>1
          <6>2. at[c] = pos[last] + 1
            BY <2>5, <6>1
          <6> QED
            BY <1>5, <2>6, <4>1, <5>1, <6>1, <6>2
        <5>2. CASE call[d].on # s
          <6>1. tail'[call[d].on] = tail[call[d].on] /\ tail[call[d].on] # c
            BY <1>5, <2>2, <4>2, <4>3, <5>2
          <6> QED
            BY <2>5, <2>6, <4>1, <4>3, <6>1
        <5> QED
          BY <5>1, <5>2
      <4> QED
        BY <4>1, <4>4, <4>5
    <3> QED
      BY <3>1, <3>2
  <2>8. ASSUME NEW d \in AcpCalls, NEW e \in AcpCalls, call'[d].op \in {"queued", "running"},
               call'[e].op \in {"queued", "running"}, call'[d].on = call'[e].on
        PROVE  /\ at[d] = at[e] => d = e
               /\ at[e] < at[d] => call'[d].after # NoCall /\ at[e] <= at[call'[d].after]
    <3>1. ASSUME NEW x \in AcpCalls, x # c, call'[x].op \in {"queued", "running"}, call'[x].on = s
          PROVE  queued /\ at[x] <= pos[last] /\ at[x] < at[c]
                 /\ pos[last] \in Nat /\ at[x] \in Nat /\ at[c] \in Nat
      <4>1. Unsettled(x) /\ call[x].on = s /\ at[x] = pos[x] /\ pos[x] \in Nat
        BY <1>3, <2>5, <2>6, <3>1
      <4>2. queued /\ pos[x] <= pos[last] /\ pos[last] \in Nat
        BY <2>3, <2>4, <4>1
      <4>3. at[c] = pos[last] + 1
        BY <2>5, <4>2
      <4> QED
        BY <4>1, <4>2, <4>3
    <3>2. CASE d # c /\ e # c
      <4>1. /\ Unsettled(d) /\ Unsettled(e) /\ call'[d] = call[d] /\ call'[e] = call[e]
            /\ call[d].on = call[e].on /\ at[d] = pos[d] /\ at[e] = pos[e]
        BY <1>3, <2>5, <2>6, <2>8, <3>2
      <4>2. /\ pos[d] = pos[e] => d = e
            /\ pos[e] < pos[d] => call[d].after # NoCall /\ pos[e] <= pos[call[d].after]
        BY <2>1, <4>1 DEF InRow
      <4>3. call[d].after # NoCall => at[call[d].after] = pos[call[d].after]
        <5> SUFFICES ASSUME call[d].after # NoCall PROVE call[d].after \in AcpCalls \ {c}
          BY <2>5
        <5> QED
          BY <1>1, <2>1, <2>2, <4>1 DEF InRow, CallRecords
      <4> QED
        BY <4>1, <4>2, <4>3
    <3>3. CASE d = c /\ e # c
      <4>1. queued /\ at[e] <= pos[last] /\ at[e] < at[c] /\ at[e] \in Nat /\ at[c] \in Nat
        BY <1>2, <2>8, <3>1, <3>3
      <4>2. call'[c].after = last /\ last # NoCall
        BY <1>2, <4>1
      <4>3. at[last] = pos[last]
        BY <2>2, <2>3, <2>5, <4>1
      <4> QED
        BY <3>3, <4>1, <4>2, <4>3
    <3>4. CASE d # c /\ e = c
      <4>1. at[d] < at[c] /\ at[d] \in Nat /\ at[c] \in Nat
        BY <1>2, <2>8, <3>1, <3>4
      <4> QED
        BY <3>4, <4>1
    <3>5. CASE d = c /\ e = c
      BY <2>5, <3>5
    <3> QED
      BY <3>2, <3>3, <3>4, <3>5
  <2>9. InRow(at)'
    BY <2>7, <2>8 DEF InRow, Unsettled
  <2> QED
    BY <2>5, <2>9 DEF OperationsQueue
<1> QED
  BY <1>2, <1>3, <1>4, <1>6, <1>7, <1>8 DEF ChainIInv

\* A call without an operation that waits or runs changes nothing in the chains but, if its
\* last one has ended, that it is a tail.
Rests(c) ==
  /\ ChainTypes' /\ call[c].op \in {"none", "settled"} /\ call'[c].op = "none"
  /\ call'[c].at = "evicting" => call'[c].kind \in AcpKinds[c]
  /\ \A d \in AcpCalls \ {c} : call'[d] = call[d]
  /\ \A s \in AcpSessionKeys :
       /\ tail'[s] = tail[s] \/ (tail'[s] = NoCall /\ tail[s] = c)
       /\ call[c].op = "settled" /\ call[c].on = s => tail'[s] # c

LEMMA ChainRests ==
  ASSUME ChainIInv, NEW c \in AcpCalls, Rests(c)
  PROVE  ChainIInv'
<1>1. call \in [AcpCalls -> CallRecords] /\ tail \in [AcpSessionKeys -> AcpCalls \cup {NoCall}]
  BY DEF ChainIInv, ChainTypes
<1>2. OpsAreCalled'
  BY DEF ChainIInv, OpsAreCalled, Rests
<1>3. \A s \in AcpSessionKeys : tail'[s] # NoCall =>
         tail'[s] = tail[s] /\ tail[s] \in AcpCalls \ {c}
  BY <1>1, AcpAssumption DEF ChainIInv, TailsAreTheirs, Rests
<1>4. TailsAreTheirs'
  BY <1>3 DEF ChainIInv, TailsAreTheirs, Rests
<1>5. OperationsQueue'
  <2>1. PICK pos \in [AcpCalls -> Nat] : InRow(pos)
    BY DEF ChainIInv, OperationsQueue
  <2>2. \A d \in AcpCalls : call'[d].op \in {"queued", "running"} =>
           d # c /\ Unsettled(d) /\ call'[d] = call[d]
    BY DEF Rests, Unsettled
  <2>3. \A d \in AcpCalls : Unsettled(d) => d # c /\ call'[d] = call[d]
    BY DEF Rests, Unsettled
  <2>4. ASSUME NEW d \in AcpCalls, Unsettled(d)
        PROVE  LET s == call[d].on IN
               /\ tail'[s] = tail[s] /\ call'[tail[s]] = call[tail[s]]
               /\ call[d].after # NoCall => call'[call[d].after] = call[call[d].after]
    <3>1. /\ tail[call[d].on] \in AcpCalls /\ Unsettled(tail[call[d].on])
          /\ call[d].after # NoCall => Unsettled(call[d].after) /\ call[d].after \in AcpCalls
      BY <1>1, <2>1, <2>4 DEF InRow, CallRecords
    <3>2. call[d].on \in AcpSessionKeys
      BY <2>4 DEF ChainIInv, OpsAreCalled, Unsettled
    <3> QED
      BY <2>3, <3>1, <3>2 DEF Rests
  <2>5. InRow(pos)'
    BY <2>1, <2>2, <2>4 DEF InRow, Unsettled
  <2> QED
    BY <2>5 DEF OperationsQueue
<1> QED
  BY <1>2, <1>4, <1>5 DEF ChainIInv, Rests

-----------------------------------------------------------------------------
(* What the actions do to the operations *)

\* Looking a runtime up touches only what evictions know of it.
LEMMA UsedFields ==
  ASSUME NEW s, NEW calls \in [AcpCalls -> CallRecords]
  PROVE  /\ Used(s, calls) \in [AcpCalls -> CallRecords]
         /\ \A d \in AcpCalls :
              LET u == Used(s, calls)[d] IN
              /\ u.at = calls[d].at /\ u.kind = calls[d].kind /\ u.op = calls[d].op
              /\ u.of = calls[d].of /\ u.on = calls[d].on /\ u.step = calls[d].step
              /\ u.after = calls[d].after
BY DEF Used, CallRecords

\* The shape of the calls after an operation has ended.
LEMMA EndedCalls ==
  ASSUME ChainIInv, NEW c \in AcpCalls
  PROVE  LET after == OpEnds(c, call) IN
         /\ after \in [AcpCalls -> CallRecords]
         /\ \A d \in AcpCalls \ {c} :
              /\ after[d].at = call[d].at /\ after[d].kind = call[d].kind
              /\ after[d].op = call[d].op /\ after[d].of = call[d].of /\ after[d].on = call[d].on
              /\ after[d].step = call[d].step
              /\ after[d].after = IF call[d].after = c THEN NoCall ELSE call[d].after
         /\ after[c].at = call[c].at /\ after[c].kind = call[c].kind
         /\ after[c].of = call[c].of /\ after[c].on = call[c].on /\ after[c].op = "settled"
<1> DEFINE after == OpEnds(c, call)
<1>1. call \in [AcpCalls -> CallRecords]
  BY DEF ChainIInv, ChainTypes
<1>2. after[c] = [call[c] EXCEPT !.op = "settled", !.step = 1, !.ok = TRUE]
  BY DEF OpEnds
<1>3. ASSUME NEW d \in AcpCalls \ {c}
      PROVE  after[d] = [call[d] EXCEPT !.after = IF call[d].after = c THEN NoCall ELSE call[d].after]
  BY DEF OpEnds
<1>4. call[c] \in CallRecords /\ after[c] \in CallRecords
  <2>1. call[c] \in CallRecords
    BY <1>1
  <2>2. PICK yes \in BOOLEAN, one \in Nat : yes = TRUE /\ one = 1
    OBVIOUS
  <2>3. after[c] = [call[c] EXCEPT !.op = "settled", !.step = one, !.ok = yes]
    BY <1>2, <2>2
  <2> HIDE DEF after
  <2>4. after[c] \in CallRecords
    BY <2>1, <2>3 DEF CallRecords
  <2> QED
    BY <2>1, <2>4
<1>5. ASSUME NEW d \in AcpCalls \ {c}
      PROVE  /\ after[d] \in CallRecords
             /\ after[d].at = call[d].at /\ after[d].kind = call[d].kind
             /\ after[d].op = call[d].op /\ after[d].of = call[d].of /\ after[d].on = call[d].on
             /\ after[d].step = call[d].step
             /\ after[d].after = IF call[d].after = c THEN NoCall ELSE call[d].after
  <2>1. call[d] \in CallRecords
    BY <1>1
  <2>2. PICK first \in AcpCalls \cup {NoCall} :
          first = IF call[d].after = c THEN NoCall ELSE call[d].after
    BY <2>1 DEF CallRecords
  <2>3. after[d] = [call[d] EXCEPT !.after = first]
    BY <1>3, <2>2
  <2> QED
    BY <2>1, <2>2, <2>3 DEF CallRecords
<1>6. after = [d \in AcpCalls |-> after[d]]
  BY DEF OpEnds
<1>7. after \in [AcpCalls -> CallRecords]
  BY <1>4, <1>5, <1>6
<1>8. /\ after[c].at = call[c].at /\ after[c].kind = call[c].kind
      /\ after[c].of = call[c].of /\ after[c].on = call[c].on /\ after[c].op = "settled"
  BY <1>2, <1>4 DEF CallRecords
<1> HIDE DEF after
<1>9. \A d \in AcpCalls \ {c} :
        /\ after[d].at = call[d].at /\ after[d].kind = call[d].kind
        /\ after[d].op = call[d].op /\ after[d].of = call[d].of /\ after[d].on = call[d].on
        /\ after[d].step = call[d].step
        /\ after[d].after = IF call[d].after = c THEN NoCall ELSE call[d].after
  BY <1>5
<1> QED
  BY <1>7, <1>8, <1>9 DEF after

LEMMA OperationEnds ==
  ASSUME ChainIInv, NEW c \in AcpCalls, NEW s, tail' = tail,
         call' = OpEnds(c, call) \/ call' = Used(s, OpEnds(c, call))
  PROVE  Settles(c)
<1> DEFINE after == OpEnds(c, call)
<1>1. after \in [AcpCalls -> CallRecords]
  BY EndedCalls
<1>2. CASE call' = OpEnds(c, call)
  BY <1>2, EndedCalls DEF Settles, Kept
<1>3. CASE call' = Used(s, OpEnds(c, call))
  <2>1. /\ call' \in [AcpCalls -> CallRecords]
        /\ \A d \in AcpCalls :
             /\ call'[d].at = after[d].at /\ call'[d].kind = after[d].kind /\ call'[d].op = after[d].op
             /\ call'[d].of = after[d].of /\ call'[d].on = after[d].on /\ call'[d].step = after[d].step
             /\ call'[d].after = after[d].after
    BY <1>1, <1>3, UsedFields
  <2> QED
    BY <2>1, EndedCalls DEF Settles, Kept
<1> QED
  BY <1>2, <1>3

LEMMA OperationRuns ==
  ASSUME ChainIInv, NEW c \in AcpCalls, NEW s, NEW n \in Nat, tail' = tail,
         \/ call' = Runs(c, n) \/ call' = Used(s, Runs(c, n))
         \/ call[c].op = "running" /\ call' = [call EXCEPT ![c].step = n]
  PROVE  StepsTo(c, n)
<1>1. call \in [AcpCalls -> CallRecords]
  BY DEF ChainIInv, ChainTypes
<1>2. CASE call' = Runs(c, n)
  <2>1. call'[c] = [call[c] EXCEPT !.op = "running", !.step = n]
        /\ \A d \in AcpCalls \ {c} : call'[d] = call[d]
    BY <1>1, <1>2 DEF Runs
  <2>2. call[c] \in CallRecords /\ call'[c] \in CallRecords
    BY <1>1, <2>1 DEF CallRecords
  <2>3. call' = [d \in AcpCalls |-> call'[d]]
    BY <1>1, <1>2 DEF Runs
  <2>4. call' \in [AcpCalls -> CallRecords]
    BY <1>1, <2>1, <2>2, <2>3
  <2>5. /\ call'[c].at = call[c].at /\ call'[c].kind = call[c].kind /\ call'[c].after = call[c].after
        /\ call'[c].of = call[c].of /\ call'[c].on = call[c].on
        /\ call'[c].op = "running" /\ call'[c].step = n
    BY <2>1, <2>2 DEF CallRecords
  <2> QED
    BY <2>1, <2>4, <2>5 DEF StepsTo, Kept
<1>3. CASE call' = Used(s, Runs(c, n))
  <2> DEFINE after == Runs(c, n)
  <2>1. after \in [AcpCalls -> CallRecords]
    BY <1>1 DEF Runs, CallRecords
  <2>2. /\ call' \in [AcpCalls -> CallRecords]
        /\ \A d \in AcpCalls :
             /\ call'[d].at = after[d].at /\ call'[d].kind = after[d].kind /\ call'[d].op = after[d].op
             /\ call'[d].of = after[d].of /\ call'[d].on = after[d].on /\ call'[d].step = after[d].step
             /\ call'[d].after = after[d].after
    BY <1>3, <2>1, UsedFields
  <2>3. after[c].at = call[c].at /\ after[c].kind = call[c].kind /\ after[c].after = call[c].after
        /\ after[c].of = call[c].of /\ after[c].on = call[c].on
        /\ after[c].op = "running" /\ after[c].step = n
        /\ \A d \in AcpCalls \ {c} : after[d] = call[d]
    BY <1>1 DEF Runs, CallRecords
  <2> HIDE DEF after
  <2> QED
    BY <2>2, <2>3 DEF StepsTo, Kept
<1>4. CASE call[c].op = "running" /\ call' = [call EXCEPT ![c].step = n]
  BY <1>1, <1>4 DEF StepsTo, Kept, CallRecords
<1> QED
  BY <1>2, <1>3, <1>4

\* The next step of the script, whatever is learnt on the way, or the end of it.
LEMMA OperationGoesOn ==
  ASSUME ChainIInv, NEW c \in AcpCalls, NEW s, NEW ok \in BOOLEAN, tail' = tail,
         call[c].op = "running",
         \/ call' = Onwards(c, call) \/ call' = Used(s, Onwards(c, call))
         \/ call' = [Onwards(c, call) EXCEPT ![c].ok = ok]
  PROVE  IF call[c].step = Len(Script(call[c].of)) THEN Settles(c)
         ELSE StepsTo(c, call[c].step + 1)
<1>1. call \in [AcpCalls -> CallRecords] /\ call[c].step \in Nat
  BY DEF ChainIInv, ChainTypes, CallRecords
<1>2. CASE call[c].step = Len(Script(call[c].of))
  <2>1. Onwards(c, call) = OpEnds(c, call)
    BY <1>2 DEF Onwards
  <2>2. CASE call' = [OpEnds(c, call) EXCEPT ![c].ok = ok]
    <3> DEFINE after == OpEnds(c, call)
    <3>1. after \in [AcpCalls -> CallRecords]
      BY EndedCalls
    <3> HIDE DEF after
    <3>2. call' = [after EXCEPT ![c].ok = ok]
      BY <2>2 DEF after
    <3>3. /\ call' \in [AcpCalls -> CallRecords]
          /\ \A d \in AcpCalls \ {c} : call'[d] = after[d]
          /\ call'[c].at = after[c].at /\ call'[c].kind = after[c].kind
          /\ call'[c].of = after[c].of /\ call'[c].on = after[c].on /\ call'[c].op = after[c].op
      BY <3>1, <3>2 DEF CallRecords
    <3>4. /\ \A d \in AcpCalls \ {c} :
               /\ after[d].at = call[d].at /\ after[d].kind = call[d].kind
               /\ after[d].op = call[d].op /\ after[d].of = call[d].of /\ after[d].on = call[d].on
               /\ after[d].step = call[d].step
               /\ after[d].after = IF call[d].after = c THEN NoCall ELSE call[d].after
          /\ after[c].at = call[c].at /\ after[c].kind = call[c].kind
          /\ after[c].of = call[c].of /\ after[c].on = call[c].on /\ after[c].op = "settled"
      BY EndedCalls DEF after
    <3>5. Settles(c)
      BY <3>3, <3>4 DEF Settles, Kept
    <3> QED
      BY <1>2, <3>5
  <2> QED
    BY <1>2, <2>1, <2>2, OperationEnds
<1>3. CASE call[c].step # Len(Script(call[c].of))
  <2> DEFINE n == call[c].step + 1
  <2>1. Onwards(c, call) = [call EXCEPT ![c].step = n] /\ n \in Nat
    BY <1>1, <1>3 DEF Onwards
  <2> HIDE DEF n
  <2>2. [call EXCEPT ![c].step = n] = Runs(c, n)
    BY <1>1 DEF Runs, CallRecords
  <2>3. ASSUME call' = [Onwards(c, call) EXCEPT ![c].ok = ok] PROVE StepsTo(c, n)
    <3>1. call'[c] = [call[c] EXCEPT !.step = n, !.ok = ok]
          /\ \A d \in AcpCalls \ {c} : call'[d] = call[d]
      BY <1>1, <2>1, <2>3
    <3>0. call[c] \in CallRecords /\ n \in Nat
      BY <1>1, <2>1
    <3>2. call[c] \in CallRecords /\ call'[c] \in CallRecords
      BY <3>0, <3>1 DEF CallRecords
    <3>3. call' = [d \in AcpCalls |-> call'[d]]
      BY <1>1, <2>1, <2>3
    <3>4. call' \in [AcpCalls -> CallRecords]
      BY <1>1, <3>1, <3>2, <3>3
    <3>5. /\ call'[c].at = call[c].at /\ call'[c].kind = call[c].kind /\ call'[c].after = call[c].after
          /\ call'[c].of = call[c].of /\ call'[c].on = call[c].on
          /\ call'[c].op = "running" /\ call'[c].step = n
      BY <3>1, <3>2 DEF CallRecords
    <3> QED
      BY <3>1, <3>4, <3>5 DEF StepsTo, Kept
  <2>4. ASSUME call' = Onwards(c, call) PROVE StepsTo(c, n)
    BY <2>1, <2>4, OperationRuns
  <2>5. ASSUME call' = Used(s, Onwards(c, call)) PROVE StepsTo(c, n)
    <3>1. call' = Used(s, Runs(c, n))
      BY <2>1, <2>2, <2>5
    <3> QED
      BY <2>1, <3>1, OperationRuns
  <2>6. StepsTo(c, n)
    BY <2>3, <2>4, <2>5
  <2> QED
    BY <1>3, <2>6 DEF n
<1> QED
  BY <1>2, <1>3

\* What the first operation of its session may do with it.
Moves(c) ==
  /\ First(c)
  /\ Settles(c) \/ \E n \in 1..Len(Script(call[c].of)) : StepsTo(c, n)

LEMMA ChainMoves ==
  ASSUME ChainIInv, NEW c \in AcpCalls, Moves(c)
  PROVE  ChainIInv'
BY ChainSteps, ChainSettles DEF Moves

-----------------------------------------------------------------------------
(* What keeps the invariant of the runtimes *)

\* The runtimes, but for that of session s, are what they were.
Elsewhere(s) ==
  \A x \in AcpSessionKeys \ {s} :
    /\ cached'[x] = cached[x] /\ meta'[x] = meta[x] /\ activeTurn'[x] = activeTurn[x]
    /\ (x \in open' <=> x \in open) /\ (x \in misstated' <=> x \in misstated)

\* The limit: a runtime comes from a creation, or a creation begins.
FillsRoom(c, s) ==
  /\ overlapped' = overlapped
  /\ cached'[s] # "none" => cached[s] # "none" \/ Creates(c)
  /\ Creates(c)' => Creates(c)
TakesRoom(c, s) ==
  /\ cached'[s] # "none" => cached[s] # "none"
  /\ Cardinality(Cached(s)) < MaxSessions
  /\ ~overlapped' => ~overlapped /\ \A d \in AcpCalls : ~Creates(d)

\* What an operation c owes for its session s.
Owes(c, s) ==
  /\ RuntimeTypes' /\ Elsewhere(s)
  /\ cached'[s] # "none" => s \in open'
  /\ call'[c].op = "running" =>
       /\ call[c].of \in {"turn", "status"} /\ call'[c].step > 1 => cached'[s] # "none"
       /\ call[c].of = "evict" => cached'[s] = "none"
       /\ call[c].of = "init" /\ call'[c].step = 2 => s \in open'
  /\ activeTurn'[s] = IF TurnIsActive(c)' THEN c ELSE NoCall
  /\ meta'[s] = "running" /\ s \notin misstated' => activeTurn'[s] # NoCall
  /\ \A e \in AcpCalls : WillInitialize(e) /\ AcpTarget[e] = s =>
       /\ call[c].of # "init" => call'[c].op # "running"
       /\ call[c].of # "init" \/ call'[c].op = "running" => meta'[s] = "none" /\ cached'[s] = "none"
  /\ FillsRoom(c, s) \/ TakesRoom(c, s)

LEMMA KeysAreFinite ==
  ASSUME NEW S, S \subseteq AcpSessionKeys
  PROVE  IsFiniteSet(S) /\ Cardinality(S) \in Nat
BY AcpAssumption, FS_Subset, FS_CardinalityType

LEMMA MovesFields ==
  ASSUME ChainIInv, NEW c \in AcpCalls, Moves(c)
  PROVE  /\ call[c].on \in AcpSessionKeys /\ call[c].of \in Kinds /\ call[c].at = "evicting"
         /\ call[c].of = "evict" \/ (call[c].of = call[c].kind /\ call[c].on = AcpTarget[c])
         /\ call[c].kind \in AcpKinds[c]
         /\ call'[c].at = call[c].at /\ call'[c].kind = call[c].kind
         /\ call'[c].of = call[c].of /\ call'[c].on = call[c].on
         /\ call'[c].op \in {"running", "settled"} /\ call[c].op \in {"queued", "running"}
         /\ \A d \in AcpCalls \ {c} : Kept(d)
         /\ \A d \in AcpCalls : call[d].op = "running" /\ call[d].on = call[c].on => d = c
<1>1. First(c)
  BY DEF Moves
<1>2. \A d \in AcpCalls : call[d].op = "running" /\ call[d].on = call[c].on => d = c
  BY <1>1, FirstIsAlone
<1> QED
  BY <1>1, <1>2 DEF Moves, First, Unsettled, StepsTo, Settles, ChainIInv, OpsAreCalled

LEMMA RuntimeMoves ==
  ASSUME AcpIInv, NEW c \in AcpCalls, NEW s, s = call[c].on, Moves(c), Owes(c, s)
  PROVE  RuntimeIInv'
<1>1. /\ s \in AcpSessionKeys /\ call[c].of \in Kinds /\ call[c].at = "evicting"
      /\ call[c].of = "evict" \/ (call[c].of = call[c].kind /\ s = AcpTarget[c])
      /\ call[c].kind \in AcpKinds[c]
      /\ call'[c].at = call[c].at /\ call'[c].kind = call[c].kind
      /\ call'[c].of = call[c].of /\ call'[c].on = s
      /\ call'[c].op \in {"running", "settled"} /\ call[c].op \in {"queued", "running"}
      /\ \A d \in AcpCalls \ {c} : Kept(d)
      /\ \A d \in AcpCalls : call[d].op = "running" /\ call[d].on = s => d = c
  BY MovesFields DEF AcpIInv
<1>2. \A d \in AcpCalls \ {c} : call[d].op = "running" => call[d].on \in AcpSessionKeys \ {s}
  BY <1>1 DEF AcpIInv, ChainIInv, OpsAreCalled
<1>3. RuntimeTypes' /\ Elsewhere(s)
  BY DEF Owes
<1>4. CachedIsOpen'
  BY <1>3 DEF AcpIInv, RuntimeIInv, CachedIsOpen, Owes, Elsewhere
<1>5. KeepsRuntime'
  <2>1. ASSUME NEW d \in AcpCalls
        PROVE  /\ call'[d].op = "running" /\ call'[d].of \in {"turn", "status"} /\ call'[d].step > 1 =>
                    cached'[call'[d].on] # "none"
               /\ call'[d].op = "running" /\ call'[d].of = "evict" => cached'[call'[d].on] = "none"
               /\ call'[d].op = "running" /\ call'[d].of = "init" /\ call'[d].step = 2 =>
                    call'[d].on \in open'
    <3>1. CASE d = c
      BY <1>1, <3>1 DEF Owes
    <3>2. CASE d # c
      BY <1>1, <1>2, <1>3, <3>2 DEF AcpIInv, RuntimeIInv, KeepsRuntime, Doing, Kept, Elsewhere
    <3> QED
      BY <3>1, <3>2
  <2> QED
    BY <2>1 DEF KeepsRuntime, Doing
<1>6. NewIsUntouched'
  <2>1. ASSUME NEW e \in AcpCalls, WillInitialize(e)'
        PROVE  /\ meta'[AcpTarget[e]] = "none" /\ cached'[AcpTarget[e]] = "none"
               /\ \A d \in AcpCalls : call'[d].op = "running" /\ call'[d].on = AcpTarget[e] =>
                    d = e /\ call'[d].of = "init"
    <3>1. WillInitialize(e)
      BY <1>1, <2>1 DEF WillInitialize, Kept
    <3>2. /\ meta[AcpTarget[e]] = "none" /\ cached[AcpTarget[e]] = "none"
          /\ \A d \in AcpCalls : call[d].op = "running" /\ call[d].on = AcpTarget[e] =>
               d = e /\ call[d].of = "init"
      BY <3>1 DEF AcpIInv, RuntimeIInv, NewIsUntouched
    <3>3. AcpTarget[e] \in AcpSessionKeys
      BY AcpAssumption
    <3>4. CASE AcpTarget[e] # s
      BY <1>1, <1>3, <3>2, <3>3, <3>4 DEF Elsewhere, Kept
    <3>5. CASE AcpTarget[e] = s /\ call[c].of # "init"
      BY <1>1, <3>1, <3>2, <3>5 DEF Owes, Kept
    <3>6. CASE AcpTarget[e] = s /\ call[c].of = "init"
      <4>1. "init" \in AcpKinds[e] \cap AcpKinds[c] /\ AcpTarget[c] = s
        BY <1>1, <3>1, <3>6 DEF WillInitialize
      <4>2. c = e
        BY <3>6, <4>1, AcpAssumption
      <4>3. call'[c].op = "running"
        BY <1>1, <2>1, <3>6, <4>2 DEF WillInitialize
      <4> QED
        BY <1>1, <3>1, <3>2, <3>6, <4>2, <4>3 DEF Owes, Kept
    <3> QED
      BY <3>4, <3>5, <3>6
  <2> QED
    BY <2>1 DEF NewIsUntouched
<1>7. ActiveIsTurn'
  <2>1. ASSUME NEW x \in AcpSessionKeys, NEW d \in AcpCalls
        PROVE  activeTurn'[x] = d <=> TurnIsActive(d)' /\ call'[d].on = x
    <3>1. CASE x = s /\ d = c
      BY <1>1, <3>1, AcpAssumption DEF Owes
    <3>2. CASE x = s /\ d # c
      <4>1. ~(call'[d].op = "running" /\ call'[d].on = s)
        BY <1>1, <3>2 DEF Kept
      <4>2. activeTurn'[s] # d
        BY <3>2, AcpAssumption DEF Owes
      <4> QED
        BY <3>2, <4>1, <4>2 DEF TurnIsActive, Doing
    <3>3. CASE x # s /\ d = c
      <4>1. activeTurn[x] # c
        BY <1>1, <3>3 DEF AcpIInv, RuntimeIInv, ActiveIsTurn
      <4> QED
        BY <1>1, <1>3, <3>3, <4>1 DEF Elsewhere
    <3>4. CASE x # s /\ d # c
      <4>1. activeTurn[x] = d <=> TurnIsActive(d) /\ call[d].on = x
        BY DEF AcpIInv, RuntimeIInv, ActiveIsTurn
      <4> QED
        BY <1>1, <1>3, <3>4, <4>1 DEF Elsewhere, Kept, TurnIsActive, Doing
    <3> QED
      BY <3>1, <3>2, <3>3, <3>4
  <2> QED
    BY <2>1 DEF ActiveIsTurn
<1>8. RunningIsActive'
  BY <1>3 DEF AcpIInv, RuntimeIInv, RunningIsActive, Owes, Elsewhere
<1>9. RoomForOne'
  <2> SUFFICES ASSUME ~overlapped'
               PROVE  /\ Cardinality({x \in AcpSessionKeys : cached'[x] # "none"}) <= MaxSessions
                      /\ \A d \in AcpCalls : Creates(d)' =>
                           /\ Cardinality({x \in AcpSessionKeys \ {call'[d].on} : cached'[x] # "none"})
                                < MaxSessions
                           /\ \A e \in AcpCalls : Creates(e)' => d = e
    BY DEF RoomForOne, Cached
  <2> DEFINE old == {x \in AcpSessionKeys : cached[x] # "none"}
             new == {x \in AcpSessionKeys : cached'[x] # "none"}
             others(t) == {x \in AcpSessionKeys \ {t} : cached'[x] # "none"}
  <2>0. /\ IsFiniteSet(old) /\ IsFiniteSet(new) /\ Cardinality(old) \in Nat /\ Cardinality(new) \in Nat
        /\ MaxSessions \in Nat
    BY KeysAreFinite, AcpAssumption
  <2>1. ~overlapped
    BY DEF Owes, FillsRoom, TakesRoom
  <2>2. /\ Cardinality(old) <= MaxSessions
        /\ \A d \in AcpCalls : Creates(d) =>
             /\ Cardinality(Cached(call[d].on)) < MaxSessions
             /\ \A e \in AcpCalls : Creates(e) => d = e
    BY <2>1 DEF AcpIInv, RuntimeIInv, RoomForOne
  <2>3. others(s) = Cached(s)
    BY <1>3 DEF Elsewhere, Cached
  <2>4. \A d \in AcpCalls \ {c} : (Creates(d)' <=> Creates(d)) /\ call'[d].on = call[d].on
    BY <1>1 DEF Kept, Creates
  <2>5. IsFiniteSet(Cached(s)) /\ Cardinality(Cached(s)) \in Nat
    BY KeysAreFinite DEF Cached
  <2>6. Cardinality(new) <= MaxSessions
    <3>1. CASE cached'[s] # "none" => cached[s] # "none"
      <4>1. new \subseteq old
        BY <1>3, <3>1 DEF Elsewhere
      <4>2. Cardinality(new) <= Cardinality(old)
        BY <2>0, <4>1, FS_Subset
      <4> QED
        BY <2>0, <2>2, <4>2
    <3>2. CASE cached'[s] # "none" /\ cached[s] = "none"
      <4>1. Creates(c)
        BY <3>2 DEF Owes, FillsRoom, TakesRoom
      <4>2. Cardinality(Cached(s)) < MaxSessions
        BY <2>2, <4>1
      <4>3. new = Cached(s) \cup {s} /\ s \notin Cached(s)
        BY <1>1, <2>3, <3>2 DEF Cached
      <4>4. Cardinality(new) = Cardinality(Cached(s)) + 1
        BY <2>5, <4>3, FS_AddElement
      <4> QED
        BY <2>0, <2>5, <4>2, <4>4
    <3> QED
      BY <3>1, <3>2
  <2>7. ASSUME NEW d \in AcpCalls, Creates(d)'
        PROVE  /\ Cardinality(others(call'[d].on)) < MaxSessions
               /\ \A e \in AcpCalls : Creates(e)' => d = e
    <3>1. CASE FillsRoom(c, s)
      <4>1. \A e \in AcpCalls : Creates(e)' => Creates(e)
        BY <2>4, <3>1 DEF FillsRoom
      <4>2. Creates(d) /\ Cardinality(Cached(call[d].on)) < MaxSessions
            /\ \A e \in AcpCalls : Creates(e)' => d = e
        BY <2>2, <2>7, <4>1
      <4>3. CASE d = c
        BY <1>1, <2>3, <4>2, <4>3
      <4>4. CASE d # c
        <5>1. cached'[s] # "none" => cached[s] # "none"
          BY <2>2, <3>1, <4>2, <4>4 DEF FillsRoom
        <5>2. others(call'[d].on) \subseteq Cached(call[d].on)
          BY <1>3, <2>4, <4>4, <5>1 DEF Elsewhere, Cached
        <5>3. IsFiniteSet(Cached(call[d].on)) /\ Cardinality(Cached(call[d].on)) \in Nat
              /\ Cardinality(others(call'[d].on)) \in Nat
          BY KeysAreFinite DEF Cached
        <5>4. Cardinality(others(call'[d].on)) <= Cardinality(Cached(call[d].on))
          BY <5>2, <5>3, FS_Subset
        <5> HIDE DEF others
        <5> QED
          BY <2>0, <4>2, <5>3, <5>4
      <4> QED
        BY <4>3, <4>4
    <3>2. CASE TakesRoom(c, s)
      <4>1. \A e \in AcpCalls : Creates(e)' => e = c
        BY <2>4, <3>2 DEF TakesRoom
      <4> QED
        BY <1>1, <2>3, <2>7, <3>2, <4>1 DEF TakesRoom
    <3> QED
      BY <3>1, <3>2 DEF Owes
  <2> HIDE DEF others
  <2> QED
    BY <2>6, <2>7 DEF others
<1> QED
  BY <1>3, <1>4, <1>5, <1>6, <1>7, <1>8, <1>9 DEF RuntimeIInv

\* A call that runs nothing, and leaves the runtimes alone.
LEMMA RuntimeRests ==
  ASSUME AcpIInv, NEW c \in AcpCalls,
         \A d \in AcpCalls \ {c} : call'[d] = call[d],
         call[c].op # "running", call'[c].op # "running",
         WillInitialize(c)' => WillInitialize(c),
         UNCHANGED <<cached, open, meta, activeTurn, overlapped, misstated>>
  PROVE  RuntimeIInv'
<1>1. \A d \in AcpCalls : call'[d].op = "running" => call[d].op = "running" /\ call'[d] = call[d]
  OBVIOUS
<1>2. \A d \in AcpCalls : call[d].op = "running" => call'[d] = call[d]
  OBVIOUS
<1>3. RuntimeTypes' /\ CachedIsOpen'
  BY DEF AcpIInv, RuntimeIInv, RuntimeTypes, CachedIsOpen
<1>4. KeepsRuntime'
  BY <1>1 DEF AcpIInv, RuntimeIInv, KeepsRuntime, Doing
<1>5. NewIsUntouched'
  <2>1. \A e \in AcpCalls : WillInitialize(e)' => WillInitialize(e)
    BY DEF WillInitialize
  <2> QED
    BY <1>1, <2>1 DEF AcpIInv, RuntimeIInv, NewIsUntouched
<1>6. \A d \in AcpCalls : (TurnIsActive(d)' <=> TurnIsActive(d)) /\ (Creates(d)' <=> Creates(d))
  BY <1>1, <1>2 DEF TurnIsActive, Doing, Creates
<1>7. ActiveIsTurn' /\ RunningIsActive'
  <2>1. \A d \in AcpCalls : TurnIsActive(d) => call'[d] = call[d]
    BY <1>2 DEF TurnIsActive, Doing
  <2> QED
    BY <1>6, <2>1 DEF AcpIInv, RuntimeIInv, ActiveIsTurn, RunningIsActive
<1>8. RoomForOne'
  <2>1. \A d \in AcpCalls : Creates(d) => call'[d].on = call[d].on
    BY <1>2 DEF Creates
  <2> QED
    BY <1>6, <2>1 DEF AcpIInv, RuntimeIInv, RoomForOne, Cached
<1> QED
  BY <1>3, <1>4, <1>5, <1>7, <1>8 DEF RuntimeIInv

-----------------------------------------------------------------------------
(* The actions *)

\* How things stand for the first operation of a session.
LEMMA Standing ==
  ASSUME AcpIInv, NEW c \in AcpCalls, First(c)
  PROVE  LET s == call[c].on IN
         /\ s \in AcpSessionKeys /\ call[c].of \in Kinds
         /\ activeTurn[s] = IF TurnIsActive(c) THEN c ELSE NoCall
         /\ meta[s] = "running" /\ s \notin misstated => activeTurn[s] # NoCall
         /\ call[c].op = "running" =>
              /\ call[c].step \in 1..Length(call[c].of)
              /\ Len(Script(call[c].of)) = Length(call[c].of)
              /\ call[c].of # "init" => \A e \in AcpCalls : WillInitialize(e) => AcpTarget[e] # s
         /\ call[c].of = "init" => WillInitialize(c) /\ AcpTarget[c] = s
<1> DEFINE s == call[c].on
<1>1. /\ s \in AcpSessionKeys /\ call[c].of \in Kinds /\ call[c].at = "evicting"
      /\ call[c].of = "evict" \/ (call[c].of = call[c].kind /\ s = AcpTarget[c])
      /\ call[c].kind \in AcpKinds[c] /\ call[c].op \in {"queued", "running"}
  BY DEF AcpIInv, ChainIInv, OpsAreCalled, First, Unsettled
<1>2. activeTurn[s] = IF TurnIsActive(c) THEN c ELSE NoCall
  <2>1. activeTurn[s] \in AcpCalls \cup {NoCall}
    BY <1>1 DEF AcpIInv, RuntimeIInv, RuntimeTypes
  <2>2. ASSUME NEW d \in AcpCalls, activeTurn[s] = d PROVE d = c /\ TurnIsActive(c)
    <3>1. TurnIsActive(d) /\ call[d].on = s
      BY <1>1, <2>2 DEF AcpIInv, RuntimeIInv, ActiveIsTurn
    <3>2. call[d].op = "running"
      BY <3>1 DEF TurnIsActive, Doing
    <3>3. d = c
      BY <3>1, <3>2, FirstIsAlone DEF AcpIInv
    <3> QED
      BY <3>1, <3>3
  <2>3. TurnIsActive(c) => activeTurn[s] = c
    BY <1>1 DEF AcpIInv, RuntimeIInv, ActiveIsTurn
  <2> QED
    BY <2>1, <2>2, <2>3, AcpAssumption
<1>3. meta[s] = "running" /\ s \notin misstated => activeTurn[s] # NoCall
  BY <1>1 DEF AcpIInv, RuntimeIInv, RunningIsActive
<1>4. call[c].op = "running" =>
        call[c].step \in 1..Length(call[c].of) /\ Len(Script(call[c].of)) = Length(call[c].of)
  BY <1>1, ScriptLengths DEF AcpIInv, ChainIInv, OpsAreCalled
<1>5. call[c].op = "running" /\ call[c].of # "init" =>
        \A e \in AcpCalls : WillInitialize(e) => AcpTarget[e] # s
  BY DEF AcpIInv, RuntimeIInv, NewIsUntouched
<1>6. call[c].of = "init" => WillInitialize(c) /\ AcpTarget[c] = s
  BY <1>1 DEF WillInitialize
<1> QED
  BY <1>1, <1>2, <1>3, <1>4, <1>5, <1>6

\* An operation that runs ends.
LEMMA EndsWell ==
  ASSUME AcpIInv, NEW c \in AcpCalls, NEW s, s = call[c].on, call[c].op = "running",
         Settles(c), RuntimeTypes', Elsewhere(s), overlapped' = overlapped,
         cached'[s] # "none" => s \in open' /\ (cached[s] # "none" \/ Creates(c)),
         activeTurn'[s] = NoCall, meta'[s] = "running" => s \in misstated'
  PROVE  AcpIInv'
<1>1. First(c)
  BY DEF AcpIInv, ChainIInv, OpsAreCalled, First, Unsettled
<1>2. Moves(c) /\ call'[c].op = "settled" /\ call'[c].of = call[c].of
  BY <1>1 DEF Moves, Settles
<1>3. /\ ~TurnIsActive(c)' /\ ~Creates(c)'
      /\ call[c].of # "init" => \A e \in AcpCalls : WillInitialize(e) => AcpTarget[e] # s
  BY <1>1, <1>2, Standing DEF TurnIsActive, Doing, Creates
<1>4. Owes(c, s)
  BY <1>2, <1>3 DEF Owes, FillsRoom
<1> QED
  BY <1>2, <1>4, ChainMoves, RuntimeMoves DEF AcpIInv

\* An operation that runs goes on, and is not an initialization.
LEMMA StepsWell ==
  ASSUME AcpIInv, NEW c \in AcpCalls, NEW s, s = call[c].on, call[c].op = "running",
         call[c].of # "init", NEW n \in 2..Length(call[c].of),
         StepsTo(c, n), RuntimeTypes', Elsewhere(s), overlapped' = overlapped,
         cached'[s] # "none" => s \in open' /\ (cached[s] # "none" \/ Creates(c)),
         call[c].of \in {"turn", "status"} => cached'[s] # "none",
         activeTurn'[s] = IF call[c].of = "turn" /\ n \in {4, 5} THEN c ELSE NoCall,
         meta'[s] = "running" => s \in misstated' \/ activeTurn'[s] # NoCall
  PROVE  AcpIInv'
<1>1. First(c)
  BY DEF AcpIInv, ChainIInv, OpsAreCalled, First, Unsettled
<1>2. /\ call[c].of \in Kinds /\ n \in 1..Len(Script(call[c].of)) /\ call[c].of # "evict"
      /\ \A e \in AcpCalls : WillInitialize(e) => AcpTarget[e] # s
  <2>1. /\ call[c].of \in Kinds /\ Len(Script(call[c].of)) = Length(call[c].of)
        /\ \A e \in AcpCalls : WillInitialize(e) => AcpTarget[e] # s
    BY <1>1, Standing
  <2>2. Length("evict") = 1 /\ Length(call[c].of) \in 1..6
    BY <2>1, ScriptLengths DEF Length
  <2> QED
    BY <2>1, <2>2
<1>3. Moves(c) /\ call'[c].op = "running" /\ call'[c].of = call[c].of /\ call'[c].step = n
  BY <1>1, <1>2 DEF Moves, StepsTo
<1>4. /\ ~Creates(c)'
      /\ TurnIsActive(c)' <=> call[c].of = "turn" /\ n \in {4, 5}
  BY <1>3 DEF TurnIsActive, Doing, Creates
<1>5. Owes(c, s)
  BY <1>2, <1>3, <1>4 DEF Owes, FillsRoom
<1> QED
  BY <1>3, <1>5, ChainMoves, RuntimeMoves DEF AcpIInv

\* Where an operation is that awaits something.
LEMMA Awaits ==
  ASSUME AcpIInv, NEW c \in AcpCalls, NEW step \in Steps, At(c, step)
  PROVE  LET s == call[c].on IN
         /\ call[c].op = "running" /\ <<call[c].of, call[c].step>> \in Places(step)
         /\ First(c) /\ s \in AcpSessionKeys
         /\ activeTurn[s] = IF call[c].of = "turn" /\ call[c].step \in {4, 5} THEN c ELSE NoCall
         /\ meta[s] = "running" /\ s \notin misstated => activeTurn[s] # NoCall
         /\ Len(Script(call[c].of)) = Length(call[c].of)
<1>1. call[c].op = "running" /\ <<call[c].of, call[c].step>> \in Places(step)
  BY AtPlaces DEF AcpIInv
<1>2. First(c)
  BY <1>1 DEF AcpIInv, ChainIInv, OpsAreCalled, First, Unsettled
<1>3. TurnIsActive(c) <=> call[c].of = "turn" /\ call[c].step \in {4, 5}
  BY <1>1 DEF TurnIsActive, Doing
<1> QED
  BY <1>1, <1>2, <1>3, Standing

LEMMA EnsureReturnsInv ==
  ASSUME AcpIInv, NEW c \in AcpCalls, EnsureReturns(c) PROVE AcpIInv'
<1> DEFINE s == call[c].on
<1>1. /\ call[c].op = "running" /\ call[c].of \in Ensures /\ call[c].step = 1 /\ s \in AcpSessionKeys
      /\ activeTurn[s] = NoCall /\ (meta[s] = "running" => s \in misstated)
      /\ Len(Script(call[c].of)) = Length(call[c].of)
  <2>1. /\ call[c].op = "running" /\ <<call[c].of, call[c].step>> \in Ensures \X {1}
        /\ s \in AcpSessionKeys
        /\ activeTurn[s] = IF call[c].of = "turn" /\ call[c].step \in {4, 5} THEN c ELSE NoCall
        /\ meta[s] = "running" /\ s \notin misstated => activeTurn[s] # NoCall
        /\ Len(Script(call[c].of)) = Length(call[c].of)
    <3>1. At(c, "ensure") /\ "ensure" \in Steps /\ Places("ensure") = Ensures \X {1}
      BY PlacesAre DEF EnsureReturns
    <3>2. /\ call[c].op = "running" /\ <<call[c].of, call[c].step>> \in Ensures \X {1}
          /\ First(c) /\ call[c].on \in AcpSessionKeys
          /\ activeTurn[call[c].on] = IF call[c].of = "turn" /\ call[c].step \in {4, 5} THEN c ELSE NoCall
          /\ meta[call[c].on] = "running" /\ call[c].on \notin misstated => activeTurn[call[c].on] # NoCall
          /\ Len(Script(call[c].of)) = Length(call[c].of)
      BY <3>1, Awaits
    <3> QED
      BY <3>2
  <2>2. call[c].of \in Ensures /\ call[c].step = 1
    BY <2>1
  <2> QED
    BY <2>1, <2>2
<1>2. Creates(c) /\ Length(call[c].of) \in {3, 6} /\ (call[c].of = "close" => Length(call[c].of) = 3)
  BY <1>1 DEF Creates, Ensures, Length
<1>3. ChainIInv /\ RuntimeTypes /\ CachedIsOpen
  BY DEF AcpIInv, RuntimeIInv
<1>4. UNCHANGED <<tail, meta, activeTurn, overlapped, misstated>>
  BY DEF EnsureReturns
<1>5. CASE /\ call' = Used(s, Onwards(c, call))
           /\ open' = open \cup {s} /\ cached' = [cached EXCEPT ![s] = "fresh"]
  <2>0. call[c].step + 1 = 2 /\ call[c].step # Len(Script(call[c].of))
    BY <1>1, <1>2
  <2>1. StepsTo(c, 2)
    BY <1>1, <1>3, <1>4, <1>5, <2>0, OperationGoesOn
  <2>2. RuntimeTypes' /\ Elsewhere(s) /\ cached'[s] = "fresh" /\ s \in open'
    BY <1>1, <1>3, <1>4, <1>5 DEF RuntimeTypes, Elsewhere
  <2> QED
    BY <1>1, <1>2, <1>4, <2>1, <2>2, StepsWell DEF Ensures
<1>6. CASE call' = OpEnds(c, call) /\ UNCHANGED <<open, cached>>
  <2>1. Settles(c)
    BY <1>3, <1>4, <1>6, OperationEnds
  <2>2. RuntimeTypes' /\ Elsewhere(s) /\ (cached'[s] # "none" => s \in open')
    BY <1>1, <1>3, <1>4, <1>6 DEF RuntimeTypes, Elsewhere, CachedIsOpen
  <2> QED
    BY <1>1, <1>2, <1>4, <2>1, <2>2, EndsWell
<1>7. CASE call[c].of = "close" /\ call' = [call EXCEPT ![c].step = 3] /\ UNCHANGED <<open, cached>>
  <2>1. StepsTo(c, 3)
    BY <1>1, <1>3, <1>4, <1>7, OperationRuns
  <2>2. RuntimeTypes' /\ Elsewhere(s) /\ (cached'[s] # "none" => s \in open')
    BY <1>1, <1>3, <1>4, <1>7 DEF RuntimeTypes, Elsewhere, CachedIsOpen
  <2> QED
    BY <1>1, <1>2, <1>4, <1>7, <2>1, <2>2, StepsWell
<1> QED
  BY <1>5, <1>6, <1>7 DEF EnsureReturns

\* What keeps the runtimes and the states as they are: the operation goes on or ends.
LEMMA NothingElse ==
  ASSUME AcpIInv, NEW c \in AcpCalls, NEW s, s = call[c].on, call[c].op = "running",
         call[c].of \notin {"init", "evict"},
         UNCHANGED <<tail, cached, open, meta, activeTurn, overlapped, misstated>>,
         \/ Settles(c) /\ ~TurnIsActive(c)
         \/ /\ call[c].step > 1 /\ call[c].step < Length(call[c].of)
            /\ StepsTo(c, call[c].step + 1)
            /\ call[c].of = "turn" => call[c].step \in {2, 4}
  PROVE  AcpIInv'
<1>1. First(c)
  BY DEF AcpIInv, ChainIInv, OpsAreCalled, First, Unsettled
<1>2. /\ s \in AcpSessionKeys /\ call[c].of \in Kinds /\ call[c].step \in 1..Length(call[c].of)
      /\ activeTurn[s] = IF TurnIsActive(c) THEN c ELSE NoCall
      /\ meta[s] = "running" /\ s \notin misstated => activeTurn[s] # NoCall
  BY <1>1, Standing
<1>3. RuntimeTypes' /\ Elsewhere(s) /\ (cached'[s] # "none" => s \in open' /\ cached[s] # "none")
  BY <1>2 DEF AcpIInv, RuntimeIInv, RuntimeTypes, Elsewhere, CachedIsOpen
<1>4. CASE Settles(c) /\ ~TurnIsActive(c)
  BY <1>2, <1>3, <1>4, EndsWell
<1>5. CASE /\ call[c].step > 1 /\ call[c].step < Length(call[c].of)
           /\ StepsTo(c, call[c].step + 1)
           /\ call[c].of = "turn" => call[c].step \in {2, 4}
  <2>1. call[c].of \in {"turn", "status"} => cached'[s] # "none"
    BY <1>5 DEF AcpIInv, RuntimeIInv, KeepsRuntime
  <2>2. TurnIsActive(c) <=> call[c].of = "turn" /\ call[c].step + 1 \in {4, 5}
    BY <1>2, <1>5 DEF TurnIsActive, Doing
  <2>3. call[c].step + 1 \in 2..Length(call[c].of)
    <3>1. Length(call[c].of) \in Nat
      BY <1>2, ScriptLengths
    <3> QED
      BY <1>2, <1>5, <3>1
  <2> QED
    BY <1>2, <1>3, <1>5, <2>1, <2>2, <2>3, StepsWell
<1> QED
  BY <1>4, <1>5

LEMMA AskReturnsInv ==
  ASSUME AcpIInv, NEW c \in AcpCalls, AskReturns(c) PROVE AcpIInv'
<1>1. /\ call[c].op = "running"
      /\ <<call[c].of, call[c].step>> \in {<<"turn", 2>>, <<"option", 2>>, <<"status", 2>>}
      /\ Len(Script(call[c].of)) = Length(call[c].of)
  <2>1. At(c, "controls") \/ At(c, "ask")
    BY DEF AskReturns
  <2>2. /\ call[c].op = "running" /\ <<call[c].of, call[c].step>> \in {<<"turn", 2>>, <<"option", 2>>, <<"status", 2>>}
        /\ First(c) /\ call[c].on \in AcpSessionKeys
        /\ activeTurn[call[c].on] = IF call[c].of = "turn" /\ call[c].step \in {4, 5} THEN c ELSE NoCall
        /\ meta[call[c].on] = "running" /\ call[c].on \notin misstated => activeTurn[call[c].on] # NoCall
        /\ Len(Script(call[c].of)) = Length(call[c].of)
    <3>1. CASE At(c, "controls")
      <4>1. "controls" \in Steps /\ Places("controls") = {<<"turn", 2>>}
        BY PlacesAre
      <4> QED
        BY <3>1, <4>1, Awaits, ZenonT(30)
    <3>2. CASE At(c, "ask")
      <4>1. "ask" \in Steps /\ Places("ask") = {<<"option", 2>>, <<"status", 2>>}
        BY PlacesAre
      <4> QED
        BY <3>2, <4>1, Awaits, ZenonT(30)
    <3> QED
      BY <2>1, <3>1, <3>2
  <2> QED
    BY <2>2
<1>2. /\ call[c].of \in {"turn", "option", "status"} /\ call[c].step = 2
      /\ Length(call[c].of) \in {3, 6} /\ ~TurnIsActive(c)
  BY <1>1 DEF Length, TurnIsActive, Doing
<1>3. ChainIInv
  BY DEF AcpIInv
<1>4. UNCHANGED <<tail, cached, open, meta, activeTurn, overlapped, misstated>>
  BY DEF AskReturns
<1>5. Settles(c) \/ StepsTo(c, call[c].step + 1)
  BY <1>1, <1>2, <1>3, <1>4, OperationGoesOn, OperationEnds DEF AskReturns
<1> QED
  BY <1>1, <1>2, <1>4, <1>5, NothingElse

LEMMA StreamEndsInv ==
  ASSUME AcpIInv, NEW c \in AcpCalls, StreamEnds(c) PROVE AcpIInv'
<1>1. /\ call[c].op = "running"
      /\ <<call[c].of, call[c].step>> \in {<<"turn", 4>>, <<"cancel", 2>>}
      /\ Len(Script(call[c].of)) = Length(call[c].of)
  <2>1. At(c, "stream") \/ At(c, "cancel")
    BY DEF StreamEnds
  <2>2. /\ call[c].op = "running" /\ <<call[c].of, call[c].step>> \in {<<"turn", 4>>, <<"cancel", 2>>}
        /\ First(c) /\ call[c].on \in AcpSessionKeys
        /\ activeTurn[call[c].on] = IF call[c].of = "turn" /\ call[c].step \in {4, 5} THEN c ELSE NoCall
        /\ meta[call[c].on] = "running" /\ call[c].on \notin misstated => activeTurn[call[c].on] # NoCall
        /\ Len(Script(call[c].of)) = Length(call[c].of)
    <3>1. CASE At(c, "stream")
      <4>1. "stream" \in Steps /\ Places("stream") = {<<"turn", 4>>}
        BY PlacesAre
      <4> QED
        BY <3>1, <4>1, Awaits, ZenonT(30)
    <3>2. CASE At(c, "cancel")
      <4>1. "cancel" \in Steps /\ Places("cancel") = {<<"cancel", 2>>}
        BY PlacesAre
      <4> QED
        BY <3>2, <4>1, Awaits, ZenonT(30)
    <3> QED
      BY <2>1, <3>1, <3>2
  <2> QED
    BY <2>2
<1>2. /\ call[c].of \in {"turn", "cancel"} /\ call[c].step = (IF call[c].of = "turn" THEN 4 ELSE 2)
      /\ Length(call[c].of) = IF call[c].of = "turn" THEN 6 ELSE 3
  BY <1>1 DEF Length
<1>3. ChainIInv
  BY DEF AcpIInv
<1>4. UNCHANGED <<tail, cached, open, meta, activeTurn, overlapped, misstated>>
  BY DEF StreamEnds
<1>5. PICK ok \in BOOLEAN : call' = [Onwards(c, call) EXCEPT ![c].ok = ok]
  BY DEF StreamEnds
<1>6. StepsTo(c, call[c].step + 1)
  <2>1. call[c].step # Len(Script(call[c].of))
    BY <1>1, <1>2
  <2> QED
    BY <1>1, <1>3, <1>4, <1>5, <2>1, OperationGoesOn
<1> QED
  BY <1>1, <1>2, <1>4, <1>6, NothingElse

LEMMA MarkRunningReturnsInv ==
  ASSUME AcpIInv, NEW c \in AcpCalls, MarkRunningReturns(c) PROVE AcpIInv'
<1> DEFINE s == call[c].on
<1>1. /\ call[c].op = "running" /\ call[c].of = "turn" /\ call[c].step = 3 /\ s \in AcpSessionKeys
      /\ Len(Script(call[c].of)) = Length(call[c].of) /\ Length(call[c].of) = 6
  <2>1. At(c, "mark_running") /\ "mark_running" \in Steps /\ Places("mark_running") = {<<"turn", 3>>}
    BY PlacesAre DEF MarkRunningReturns
  <2>2. /\ call[c].op = "running" /\ <<call[c].of, call[c].step>> \in {<<"turn", 3>>}
        /\ First(c) /\ call[c].on \in AcpSessionKeys
        /\ activeTurn[call[c].on] = IF call[c].of = "turn" /\ call[c].step \in {4, 5} THEN c ELSE NoCall
        /\ meta[call[c].on] = "running" /\ call[c].on \notin misstated => activeTurn[call[c].on] # NoCall
        /\ Len(Script(call[c].of)) = Length(call[c].of)
    BY <2>1, Awaits
  <2> QED
    BY <2>2 DEF Length
<1>2. ChainIInv /\ RuntimeTypes /\ CachedIsOpen /\ cached[s] # "none"
  BY <1>1 DEF AcpIInv, RuntimeIInv, KeepsRuntime
<1>3. UNCHANGED <<tail, cached, open, overlapped>> /\ activeTurn' = [activeTurn EXCEPT ![s] = c]
  BY DEF MarkRunningReturns
<1>4. StepsTo(c, 4)
  <2>0. call[c].step = 3 /\ Len(Script(call[c].of)) = 6
    BY <1>1
  <2>1. call[c].step + 1 = 4 /\ call[c].step # Len(Script(call[c].of))
    BY <2>0
  <2>2. call' = Onwards(c, call)
    BY DEF MarkRunningReturns
  <2> QED
    BY <1>1, <1>2, <1>3, <2>1, <2>2, OperationGoesOn
<1>5. RuntimeTypes' /\ Elsewhere(s)
  BY <1>1, <1>2, <1>3 DEF MarkRunningReturns, States, RuntimeTypes, Elsewhere
<1>6. activeTurn'[s] = c /\ s \in open'
  BY <1>1, <1>2, <1>3 DEF RuntimeTypes, CachedIsOpen
<1> QED
  BY <1>1, <1>2, <1>3, <1>4, <1>5, <1>6, StepsWell, AcpAssumption

LEMMA MarkOverReturnsInv ==
  ASSUME AcpIInv, NEW c \in AcpCalls, MarkOverReturns(c) PROVE AcpIInv'
<1> DEFINE s == call[c].on
<1>1. /\ call[c].op = "running" /\ s \in AcpSessionKeys
      /\ <<call[c].of, call[c].step>> \in {<<"turn", 5>>, <<"cancel", 3>>}
      /\ Len(Script(call[c].of)) = Length(call[c].of)
      /\ activeTurn[s] \in {c, NoCall}
  <2>1. At(c, "mark_over") /\ "mark_over" \in Steps /\ Places("mark_over") = {<<"turn", 5>>, <<"cancel", 3>>}
    BY PlacesAre DEF MarkOverReturns
  <2>2. /\ call[c].op = "running" /\ <<call[c].of, call[c].step>> \in {<<"turn", 5>>, <<"cancel", 3>>}
        /\ First(c) /\ call[c].on \in AcpSessionKeys
        /\ activeTurn[call[c].on] = IF call[c].of = "turn" /\ call[c].step \in {4, 5} THEN c ELSE NoCall
        /\ meta[call[c].on] = "running" /\ call[c].on \notin misstated => activeTurn[call[c].on] # NoCall
        /\ Len(Script(call[c].of)) = Length(call[c].of)
    BY <2>1, Awaits
  <2> QED
    BY <2>2
<1>2. /\ call[c].of \in {"turn", "cancel"} /\ call[c].step = (IF call[c].of = "turn" THEN 5 ELSE 3)
      /\ Length(call[c].of) = IF call[c].of = "turn" THEN 6 ELSE 3
  BY <1>1 DEF Length
<1>3. ChainIInv /\ RuntimeTypes /\ CachedIsOpen /\ (call[c].of = "turn" => cached[s] # "none")
  BY <1>1, <1>2 DEF AcpIInv, RuntimeIInv, KeepsRuntime
<1>4. UNCHANGED <<tail, cached, open, overlapped>>
      /\ activeTurn' = [activeTurn EXCEPT ![s] = IF @ = c THEN NoCall ELSE @]
      /\ call' = Onwards(c, call)
  BY DEF MarkOverReturns
<1>5. activeTurn'[s] = NoCall
  BY <1>1, <1>3, <1>4 DEF RuntimeTypes
<1>6. PICK state \in {"idle", "error"} : States(s, state)
  BY DEF MarkOverReturns
<1>7. /\ meta' \in [AcpSessionKeys -> {"none", "idle", "running", "error"}]
      /\ misstated' \in SUBSET AcpSessionKeys /\ (meta'[s] = "running" => s \in misstated')
      /\ \A x \in AcpSessionKeys \ {s} : meta'[x] = meta[x] /\ (x \in misstated' <=> x \in misstated)
  BY <1>1, <1>3, <1>6 DEF States, RuntimeTypes
<1>8. RuntimeTypes' /\ Elsewhere(s) /\ (cached'[s] # "none" => s \in open' /\ cached[s] # "none")
  BY <1>1, <1>3, <1>4, <1>7 DEF RuntimeTypes, Elsewhere, CachedIsOpen
<1>9. CASE call[c].of = "turn"
  <2>0. call[c].step + 1 = 6 /\ call[c].step # Len(Script(call[c].of))
    BY <1>1, <1>2, <1>9
  <2>1. StepsTo(c, 6)
    BY <1>1, <1>3, <1>4, <2>0, OperationGoesOn
  <2> QED
    BY <1>1, <1>2, <1>3, <1>4, <1>5, <1>7, <1>8, <1>9, <2>1, StepsWell
<1>10. CASE call[c].of = "cancel"
  <2>1. Settles(c)
    BY <1>1, <1>2, <1>3, <1>4, <1>10, OperationGoesOn
  <2> QED
    BY <1>1, <1>3, <1>4, <1>5, <1>7, <1>8, <2>1, EndsWell
<1> QED
  BY <1>2, <1>9, <1>10

LEMMA CreateReturnsInv ==
  ASSUME AcpIInv, NEW c \in AcpCalls, CreateReturns(c) PROVE AcpIInv'
<1> DEFINE s == call[c].on
<1>1. /\ call[c].op = "running" /\ call[c].of = "init" /\ call[c].step = 1 /\ First(c)
      /\ s \in AcpSessionKeys /\ activeTurn[s] = NoCall
      /\ (meta[s] = "running" => s \in misstated)
      /\ Len(Script(call[c].of)) = Length(call[c].of)
  <2>1. At(c, "create") /\ "create" \in Steps /\ Places("create") = {<<"init", 1>>}
    BY PlacesAre DEF CreateReturns
  <2>2. /\ call[c].op = "running" /\ <<call[c].of, call[c].step>> \in {<<"init", 1>>}
        /\ First(c) /\ call[c].on \in AcpSessionKeys
        /\ activeTurn[call[c].on] = IF call[c].of = "turn" /\ call[c].step \in {4, 5} THEN c ELSE NoCall
        /\ meta[call[c].on] = "running" /\ call[c].on \notin misstated => activeTurn[call[c].on] # NoCall
        /\ Len(Script(call[c].of)) = Length(call[c].of)
    BY <2>1, Awaits
  <2> QED
    BY <2>2
<1>2. Length(call[c].of) = 2 /\ WillInitialize(c) /\ AcpTarget[c] = s
  BY <1>1, Standing DEF Length
<1>3. ChainIInv /\ RuntimeTypes /\ CachedIsOpen /\ meta[s] = "none" /\ cached[s] = "none"
  BY <1>2 DEF AcpIInv, RuntimeIInv, NewIsUntouched
<1>4. UNCHANGED <<tail, cached, meta, activeTurn, overlapped, misstated>>
  BY DEF CreateReturns
<1>5. CASE call' = Onwards(c, call) /\ open' = open \cup {s}
  <2>0. call[c].step = 1 /\ Len(Script(call[c].of)) = 2
    BY <1>1, <1>2
  <2>1. call[c].step + 1 = 2 /\ call[c].step # Len(Script(call[c].of))
    BY <2>0
  <2>2. StepsTo(c, 2)
    BY <1>1, <1>3, <1>4, <1>5, <2>1, OperationGoesOn
  <2>3. 2 \in 1..Len(Script(call[c].of))
    BY <1>1, <1>2
  <2>4. Moves(c) /\ call'[c].op = "running" /\ call'[c].of = "init"
    BY <1>1, <2>2, <2>3 DEF Moves, StepsTo
  <2>5. RuntimeTypes' /\ Elsewhere(s) /\ cached'[s] = "none" /\ meta'[s] = "none"
        /\ s \in open'
    BY <1>1, <1>3, <1>4, <1>5 DEF RuntimeTypes, Elsewhere
  <2>6. Creates(c) /\ ~TurnIsActive(c)'
    BY <1>1, <2>4 DEF Creates, TurnIsActive, Doing
  <2>7. Owes(c, s)
    BY <1>1, <1>4, <2>4, <2>5, <2>6 DEF Owes, FillsRoom
  <2> QED
    BY <2>4, <2>7, ChainMoves, RuntimeMoves DEF AcpIInv
<1>6. CASE call' = OpEnds(c, call) /\ UNCHANGED open
  <2>1. Settles(c)
    BY <1>3, <1>4, <1>6, OperationEnds
  <2>2. RuntimeTypes' /\ Elsewhere(s) /\ cached'[s] = "none"
    BY <1>1, <1>3, <1>4, <1>6 DEF RuntimeTypes, Elsewhere
  <2> QED
    BY <1>1, <1>4, <2>1, <2>2, EndsWell
<1> QED
  BY <1>5, <1>6 DEF CreateReturns

LEMMA WriteMetaReturnsInv ==
  ASSUME AcpIInv, NEW c \in AcpCalls, WriteMetaReturns(c) PROVE AcpIInv'
<1> DEFINE s == call[c].on
<1>1. /\ call[c].op = "running" /\ call[c].of = "init" /\ call[c].step = 2 /\ First(c)
      /\ s \in AcpSessionKeys /\ activeTurn[s] = NoCall
      /\ (meta[s] = "running" => s \in misstated)
  <2>1. At(c, "write_meta") /\ "write_meta" \in Steps /\ Places("write_meta") = {<<"init", 2>>}
    BY PlacesAre DEF WriteMetaReturns
  <2>2. /\ call[c].op = "running" /\ <<call[c].of, call[c].step>> \in {<<"init", 2>>}
        /\ First(c) /\ call[c].on \in AcpSessionKeys
        /\ activeTurn[call[c].on] = IF call[c].of = "turn" /\ call[c].step \in {4, 5} THEN c ELSE NoCall
        /\ meta[call[c].on] = "running" /\ call[c].on \notin misstated => activeTurn[call[c].on] # NoCall
        /\ Len(Script(call[c].of)) = Length(call[c].of)
    BY <2>1, Awaits
  <2> QED
    BY <2>2
<1>2. Creates(c) /\ WillInitialize(c) /\ AcpTarget[c] = s
  BY <1>1, Standing DEF Creates
<1>3. ChainIInv /\ RuntimeTypes /\ CachedIsOpen /\ meta[s] = "none" /\ cached[s] = "none"
  BY <1>2 DEF AcpIInv, RuntimeIInv, NewIsUntouched
<1>4. UNCHANGED <<tail, activeTurn, overlapped>>
  BY DEF WriteMetaReturns
<1>5. CASE /\ call' = Used(s, OpEnds(c, call))
           /\ meta' = [meta EXCEPT ![s] = "idle"] /\ cached' = [cached EXCEPT ![s] = "fresh"]
           /\ misstated' = misstated \ {s} /\ UNCHANGED open
  <2>1. Settles(c)
    BY <1>3, <1>4, <1>5, OperationEnds
  <2>2. s \in open
    BY <1>1 DEF AcpIInv, RuntimeIInv, KeepsRuntime, Doing
  <2>3. RuntimeTypes' /\ Elsewhere(s) /\ meta'[s] = "idle"
    BY <1>1, <1>3, <1>4, <1>5 DEF RuntimeTypes, Elsewhere
  <2> QED
    BY <1>1, <1>2, <1>4, <1>5, <2>1, <2>2, <2>3, EndsWell
<1>6. CASE /\ call' = OpEnds(c, call) /\ open' \in {open, open \ {s}}
           /\ UNCHANGED <<meta, cached, misstated>>
  <2>1. Settles(c)
    BY <1>3, <1>4, <1>6, OperationEnds
  <2>2. RuntimeTypes' /\ Elsewhere(s) /\ cached'[s] = "none" /\ meta'[s] = "none"
    BY <1>1, <1>3, <1>4, <1>6 DEF RuntimeTypes, Elsewhere
  <2> QED
    BY <1>1, <1>4, <2>1, <2>2, EndsWell
<1> QED
  BY <1>5, <1>6 DEF WriteMetaReturns

LEMMA FinishReturnsInv ==
  ASSUME AcpIInv, NEW c \in AcpCalls, FinishReturns(c) PROVE AcpIInv'
<1> DEFINE s == call[c].on
<1>1. /\ call[c].op = "running" /\ s \in AcpSessionKeys
      /\ <<call[c].of, call[c].step>> \in {<<"turn", 6>>, <<"status", 3>>}
      /\ activeTurn[s] = NoCall /\ (meta[s] = "running" => s \in misstated)
  <2>1. /\ call[c].op = "running" /\ s \in AcpSessionKeys
        /\ <<call[c].of, call[c].step>> \in {<<"turn", 6>>, <<"status", 3>>}
        /\ activeTurn[s] = IF call[c].of = "turn" /\ call[c].step \in {4, 5} THEN c ELSE NoCall
        /\ meta[s] = "running" /\ s \notin misstated => activeTurn[s] # NoCall
    <3>1. At(c, "finish") /\ "finish" \in Steps /\ Places("finish") = {<<"turn", 6>>, <<"status", 3>>}
      BY PlacesAre DEF FinishReturns
    <3>2. /\ call[c].op = "running" /\ <<call[c].of, call[c].step>> \in {<<"turn", 6>>, <<"status", 3>>}
          /\ First(c) /\ call[c].on \in AcpSessionKeys
          /\ activeTurn[call[c].on] = IF call[c].of = "turn" /\ call[c].step \in {4, 5} THEN c ELSE NoCall
          /\ meta[call[c].on] = "running" /\ call[c].on \notin misstated => activeTurn[call[c].on] # NoCall
          /\ Len(Script(call[c].of)) = Length(call[c].of)
      BY <3>1, Awaits
    <3> QED
      BY <3>2
  <2>2. ~(call[c].of = "turn" /\ call[c].step \in {4, 5})
    BY <2>1
  <2> QED
    BY <2>1, <2>2
<1>2. call[c].of \in {"turn", "status"} /\ call[c].step > 1
  BY <1>1
<1>3. ChainIInv /\ RuntimeTypes /\ CachedIsOpen /\ cached[s] # "none" /\ s \in open
  BY <1>1, <1>2 DEF AcpIInv, RuntimeIInv, KeepsRuntime, CachedIsOpen
<1>4. UNCHANGED <<tail, meta, activeTurn, overlapped, misstated>>
  BY DEF FinishReturns
<1>5. Settles(c)
  BY <1>3, <1>4, OperationEnds DEF FinishReturns
<1>6. /\ cached' \in [AcpSessionKeys -> {"none", "fresh", "idle"}] /\ open' \in SUBSET AcpSessionKeys
      /\ cached'[s] # "none" => s \in open'
      /\ \A x \in AcpSessionKeys \ {s} : cached'[x] = cached[x] /\ (x \in open' <=> x \in open)
  BY <1>1, <1>3 DEF FinishReturns, RuntimeTypes
<1>7. RuntimeTypes' /\ Elsewhere(s)
  BY <1>3, <1>4, <1>6 DEF RuntimeTypes, Elsewhere
<1> QED
  BY <1>1, <1>3, <1>4, <1>5, <1>6, <1>7, EndsWell

LEMMA CloseReturnsInv ==
  ASSUME AcpIInv, NEW c \in AcpCalls, CloseReturns(c) PROVE AcpIInv'
<1> DEFINE s == call[c].on
<1>1. /\ call[c].op = "running" /\ s \in AcpSessionKeys
      /\ <<call[c].of, call[c].step>> \in {<<"close", 2>>, <<"reset", 2>>}
      /\ activeTurn[s] = NoCall /\ (meta[s] = "running" => s \in misstated)
      /\ Len(Script(call[c].of)) = Length(call[c].of)
  <2>1. At(c, "close") /\ "close" \in Steps /\ Places("close") = {<<"close", 2>>, <<"reset", 2>>}
    BY PlacesAre DEF CloseReturns
  <2>2. /\ call[c].op = "running" /\ <<call[c].of, call[c].step>> \in {<<"close", 2>>, <<"reset", 2>>}
        /\ First(c) /\ call[c].on \in AcpSessionKeys
        /\ activeTurn[call[c].on] = IF call[c].of = "turn" /\ call[c].step \in {4, 5} THEN c ELSE NoCall
        /\ meta[call[c].on] = "running" /\ call[c].on \notin misstated => activeTurn[call[c].on] # NoCall
        /\ Len(Script(call[c].of)) = Length(call[c].of)
    BY <2>1, Awaits
  <2> QED
    BY <2>2
<1>2. call[c].of \in {"close", "reset"} /\ call[c].step = 2 /\ Length(call[c].of) = 3
  BY <1>1 DEF Length
<1>3. ChainIInv /\ RuntimeTypes /\ CachedIsOpen
  BY DEF AcpIInv, RuntimeIInv
<1>4. UNCHANGED <<tail, meta, activeTurn, overlapped, misstated>>
  BY DEF CloseReturns
<1>5. CASE call' = Onwards(c, call) /\ cached' = [cached EXCEPT ![s] = "none"] /\ open' \in {open, open \ {s}}
  <2>0. call[c].step = 2 /\ Len(Script(call[c].of)) = 3
    BY <1>1, <1>2
  <2>1. call[c].step + 1 = 3 /\ call[c].step # Len(Script(call[c].of))
    BY <2>0
  <2>2. StepsTo(c, 3)
    BY <1>1, <1>3, <1>4, <1>5, <2>1, OperationGoesOn
  <2>3. RuntimeTypes' /\ Elsewhere(s) /\ cached'[s] = "none"
    BY <1>1, <1>3, <1>4, <1>5 DEF RuntimeTypes, Elsewhere
  <2> QED
    BY <1>1, <1>2, <1>4, <2>2, <2>3, StepsWell
<1>6. CASE call' = OpEnds(c, call) /\ UNCHANGED <<open, cached>>
  <2>1. Settles(c)
    BY <1>3, <1>4, <1>6, OperationEnds
  <2>2. RuntimeTypes' /\ Elsewhere(s) /\ (cached'[s] # "none" => s \in open' /\ cached[s] # "none")
    BY <1>1, <1>3, <1>4, <1>6 DEF RuntimeTypes, Elsewhere, CachedIsOpen
  <2> QED
    BY <1>1, <1>4, <2>1, <2>2, EndsWell
<1> QED
  BY <1>5, <1>6 DEF CloseReturns

LEMMA ClearMetaReturnsInv ==
  ASSUME AcpIInv, NEW c \in AcpCalls, ClearMetaReturns(c) PROVE AcpIInv'
<1> DEFINE s == call[c].on
<1>1. /\ call[c].op = "running" /\ s \in AcpSessionKeys /\ call[c].of = "close"
      /\ activeTurn[s] = NoCall /\ (meta[s] = "running" => s \in misstated)
  <2>1. At(c, "clear_meta") /\ "clear_meta" \in Steps /\ Places("clear_meta") = {<<"close", 3>>}
    BY PlacesAre DEF ClearMetaReturns
  <2>2. /\ call[c].op = "running" /\ <<call[c].of, call[c].step>> \in {<<"close", 3>>}
        /\ First(c) /\ call[c].on \in AcpSessionKeys
        /\ activeTurn[call[c].on] = IF call[c].of = "turn" /\ call[c].step \in {4, 5} THEN c ELSE NoCall
        /\ meta[call[c].on] = "running" /\ call[c].on \notin misstated => activeTurn[call[c].on] # NoCall
        /\ Len(Script(call[c].of)) = Length(call[c].of)
    BY <2>1, Awaits
  <2> QED
    BY <2>2
<1>2. ChainIInv /\ RuntimeTypes /\ CachedIsOpen
  BY DEF AcpIInv, RuntimeIInv
<1>3. UNCHANGED <<tail, cached, open, activeTurn, overlapped>>
  BY DEF ClearMetaReturns
<1>4. Settles(c)
  BY <1>2, <1>3, OperationEnds DEF ClearMetaReturns
<1>5. /\ meta' \in [AcpSessionKeys -> {"none", "idle", "running", "error"}]
      /\ misstated' \in SUBSET AcpSessionKeys /\ (meta'[s] = "running" => s \in misstated')
      /\ \A x \in AcpSessionKeys \ {s} : meta'[x] = meta[x] /\ (x \in misstated' <=> x \in misstated)
  BY <1>1, <1>2 DEF ClearMetaReturns, RuntimeTypes
<1>6. RuntimeTypes' /\ Elsewhere(s) /\ (cached'[s] # "none" => s \in open' /\ cached[s] # "none")
  BY <1>1, <1>2, <1>3, <1>5 DEF RuntimeTypes, Elsewhere, CachedIsOpen
<1> QED
  BY <1>1, <1>3, <1>4, <1>5, <1>6, EndsWell

LEMMA PersistReturnsInv ==
  ASSUME AcpIInv, NEW c \in AcpCalls, PersistReturns(c) PROVE AcpIInv'
<1> DEFINE s == call[c].on
<1>1. /\ call[c].op = "running" /\ s \in AcpSessionKeys
      /\ activeTurn[s] = NoCall /\ (meta[s] = "running" => s \in misstated)
  <2>1. /\ call[c].op = "running" /\ s \in AcpSessionKeys
        /\ <<call[c].of, call[c].step>> \in {<<"reset", 3>>, <<"option", 3>>, <<"update", 1>>}
        /\ activeTurn[s] = IF call[c].of = "turn" /\ call[c].step \in {4, 5} THEN c ELSE NoCall
        /\ meta[s] = "running" /\ s \notin misstated => activeTurn[s] # NoCall
    <3>1. At(c, "persist") /\ "persist" \in Steps /\ Places("persist") = {<<"reset", 3>>, <<"option", 3>>, <<"update", 1>>}
      BY PlacesAre DEF PersistReturns
    <3>2. /\ call[c].op = "running" /\ <<call[c].of, call[c].step>> \in {<<"reset", 3>>, <<"option", 3>>, <<"update", 1>>}
          /\ First(c) /\ call[c].on \in AcpSessionKeys
          /\ activeTurn[call[c].on] = IF call[c].of = "turn" /\ call[c].step \in {4, 5} THEN c ELSE NoCall
          /\ meta[call[c].on] = "running" /\ call[c].on \notin misstated => activeTurn[call[c].on] # NoCall
          /\ Len(Script(call[c].of)) = Length(call[c].of)
      BY <3>1, Awaits
    <3> QED
      BY <3>2
  <2>2. call[c].of # "turn"
    BY <2>1
  <2> QED
    BY <2>1, <2>2
<1>2. ChainIInv /\ RuntimeTypes /\ CachedIsOpen
  BY DEF AcpIInv, RuntimeIInv
<1>3. UNCHANGED <<tail, open, meta, activeTurn, overlapped, misstated>>
  BY DEF PersistReturns
<1>4. Settles(c)
  BY <1>2, <1>3, OperationEnds DEF PersistReturns
<1>5. /\ cached' \in [AcpSessionKeys -> {"none", "fresh", "idle"}]
      /\ cached'[s] # "none" => cached[s] # "none"
      /\ \A x \in AcpSessionKeys \ {s} : cached'[x] = cached[x]
  BY <1>1, <1>2 DEF PersistReturns, RuntimeTypes
<1>6. RuntimeTypes' /\ Elsewhere(s) /\ (cached'[s] # "none" => s \in open' /\ cached[s] # "none")
  BY <1>1, <1>2, <1>3, <1>5 DEF RuntimeTypes, Elsewhere, CachedIsOpen
<1> QED
  BY <1>1, <1>3, <1>4, <1>6, EndsWell

LEMMA EvictReturnsInv ==
  ASSUME AcpIInv, NEW c \in AcpCalls, EvictReturns(c) PROVE AcpIInv'
<1> DEFINE s == call[c].on
<1>1. /\ call[c].op = "running" /\ s \in AcpSessionKeys /\ call[c].of = "evict"
      /\ activeTurn[s] = NoCall /\ (meta[s] = "running" => s \in misstated)
  <2>1. At(c, "evict") /\ "evict" \in Steps /\ Places("evict") = {<<"evict", 1>>}
    BY PlacesAre DEF EvictReturns
  <2>2. /\ call[c].op = "running" /\ <<call[c].of, call[c].step>> \in {<<"evict", 1>>}
        /\ First(c) /\ call[c].on \in AcpSessionKeys
        /\ activeTurn[call[c].on] = IF call[c].of = "turn" /\ call[c].step \in {4, 5} THEN c ELSE NoCall
        /\ meta[call[c].on] = "running" /\ call[c].on \notin misstated => activeTurn[call[c].on] # NoCall
        /\ Len(Script(call[c].of)) = Length(call[c].of)
    BY <2>1, Awaits
  <2> QED
    BY <2>2
<1>2. ChainIInv /\ RuntimeTypes /\ CachedIsOpen /\ cached[s] = "none"
  BY <1>1 DEF AcpIInv, RuntimeIInv, KeepsRuntime
<1>3. UNCHANGED <<tail, cached, meta, activeTurn, overlapped, misstated>>
  BY DEF EvictReturns
<1>4. Settles(c)
  BY <1>2, <1>3, OperationEnds DEF EvictReturns
<1>5. RuntimeTypes' /\ Elsewhere(s) /\ cached'[s] = "none"
  BY <1>1, <1>2, <1>3 DEF EvictReturns, RuntimeTypes, Elsewhere
<1> QED
  BY <1>1, <1>3, <1>4, <1>5, EndsWell

\* An operation that does not begin.
LEMMA RefuseInv ==
  ASSUME AcpIInv, NEW c \in AcpCalls, Refuse(c) PROVE AcpIInv'
<1> DEFINE s == call[c].on
<1>1. First(c) /\ call[c].op = "queued" /\ UNCHANGED <<tail, cached, open, meta, activeTurn, overlapped, misstated>>
  BY DEF Refuse, Ready, First, Unsettled
<1>2. ChainIInv /\ RuntimeTypes /\ CachedIsOpen
  BY DEF AcpIInv, RuntimeIInv
<1>3. Settles(c)
  BY <1>1, <1>2, OperationEnds DEF Refuse
<1>4. Moves(c) /\ call'[c].op = "settled" /\ call'[c].of = call[c].of
  BY <1>1, <1>3 DEF Moves, Settles
<1>5. s \in AcpSessionKeys /\ activeTurn[s] = NoCall
      /\ (meta[s] = "running" /\ s \notin misstated => activeTurn[s] # NoCall)
  BY <1>1, Standing DEF TurnIsActive, Doing
<1>6. \A e \in AcpCalls : WillInitialize(e) /\ AcpTarget[e] = s => meta[s] = "none" /\ cached[s] = "none"
  BY DEF AcpIInv, RuntimeIInv, NewIsUntouched
<1>7. RuntimeTypes' /\ Elsewhere(s) /\ (cached'[s] # "none" => s \in open')
  BY <1>1, <1>2, <1>5 DEF RuntimeTypes, Elsewhere, CachedIsOpen
<1>8. Owes(c, s)
  BY <1>1, <1>4, <1>5, <1>6, <1>7 DEF Owes, FillsRoom, TurnIsActive, Doing, Creates
<1> QED
  BY <1>4, <1>8, ChainMoves, RuntimeMoves DEF AcpIInv

LEMMA EvictInv ==
  ASSUME AcpIInv, NEW c \in AcpCalls, Evict(c) PROVE AcpIInv'
<1> DEFINE s == call[c].on
<1>1. /\ First(c) /\ call[c].op = "queued" /\ call[c].of = "evict"
      /\ UNCHANGED <<tail, open, meta, activeTurn, overlapped, misstated>>
  BY DEF Evict, Ready, First, Unsettled
<1>2. ChainIInv /\ RuntimeTypes /\ CachedIsOpen
  BY DEF AcpIInv, RuntimeIInv
<1>3. s \in AcpSessionKeys /\ activeTurn[s] = NoCall
      /\ (meta[s] = "running" /\ s \notin misstated => activeTurn[s] # NoCall)
  BY <1>1, Standing DEF TurnIsActive, Doing
<1>4. \A e \in AcpCalls : WillInitialize(e) /\ AcpTarget[e] = s => meta[s] = "none" /\ cached[s] = "none"
  BY DEF AcpIInv, RuntimeIInv, NewIsUntouched
<1>5. CASE call' = OpEnds(c, call) /\ UNCHANGED cached
  <2>1. Settles(c)
    BY <1>1, <1>2, <1>5, OperationEnds
  <2>2. Moves(c) /\ call'[c].op = "settled" /\ call'[c].of = "evict"
    BY <1>1, <2>1 DEF Moves, Settles
  <2>3. RuntimeTypes' /\ Elsewhere(s) /\ (cached'[s] # "none" => s \in open')
    BY <1>1, <1>2, <1>3, <1>5 DEF RuntimeTypes, Elsewhere, CachedIsOpen
  <2>4. Owes(c, s)
    BY <1>1, <1>3, <1>4, <1>5, <2>2, <2>3 DEF Owes, FillsRoom, TurnIsActive, Doing, Creates
  <2> QED
    BY <2>2, <2>4, ChainMoves, RuntimeMoves DEF AcpIInv
<1>6. CASE call' = Runs(c, 1) /\ cached' = [cached EXCEPT ![s] = "none"] /\ cached[s] # "none"
  <2>1. StepsTo(c, 1)
    BY <1>1, <1>2, <1>6, OperationRuns
  <2>2. 1 \in 1..Len(Script(call[c].of))
    BY <1>1, Scripts
  <2>3. Moves(c) /\ call'[c].op = "running" /\ call'[c].of = "evict"
    BY <1>1, <2>1, <2>2 DEF Moves, StepsTo
  <2>4. RuntimeTypes' /\ Elsewhere(s) /\ cached'[s] = "none"
    BY <1>1, <1>2, <1>3, <1>6 DEF RuntimeTypes, Elsewhere
  <2>5. Owes(c, s)
    BY <1>1, <1>3, <1>4, <1>6, <2>3, <2>4 DEF Owes, FillsRoom, TurnIsActive, Doing, Creates, Ensures
  <2> QED
    BY <2>3, <2>5, ChainMoves, RuntimeMoves DEF AcpIInv
<1> QED
  BY <1>5, <1>6 DEF Evict

\* When nothing is being created nobody creates.
LEMMA NothingCreated ==
  ASSUME AcpIInv, BeingCreated = {}
  PROVE  \A d \in AcpCalls : ~Creates(d)
<1> SUFFICES ASSUME NEW d \in AcpCalls, Creates(d) PROVE FALSE
  OBVIOUS
<1>1. call[d].op = "running" /\ First(d)
  BY DEF Creates, AcpIInv, ChainIInv, OpsAreCalled, First, Unsettled
<1>2. call[d].on \in AcpSessionKeys /\ call[d].step \in 1..Length(call[d].of)
  BY <1>1, Standing
<1>3. \E step \in {"ensure", "create", "write_meta"} :
        <<call[d].of, call[d].step>> \in Places(step)
  <2>1. CASE call[d].of = "init"
    <3>1. call[d].step = 1 \/ call[d].step = 2
      BY <1>2, <2>1 DEF Length
    <3> QED
      BY <2>1, <3>1, PlacesAre
  <2>2. CASE call[d].of \in Ensures /\ call[d].step = 1
    BY <2>2, PlacesAre
  <2> QED
    BY <2>1, <2>2 DEF Creates
<1>4. \E step \in {"ensure", "create", "write_meta"} : At(d, step)
  BY <1>1, <1>3, AtPlaces, PlacesAre DEF AcpIInv
<1> QED
  BY <1>2, <1>4 DEF BeingCreated

LEMMA BeginInv ==
  ASSUME AcpIInv, NEW c \in AcpCalls, Begin(c) PROVE AcpIInv'
<1> DEFINE s == call[c].on
           first == Script(call[c].of)[1]
<1>1. /\ First(c) /\ call[c].op = "queued" /\ call[c].of # "evict"
      /\ UNCHANGED <<tail, open, meta, activeTurn, misstated>>
      /\ call[c].of = "init" \/ meta[s] # "none"
  BY DEF Begin, Ready, First, Unsettled
<1>2. ChainIInv /\ RuntimeTypes /\ CachedIsOpen
  BY DEF AcpIInv, RuntimeIInv
<1>3. /\ s \in AcpSessionKeys /\ activeTurn[s] = NoCall /\ call[c].of \in Kinds
      /\ meta[s] = "running" /\ s \notin misstated => activeTurn[s] # NoCall
      /\ call[c].of = "init" => WillInitialize(c) /\ AcpTarget[c] = s
  BY <1>1, Standing DEF TurnIsActive, Doing
<1>4. \A e \in AcpCalls : WillInitialize(e) /\ AcpTarget[e] = s =>
        call[c].of = "init" /\ meta[s] = "none" /\ cached[s] = "none"
  BY <1>1 DEF AcpIInv, RuntimeIInv, NewIsUntouched
<1>5. /\ Len(Script(call[c].of)) = Length(call[c].of) /\ Length(call[c].of) \in 1..6
      /\ first = "ensure" <=> call[c].of \in Ensures
      /\ first = "create" <=> call[c].of = "init"
      /\ first = "persist" <=> call[c].of = "update"
  BY <1>3, ScriptLengths
<1>6. 1 \in 1..Len(Script(call[c].of)) /\ (call[c].of \in Ensures => 2 \in 1..Len(Script(call[c].of)))
  <2>1. call[c].of \in Ensures => Length(call[c].of) \in {3, 6}
    BY DEF Length, Ensures
  <2> QED
    BY <1>5, <2>1
<1>7. CASE /\ first = "ensure" /\ cached[s] # "none"
           /\ call' = Used(s, Runs(c, 2)) /\ cached' = [cached EXCEPT ![s] = "fresh"]
           /\ UNCHANGED overlapped
  <2>1. StepsTo(c, 2)
    BY <1>1, <1>2, <1>7, OperationRuns
  <2>2. Moves(c) /\ call'[c].op = "running" /\ call'[c].of = call[c].of /\ call'[c].step = 2
    BY <1>1, <1>5, <1>6, <1>7, <2>1 DEF Moves, StepsTo
  <2>3. RuntimeTypes' /\ Elsewhere(s) /\ cached'[s] = "fresh" /\ s \in open'
    BY <1>1, <1>2, <1>3, <1>7 DEF RuntimeTypes, Elsewhere, CachedIsOpen
  <2>4. call[c].of \notin {"init", "evict"} /\ \A e \in AcpCalls : WillInitialize(e) => AcpTarget[e] # s
    BY <1>4, <1>5, <1>7 DEF Ensures
  <2>5. ~TurnIsActive(c)' /\ ~Creates(c)'
    BY <2>2, <2>4 DEF TurnIsActive, Doing, Creates
  <2>6. Owes(c, s)
    BY <1>1, <1>3, <1>7, <2>2, <2>3, <2>4, <2>5 DEF Owes, FillsRoom
  <2> QED
    BY <2>2, <2>6, ChainMoves, RuntimeMoves DEF AcpIInv
<1>8. CASE first = "persist" /\ call' = Runs(c, 1) /\ UNCHANGED <<cached, overlapped>>
  <2>1. StepsTo(c, 1)
    BY <1>1, <1>2, <1>8, OperationRuns
  <2>2. Moves(c) /\ call'[c].op = "running" /\ call'[c].of = "update" /\ call[c].of = "update"
    BY <1>1, <1>5, <1>6, <1>8, <2>1 DEF Moves, StepsTo
  <2>3. RuntimeTypes' /\ Elsewhere(s) /\ (cached'[s] # "none" => s \in open')
    BY <1>1, <1>2, <1>3, <1>8 DEF RuntimeTypes, Elsewhere, CachedIsOpen
  <2>4. ~TurnIsActive(c)' /\ ~Creates(c)' /\ \A e \in AcpCalls : WillInitialize(e) => AcpTarget[e] # s
    BY <1>4, <2>2 DEF TurnIsActive, Doing, Creates, Ensures
  <2>5. Owes(c, s)
    BY <1>1, <1>3, <1>8, <2>2, <2>3, <2>4 DEF Owes, FillsRoom
  <2> QED
    BY <2>2, <2>5, ChainMoves, RuntimeMoves DEF AcpIInv
<1>9. CASE /\ first \in {"ensure", "create"}
           /\ cached' = IF first = "ensure" THEN [cached EXCEPT ![s] = "none"] ELSE cached
           /\ IF AtLimit(s)
              THEN call' = OpEnds(c, call) /\ UNCHANGED overlapped
              ELSE call' = Runs(c, 1) /\ overlapped' = (overlapped \/ BeingCreated # {})
  <2>1. cached'[s] = "none" /\ RuntimeTypes' /\ Elsewhere(s)
    <3>1. call[c].of = "init" => cached[s] = "none"
      BY <1>3, <1>4
    <3>2. /\ cached' \in [AcpSessionKeys -> {"none", "fresh", "idle"}] /\ cached'[s] = "none"
          /\ \A x \in AcpSessionKeys \ {s} : cached'[x] = cached[x]
      BY <1>2, <1>3, <1>5, <1>9, <3>1 DEF RuntimeTypes
    <3>3. overlapped' \in BOOLEAN
      BY <1>2, <1>9 DEF RuntimeTypes
    <3> QED
      BY <1>1, <1>2, <3>2, <3>3 DEF RuntimeTypes, Elsewhere
  <2>2. CASE AtLimit(s)
    <3>1. Settles(c)
      BY <1>1, <1>2, <1>9, <2>2, OperationEnds
    <3>2. Moves(c) /\ call'[c].op = "settled" /\ call'[c].of = call[c].of
      BY <1>1, <3>1 DEF Moves, Settles
    <3>3. overlapped' = overlapped
      BY <1>9, <2>2
    <3>4. Owes(c, s)
      BY <1>1, <1>3, <1>4, <2>1, <3>2, <3>3 DEF Owes, FillsRoom, TurnIsActive, Doing, Creates
    <3> QED
      BY <3>2, <3>4, ChainMoves, RuntimeMoves DEF AcpIInv
  <2>3. CASE ~AtLimit(s)
    <3>1. StepsTo(c, 1)
      BY <1>1, <1>2, <1>9, <2>3, OperationRuns
    <3>2. Moves(c) /\ call'[c].op = "running" /\ call'[c].of = call[c].of /\ call'[c].step = 1
      BY <1>1, <1>6, <3>1 DEF Moves, StepsTo
    <3>3. TakesRoom(c, s)
      <4>1. Cardinality(Cached(s)) < MaxSessions
        <5>1. ~(Cardinality(Cached(s)) >= MaxSessions)
          BY <2>3 DEF AtLimit, Cached
        <5>2. Cardinality(Cached(s)) \in Nat /\ MaxSessions \in Nat
          BY KeysAreFinite, AcpAssumption DEF Cached
        <5> HIDE DEF Cached
        <5> QED
          BY <5>1, <5>2
      <4>2. ~overlapped' => ~overlapped /\ BeingCreated = {}
        BY <1>9, <2>3
      <4> QED
        BY <2>1, <4>1, <4>2, NothingCreated DEF TakesRoom
    <3>4. ~TurnIsActive(c)'
      BY <3>2 DEF TurnIsActive, Doing
    <3>5. Owes(c, s)
      BY <1>1, <1>3, <1>4, <2>1, <3>2, <3>3, <3>4 DEF Owes
    <3> QED
      BY <3>2, <3>5, ChainMoves, RuntimeMoves DEF AcpIInv
  <2> QED
    BY <2>2, <2>3
<1> QED
  BY <1>7, <1>8, <1>9 DEF Begin

\* A call that queues its operation.
LEMMA EnqueueInv ==
  ASSUME AcpIInv, NEW c \in AcpCalls, NEW s \in AcpSessionKeys, NEW what \in Kinds,
         call[c].at = "evicting", call[c].op = "none",
         what = "evict" \/ (what = call[c].kind /\ s = AcpTarget[c]), Enqueue(c, s, what),
         UNCHANGED <<cached, open, meta, activeTurn, overlapped, misstated>>
  PROVE  AcpIInv'
<1>1. /\ ChainIInv' /\ \A d \in AcpCalls \ {c} : call'[d] = call[d]
      /\ call'[c].at = call[c].at /\ call'[c].kind = call[c].kind /\ call'[c].op = "queued"
  BY ChainEnqueues DEF AcpIInv
<1>2. WillInitialize(c)' => WillInitialize(c)
  BY <1>1 DEF WillInitialize
<1>3. RuntimeIInv'
  BY <1>1, <1>2, RuntimeRests
<1> QED
  BY <1>1, <1>3 DEF AcpIInv

LEMMA QueueEvictionInv ==
  ASSUME AcpIInv, NEW c \in AcpCalls, QueueEviction(c) PROVE AcpIInv'
<1>1. PICK s \in call[c].todo : Enqueue(c, s, "evict")
  BY DEF QueueEviction
<1>2. s \in AcpSessionKeys
  BY DEF AcpIInv, ChainIInv, ChainTypes, CallRecords
<1>3. call[c].at = "evicting" /\ call[c].op = "none"
      /\ UNCHANGED <<cached, open, meta, activeTurn, overlapped, misstated>> /\ "evict" \in Kinds
  BY DEF QueueEviction, Kinds
<1> QED
  BY <1>1, <1>2, <1>3, EnqueueInv

LEMMA QueueOperationInv ==
  ASSUME AcpIInv, NEW c \in AcpCalls, QueueOperation(c) PROVE AcpIInv'
<1> DEFINE what == call[c].kind
           s == AcpTarget[c]
<1>1. call[c].at = "evicting" /\ call[c].op = "none" /\ Enqueue(c, s, what)
      /\ UNCHANGED <<cached, open, meta, activeTurn, overlapped, misstated>>
  BY DEF QueueOperation, EvictionsDone
<1>2. what \in Kinds /\ s \in AcpSessionKeys
  <2>1. call[c].kind \in AcpKinds[c]
    BY <1>1 DEF AcpIInv, ChainIInv, OpsAreCalled
  <2> QED
    BY <2>1, AcpAssumption
<1> HIDE DEF what, s
<1>3. what = "evict" \/ (what = call[c].kind /\ s = AcpTarget[c])
  BY DEF what, s
<1> QED
  BY <1>1, <1>2, <1>3, EnqueueInv

\* What is put in the place of a call that has no operation.
LEMMA PutAside ==
  ASSUME AcpIInv, NEW c \in AcpCalls, NEW r \in CallRecords, call' = [call EXCEPT ![c] = r],
         call[c].op \in {"none", "settled"}, r.op = "none",
         r.at = "evicting" => r.kind \in AcpKinds[c],
         tail' \in [AcpSessionKeys -> AcpCalls \cup {NoCall}],
         \A s \in AcpSessionKeys :
           /\ tail'[s] = tail[s] \/ (tail'[s] = NoCall /\ tail[s] = c)
           /\ call[c].op = "settled" /\ call[c].on = s => tail'[s] # c,
         r.at = "new" \/ r.kind = "init" => WillInitialize(c) \/ "init" \notin AcpKinds[c],
         UNCHANGED <<cached, open, meta, activeTurn, overlapped, misstated>>
  PROVE  AcpIInv'
<1>1. call \in [AcpCalls -> CallRecords]
  BY DEF AcpIInv, ChainIInv, ChainTypes
<1>2. call'[c] = r /\ \A d \in AcpCalls \ {c} : call'[d] = call[d]
  BY <1>1
<1>3. Rests(c)
  BY <1>1, <1>2 DEF Rests, ChainTypes
<1>4. WillInitialize(c)' => WillInitialize(c)
  BY <1>2 DEF WillInitialize
<1>5. RuntimeIInv'
  BY <1>2, <1>4, RuntimeRests
<1> QED
  BY <1>3, <1>5, ChainRests DEF AcpIInv

LEMMA NewCalls ==
  /\ NewCall \in CallRecords
  /\ NewCall.at = "new" /\ NewCall.kind = "none" /\ NewCall.op = "none"
  /\ NewCall.of = "none" /\ NewCall.on = "none"
BY DEF NewCall, CallRecords

LEMMA CleanTailInv ==
  ASSUME AcpIInv, NEW c \in AcpCalls, CleanTail(c) PROVE AcpIInv'
<1> DEFINE r == GoesOn(c)
<1>1. /\ call[c].op = "settled" /\ call' = [call EXCEPT ![c] = r]
      /\ tail' = [tail EXCEPT ![call[c].on] = IF @ = c THEN NoCall ELSE @]
      /\ UNCHANGED <<cached, open, meta, activeTurn, overlapped, misstated>>
  BY DEF CleanTail
<1>2. /\ call[c] \in CallRecords /\ tail \in [AcpSessionKeys -> AcpCalls \cup {NoCall}]
      /\ call[c].at = "evicting" /\ call[c].kind \in AcpKinds[c] /\ call[c].on \in AcpSessionKeys
  BY <1>1 DEF AcpIInv, ChainIInv, ChainTypes, OpsAreCalled
<1>3. /\ r \in CallRecords /\ r.op = "none" /\ r.at \in {"evicting", "over"}
      /\ r.at = "evicting" => r.kind = call[c].kind /\ call[c].of = "evict"
      /\ r.at = "over" => r.kind = "none"
  <2>1. CASE call[c].of = "evict"
    <3>1. r = [NewCall EXCEPT !.at = "evicting", !.kind = call[c].kind, !.todo = call[c].todo,
                              !.stale = call[c].stale \cap call[c].todo]
      BY <2>1 DEF GoesOn
    <3>2. /\ call[c].kind \in Kinds \cup {"none"} /\ call[c].todo \in SUBSET AcpSessionKeys
          /\ call[c].stale \cap call[c].todo \in SUBSET AcpSessionKeys
      BY <1>2 DEF CallRecords
    <3> QED
      BY <2>1, <3>1, <3>2, NewCalls DEF CallRecords
  <2>2. CASE call[c].of # "evict"
    <3>1. r = [NewCall EXCEPT !.at = "over"]
      BY <2>2 DEF GoesOn
    <3> QED
      BY <3>1, NewCalls DEF CallRecords
  <2> QED
    BY <2>1, <2>2
<1> HIDE DEF r
<1>4. tail' \in [AcpSessionKeys -> AcpCalls \cup {NoCall}]
      /\ \A s \in AcpSessionKeys :
           /\ tail'[s] = tail[s] \/ (tail'[s] = NoCall /\ tail[s] = c)
           /\ call[c].op = "settled" /\ call[c].on = s => tail'[s] # c
  BY <1>1, <1>2, AcpAssumption
<1>5. r.at = "new" \/ r.kind = "init" => WillInitialize(c) \/ "init" \notin AcpKinds[c]
  BY <1>3 DEF WillInitialize
<1> QED
  BY <1>1, <1>2, <1>3, <1>4, <1>5, PutAside

LEMMA CallInv ==
  ASSUME AcpIInv, NEW c \in AcpCalls, Call(c) PROVE AcpIInv'
<1> DEFINE idle == {s \in AcpSessionKeys : cached[s] = "idle"}
<1>1. PICK k \in AcpKinds[c] :
        call' = [call EXCEPT ![c].at = "evicting", ![c].kind = k, ![c].todo = idle, ![c].stale = idle]
  BY DEF Call
<1>2. /\ call[c].at = "new" /\ UNCHANGED <<tail, cached, open, meta, activeTurn, overlapped, misstated>>
      /\ call[c].op = "none"
  <2>1. call[c].at = "new" /\ UNCHANGED <<tail, cached, open, meta, activeTurn, overlapped, misstated>>
    BY DEF Call
  <2>2. call[c].op # "none" => call[c].at = "evicting"
    BY DEF AcpIInv, ChainIInv, OpsAreCalled
  <2> QED
    BY <2>1, <2>2
<1>3. k \in Kinds /\ idle \in SUBSET AcpSessionKeys
  BY AcpAssumption
<1> HIDE DEF idle
<1> DEFINE r == [call[c] EXCEPT !.at = "evicting", !.kind = k, !.todo = idle, !.stale = idle]
<1>4. call \in [AcpCalls -> CallRecords] /\ tail \in [AcpSessionKeys -> AcpCalls \cup {NoCall}]
  BY DEF AcpIInv, ChainIInv, ChainTypes
<1>5. call[c] \in CallRecords
  BY <1>4
<1>6. r \in CallRecords /\ r.at = "evicting" /\ r.kind = k /\ r.op = "none"
  BY <1>2, <1>3, <1>5 DEF CallRecords
<1>7. call' = [call EXCEPT ![c] = r]
  BY <1>1, <1>4
<1> HIDE DEF r
<1>8. r.at = "new" \/ r.kind = "init" => WillInitialize(c) \/ "init" \notin AcpKinds[c]
  BY <1>2, <1>6 DEF WillInitialize
<1>9. \A s \in AcpSessionKeys :
        /\ tail'[s] = tail[s] \/ (tail'[s] = NoCall /\ tail[s] = c)
        /\ call[c].op = "settled" /\ call[c].on = s => tail'[s] # c
  BY <1>2
<1> QED
  BY <1>2, <1>4, <1>6, <1>7, <1>8, <1>9, PutAside

LEMMA CancelActiveInv ==
  ASSUME AcpIInv, NEW c \in AcpCalls, CancelActive(c) PROVE AcpIInv'
<1> DEFINE r == [NewCall EXCEPT !.at = "over"]
<1>1. /\ call[c].op = "none" /\ call' = [call EXCEPT ![c] = r]
      /\ UNCHANGED <<tail, cached, open, meta, activeTurn, overlapped, misstated>>
  BY DEF CancelActive, EvictionsDone
<1>2. r \in CallRecords /\ r.at = "over" /\ r.kind = "none" /\ r.op = "none"
  BY NewCalls DEF CallRecords
<1>3. tail' \in [AcpSessionKeys -> AcpCalls \cup {NoCall}]
      /\ \A s \in AcpSessionKeys :
           /\ tail'[s] = tail[s] \/ (tail'[s] = NoCall /\ tail[s] = c)
           /\ call[c].op = "settled" /\ call[c].on = s => tail'[s] # c
  BY <1>1 DEF AcpIInv, ChainIInv, ChainTypes
<1> HIDE DEF r
<1> QED
  BY <1>1, <1>2, <1>3, PutAside

LEMMA BecomesIdleInv ==
  ASSUME AcpIInv, NEW s \in AcpSessionKeys, BecomesIdle(s) PROVE AcpIInv'
<1>1. UNCHANGED <<call, tail, open, meta, activeTurn, overlapped, misstated>>
      /\ cached[s] = "fresh" /\ cached' = [cached EXCEPT ![s] = "idle"]
  BY DEF BecomesIdle
<1>2. cached \in [AcpSessionKeys -> {"none", "fresh", "idle"}]
  BY DEF AcpIInv, RuntimeIInv, RuntimeTypes
<1>3. \A x \in AcpSessionKeys : cached'[x] # "none" <=> cached[x] # "none"
  BY <1>1, <1>2
<1>4. ChainIInv'
  BY <1>1 DEF AcpIInv, ChainIInv, ChainTypes, OpsAreCalled, TailsAreTheirs, OperationsQueue, InRow,
              Unsettled
<1>5. \A d \in AcpCalls : call[d].op = "running" => call[d].on \in AcpSessionKeys
  BY DEF AcpIInv, ChainIInv, OpsAreCalled
<1>6. RuntimeTypes' /\ CachedIsOpen' /\ KeepsRuntime'
  BY <1>1, <1>2, <1>3, <1>5
     DEF AcpIInv, RuntimeIInv, RuntimeTypes, CachedIsOpen, KeepsRuntime, Doing
<1>7. NewIsUntouched'
  BY <1>1, <1>3, AcpAssumption DEF AcpIInv, RuntimeIInv, NewIsUntouched, WillInitialize
<1>8. ActiveIsTurn' /\ RunningIsActive'
  BY <1>1 DEF AcpIInv, RuntimeIInv, ActiveIsTurn, RunningIsActive, TurnIsActive, Doing
<1>9. RoomForOne'
  <2>1. {x \in AcpSessionKeys : cached'[x] # "none"} = {x \in AcpSessionKeys : cached[x] # "none"}
    BY <1>3
  <2>2. \A t : {x \in AcpSessionKeys \ {t} : cached'[x] # "none"} = Cached(t)
    BY <1>3 DEF Cached
  <2>3. \A d \in AcpCalls : Creates(d)' <=> Creates(d)
    BY <1>1 DEF Creates
  <2>4. RoomForOne
    BY DEF AcpIInv, RuntimeIInv
  <2> QED
    BY <1>1, <2>1, <2>2, <2>3, <2>4 DEF RoomForOne, Cached
<1> QED
  BY <1>4, <1>6, <1>7, <1>8, <1>9 DEF AcpIInv, RuntimeIInv

-----------------------------------------------------------------------------
(* The invariant *)

LEMMA AcpInitInv == AcpInit => AcpIInv
<1> SUFFICES ASSUME AcpInit PROVE AcpIInv
  OBVIOUS
<1>1. \A c \in AcpCalls : call[c] = NewCall
  BY DEF AcpInit
<1>2. ChainTypes
  BY NewCalls DEF AcpInit, ChainTypes
<1>3. OpsAreCalled /\ TailsAreTheirs
  BY <1>1, NewCalls DEF AcpInit, OpsAreCalled, TailsAreTheirs
<1>4. OperationsQueue
  <2> DEFINE pos == [c \in AcpCalls |-> 0]
  <2>1. pos \in [AcpCalls -> Nat] /\ InRow(pos)
    BY <1>1, NewCalls DEF InRow, Unsettled
  <2> QED
    BY <2>1 DEF OperationsQueue
<1>5. \A c \in AcpCalls : ~Creates(c) /\ ~TurnIsActive(c) /\ call[c].op # "running"
  BY <1>1, NewCalls DEF Creates, TurnIsActive, Doing
<1>6. RuntimeTypes /\ CachedIsOpen /\ KeepsRuntime
  <2>1. /\ cached \in [AcpSessionKeys -> {"none", "fresh", "idle"}]
        /\ meta \in [AcpSessionKeys -> {"none", "idle", "running", "error"}]
        /\ activeTurn \in [AcpSessionKeys -> AcpCalls \cup {NoCall}]
        /\ open \in SUBSET AcpSessionKeys /\ misstated \in SUBSET AcpSessionKeys
    BY DEF AcpInit
  <2>2. overlapped \in BOOLEAN
    BY DEF AcpInit
  <2>3. CachedIsOpen /\ KeepsRuntime
    BY <1>5 DEF AcpInit, CachedIsOpen, KeepsRuntime, Doing
  <2> QED
    BY <2>1, <2>2, <2>3 DEF RuntimeTypes
<1>7. NewIsUntouched
  BY <1>5, AcpAssumption DEF AcpInit, NewIsUntouched, WillInitialize
<1>8. ActiveIsTurn /\ RunningIsActive /\ RoomForOne
  <2>1. RoomForOne
    BY <1>5 DEF AcpInit, RoomForOne
  <2> QED
    BY <1>5, <2>1, AcpAssumption DEF AcpInit, ActiveIsTurn, RunningIsActive
<1> QED
  BY <1>2, <1>3, <1>4, <1>6, <1>7, <1>8 DEF AcpIInv, ChainIInv, RuntimeIInv

LEMMA AcpNextInv == AcpIInv /\ [AcpNext]_acpVars => AcpIInv'
<1> SUFFICES ASSUME AcpIInv, [AcpNext]_acpVars PROVE AcpIInv'
  OBVIOUS
<1>1. CASE UNCHANGED acpVars
  <2>1. ChainIInv'
    BY <1>1 DEF acpVars, AcpIInv, ChainIInv, ChainTypes, OpsAreCalled, TailsAreTheirs, OperationsQueue,
                InRow, Unsettled
  <2>2. (RuntimeTypes /\ CachedIsOpen /\ KeepsRuntime /\ NewIsUntouched)'
    BY <1>1 DEF acpVars, AcpIInv, RuntimeIInv, RuntimeTypes, CachedIsOpen, KeepsRuntime, NewIsUntouched,
                WillInitialize, Doing
  <2>3. (ActiveIsTurn /\ RunningIsActive)'
    BY <1>1 DEF acpVars, AcpIInv, RuntimeIInv, ActiveIsTurn, RunningIsActive, TurnIsActive, Doing
  <2>4. RoomForOne'
    BY <1>1 DEF acpVars, AcpIInv, RuntimeIInv, RoomForOne, Cached, Creates
  <2> QED
    BY <2>1, <2>2, <2>3, <2>4 DEF AcpIInv, RuntimeIInv
<1>2. ASSUME NEW s \in AcpSessionKeys, BecomesIdle(s) PROVE AcpIInv'
  BY <1>2, BecomesIdleInv
<1>3. ASSUME NEW c \in AcpCalls, Call(c) PROVE AcpIInv'
  BY <1>3, CallInv
<1>4. ASSUME NEW c \in AcpCalls, StreamEnds(c) PROVE AcpIInv'
  BY <1>4, StreamEndsInv
<1>5. ASSUME NEW c \in AcpCalls, AcpStep(c) PROVE AcpIInv'
  BY <1>5, CleanTailInv, QueueEvictionInv, CancelActiveInv, QueueOperationInv, RefuseInv, EvictInv,
     BeginInv, EnsureReturnsInv, CreateReturnsInv, WriteMetaReturnsInv, AskReturnsInv,
     MarkRunningReturnsInv, MarkOverReturnsInv, FinishReturnsInv, CloseReturnsInv, ClearMetaReturnsInv,
     PersistReturnsInv, EvictReturnsInv DEF AcpStep
<1> QED
  BY <1>1, <1>2, <1>3, <1>4, <1>5 DEF AcpNext

LEMMA AcpIInvImplies == AcpIInv => AcpInv
<1> SUFFICES ASSUME AcpIInv PROVE AcpInv
  OBVIOUS
<1>0. ASSUME NEW c \in AcpCalls
      PROVE  /\ At(c, "stream") <=> Doing(c, "turn", 4)
             /\ At(c, "mark_over") <=> Doing(c, "turn", 5) \/ Doing(c, "cancel", 3)
  <2>1. Places("stream") = {<<"turn", 4>>} /\ Places("mark_over") = {<<"turn", 5>>, <<"cancel", 3>>}
    BY PlacesAre
  <2>2. /\ At(c, "stream") <=> call[c].op = "running" /\ <<call[c].of, call[c].step>> \in {<<"turn", 4>>}
        /\ At(c, "mark_over") <=>
             call[c].op = "running" /\ <<call[c].of, call[c].step>> \in {<<"turn", 5>>, <<"cancel", 3>>}
    <3>1. ChainIInv /\ "stream" \in Steps /\ "mark_over" \in Steps
      BY PlacesAre DEF AcpIInv
    <3> QED
      BY <2>1, <3>1, AtPlaces
  <2> QED
    BY <2>2 DEF Doing
<1>1. ASSUME NEW c \in AcpCalls
      PROVE  At(c, "stream") \/ At(c, "mark_over") <=>
               \/ Doing(c, "turn", 4) \/ Doing(c, "turn", 5) \/ Doing(c, "cancel", 3)
  BY <1>0
<1>2. ASSUME NEW c \in AcpCalls PROVE At(c, "stream") <=> Doing(c, "turn", 4)
  BY <1>0
<1>3. AcpTypeOK
  <2>1. ASSUME NEW c \in AcpCalls
        PROVE  /\ call[c].at \in {"new", "evicting", "over"}
               /\ call[c].op \in {"none", "queued", "running", "settled"}
               /\ call[c].op # "none" => call[c].of \in Kinds /\ call[c].on \in AcpSessionKeys
               /\ call[c].stale \subseteq AcpSessionKeys /\ call[c].todo \subseteq AcpSessionKeys
    BY DEF AcpIInv, ChainIInv, ChainTypes, CallRecords, OpsAreCalled
  <2>2. ASSUME NEW s \in AcpSessionKeys, NEW c \in AcpCalls
        PROVE  activeTurn[s] = c <=>
                 /\ call[c].op = "running" /\ call[c].on = s /\ call[c].of = "turn"
                 /\ At(c, "stream") \/ At(c, "mark_over")
    <3>1. activeTurn[s] = c <=> TurnIsActive(c) /\ call[c].on = s
      BY DEF AcpIInv, RuntimeIInv, ActiveIsTurn
    <3>2. TurnIsActive(c) <=> call[c].op = "running" /\ call[c].of = "turn"
                              /\ (At(c, "stream") \/ At(c, "mark_over"))
      BY <1>1 DEF TurnIsActive, Doing
    <3> QED
      BY <3>1, <3>2
  <2> QED
    BY <2>1, <2>2 DEF AcpTypeOK, AcpIInv, RuntimeIInv, RuntimeTypes
<1>4. OneOperationPerSession
  <2>1. \A c \in AcpCalls : call[c].op = "running" => First(c)
    BY DEF AcpIInv, ChainIInv, OpsAreCalled, First, Unsettled
  <2> QED
    BY <2>1, FirstIsAlone DEF OneOperationPerSession, AcpIInv
<1>5. TurnKeepsRuntime
  <2>1. ASSUME NEW c \in AcpCalls, At(c, "stream")
        PROVE  call[c].on \in open /\ cached[call[c].on] # "none"
    <3>1. call[c].op = "running" /\ call[c].of = "turn" /\ call[c].step = 4
      BY <1>2, <2>1 DEF Doing
    <3>2. call[c].on \in AcpSessionKeys
      BY <3>1 DEF AcpIInv, ChainIInv, OpsAreCalled
    <3> QED
      BY <3>1, <3>2 DEF AcpIInv, RuntimeIInv, KeepsRuntime, CachedIsOpen
  <2> QED
    BY <2>1 DEF TurnKeepsRuntime
<1>6. StateIsSettled
  <2>1. ASSUME NEW s \in AcpSessionKeys \ misstated, meta[s] = "running"
        PROVE  \E c \in AcpCalls : call[c].op = "running" /\ call[c].on = s
    <3>1. activeTurn[s] # NoCall /\ activeTurn[s] \in AcpCalls \cup {NoCall}
      BY <2>1 DEF AcpIInv, RuntimeIInv, RunningIsActive, RuntimeTypes
    <3>2. PICK c \in AcpCalls : activeTurn[s] = c
      BY <3>1
    <3>3. TurnIsActive(c) /\ call[c].on = s
      BY <3>2 DEF AcpIInv, RuntimeIInv, ActiveIsTurn
    <3> QED
      BY <3>3 DEF TurnIsActive, Doing
  <2> QED
    BY <2>1 DEF StateIsSettled
<1>7. SessionsWithinLimit
  BY DEF SessionsWithinLimit, AcpIInv, RuntimeIInv, RoomForOne
<1> QED
  BY <1>3, <1>4, <1>5, <1>6, <1>7 DEF AcpInv

\* Whatever sessions there are and whatever is called: operations of a session never
\* overlap, a turn keeps its runtime, no session is left at "running", and there are no more
\* runtimes than configured unless two were being created at the same time.
THEOREM SessionsAreSound == AcpSpec => []AcpInv
<1>1. AcpSpec => []AcpIInv
  BY AcpInitInv, AcpNextInv, PTL DEF AcpSpec
<1> QED
  BY <1>1, AcpIInvImplies, PTL

-----------------------------------------------------------------------------
(* Previews: the inductive invariant *)

Streams == [stopped : BOOLEAN, final : BOOLEAN, gen : 1..MaxMessages, message : 0..MaxTexts,
            lastSent : 0..MaxTexts]
Sends == [text : 0..MaxTexts, gen : 0..MaxMessages, to : 0..MaxTexts,
          does : {"nothing", "skip", "refuse", "call"}]
Chats == [Messages -> [shows : 0..MaxTexts, gen : 0..MaxMessages, gone : BOOLEAN]]

\* What was given are the texts up to k, in the order of the generations.
GivenOK(k, g, st) ==
  /\ k \in 0..MaxTexts /\ g \in [Texts -> 0..MaxMessages]
  /\ \A t \in Texts : g[t] # 0 <=> t <= k
  /\ \A t \in Texts : g[t] <= st.gen
  /\ \A t, u \in Texts : t <= u /\ u <= k => g[t] <= g[u]

\* The messages were made one after the other, so that each shows a text of its own.
ChatOK(k, g, st, c) ==
  /\ c \in Chats
  /\ \E n \in 0..MaxTexts : \A m \in Messages : c[m].shows # 0 <=> m <= n
  /\ \A m \in Messages : c[m].shows # 0 =>
       /\ m <= c[m].shows /\ c[m].shows <= k
       /\ 1 <= c[m].gen /\ c[m].gen <= st.gen /\ g[c[m].shows] <= c[m].gen

\* The message that is edited shows the text.
Shown(st, c, t) == st.message # 0 /\ c[st.message].shows = t

\* The message that is edited is the one of this generation, the only one until it is
\* deleted; a preview that is closed is stopped, and once it is, nothing is in flight.
StreamOK(f, st, c, cl) ==
  /\ st \in Streams
  /\ st.message # 0 => c[st.message].shows # 0 /\ c[st.message].gen = st.gen
  /\ cl \in {"no", "waiting"} =>
       \A m \in Messages : c[m].shows # 0 /\ c[m].gen = st.gen => m = st.message
  /\ cl # "no" => st.stopped
  /\ cl \in {"done", "failed"} => f = NoSend
  /\ cl = "done" => \A m \in Messages : c[m].shows # 0 /\ c[m].gen = st.gen => c[m].gone

\* The text in flight is later than all that is shown; of this generation it is for the
\* message that is edited, and needless only where that shows it.
FlightOK(k, g, f, st, c) ==
  /\ f \in Sends
  /\ f.does = "nothing" => f = NoSend
  /\ f.does # "nothing" =>
       /\ 1 <= f.text /\ f.text <= k /\ 1 <= f.gen /\ f.gen <= st.gen /\ g[f.text] <= f.gen
       /\ f.gen = st.gen => f.to = st.message
       /\ f.to # 0 => c[f.to].shows # 0 /\ c[f.to].gen = f.gen
       /\ \A m \in Messages : c[m].shows <= f.text
       /\ f.to = 0 => \A m \in Messages : c[m].shows < f.text
       /\ f.does = "refuse" => f.to = 0
  /\ f.does = "call" /\ f.gen = st.gen => f.text = st.lastSent
  /\ f.does = "skip" /\ f.gen = st.gen /\ ~st.stopped => Shown(st, c, f.text)

\* The text that waits is later than what is in flight and than what is shown.
PendingOK(k, g, p, f, st, c) ==
  /\ p \in 0..k
  /\ p # 0 /\ f.does # "nothing" => f.text <= p /\ g[p] = st.gen
  /\ p # 0 /\ ~st.stopped =>
       /\ \A m \in Messages : c[m].shows <= p
       /\ st.message = 0 => \A m \in Messages : c[m].shows < p

\* The last text sent is in flight or shown.
LastOK(f, st, c) ==
  st.lastSent # 0 /\ ~st.stopped =>
    \/ f.does = "call" /\ f.gen = st.gen
    \/ Shown(st, c, st.lastSent)

\* The last text given waits, is in flight or is shown.
LatestOK(k, g, p, f, st, c, r) ==
  ~st.stopped /\ r # "over" /\ k # 0 /\ g[k] = st.gen =>
    \/ p = k
    \/ p = 0 /\ f.does # "nothing" /\ f.text = k /\ f.gen = st.gen
    \/ Shown(st, c, k)

\* Each text is where its generation is.
UnmixedOK(g, p, f, st, c, r) ==
  r # "over" =>
    /\ \A m \in Messages : c[m].shows # 0 => g[c[m].shows] = c[m].gen
    /\ f.does # "nothing" => g[f.text] = f.gen
    /\ p # 0 => g[p] = st.gen

\* The texts, the stream and the chat: k is the last text given, g what was given, p the
\* text that waits, f the send in flight, st the stream, c the chat, cl the call of clear
\* and r whether a refused text was put back.
Sound(k, g, p, f, st, c, cl, r) ==
  /\ GivenOK(k, g, st) /\ ChatOK(k, g, st, c) /\ StreamOK(f, st, c, cl)
  /\ FlightOK(k, g, f, st, c) /\ PendingOK(k, g, p, f, st, c) /\ LastOK(f, st, c)
  /\ LatestOK(k, g, p, f, st, c, r) /\ UnmixedOK(g, p, f, st, c, r)

\* The loop: a text that waits will be looked at, and the final flush leaves none.
LoopOK ==
  /\ waiting \in BOOLEAN /\ throttle \in [timer : BOOLEAN, hot : BOOLEAN]
  /\ closing \in [stop : {"no", "flushing", "done"}, clear : {"no", "waiting", "done", "failed"}]
  /\ restored \in {"no", "yes", "over"}
  /\ pendingText # 0 => InFlight \/ throttle.timer \/ restored # "no"
  /\ stream.stopped /\ pendingText # 0 => restored # "no"
  /\ closing.stop # "no" => stream.final
  /\ stream.final /\ ~stream.stopped /\ ~Stale /\ pendingText # 0 => InFlight /\ waiting
  /\ stream.final /\ ~stream.stopped /\ inFlight.does = "refuse" => waiting
  /\ closing.stop = "done" /\ ~stream.stopped /\ ~Stale => ~InFlight /\ pendingText = 0

DraftIInv ==
  /\ Sound(Latest, given, pendingText, inFlight, stream, chat, closing.clear, restored)
  /\ LoopOK

-----------------------------------------------------------------------------
(* Previews: what is done to the texts, the stream and the chat *)

Clears == {"no", "waiting", "done", "failed"}

\* Take, of values: p waits then, f is in flight and s is the stream.
TakeTo(text, st, p, f, s) ==
  IF text = 0 \/ st.stopped
  THEN f = NoSend /\ p = text /\ s = st
  ELSE /\ f = Send(text, st) /\ p = 0
       /\ s = IF f.does = "call" THEN [st EXCEPT !.lastSent = text] ELSE st

LEMMA NoSendIsSend ==
  ASSUME DraftAssumption
  PROVE  NoSend.does = "nothing" /\ NoSend \in Sends
  BY DEF NoSend, Sends, DraftAssumption

\* The head of the loop keeps the invariant.
LEMMA TakeSound ==
  ASSUME DraftAssumption, NEW k, NEW g, NEW p, NEW st, NEW c, NEW cl \in Clears, NEW r,
         NEW q, NEW f, NEW s,
         Sound(k, g, p, NoSend, st, c, cl, r), TakeTo(p, st, q, f, s)
  PROVE  /\ Sound(k, g, q, f, s, c, cl, r)
         /\ s.stopped = st.stopped /\ s.final = st.final
         /\ (~st.stopped => q = 0) /\ (st.stopped => q = p /\ f = NoSend)
         /\ (st.final => f.does # "refuse") /\ (q # 0 => st.stopped) /\ (p = 0 => f = NoSend)
<1> USE DEF Sound
<1>1. CASE p = 0 \/ st.stopped
  <2>1. q = p /\ f = NoSend /\ s = st
    BY <1>1 DEF TakeTo
  <2> QED
    BY <1>1, <2>1 DEF NoSend
<1>2. CASE ~(p = 0 \/ st.stopped)
  <2> DEFINE u == Send(p, st)
  <2>1. /\ u.text = p /\ u.gen = st.gen /\ u.to = st.message
        /\ u.does \in {"skip", "refuse", "call"}
        /\ (u.does = "skip" => p = st.lastSent)
        /\ (u.does = "refuse" => st.message = 0 /\ ~st.final)
    BY DEF Send
  <2>2. f = u /\ q = 0 /\ s = IF u.does = "call" THEN [st EXCEPT !.lastSent = p] ELSE st
    BY <1>2 DEF TakeTo
  <2>3. st \in Streams /\ k \in 0..MaxTexts /\ p \in 1..k /\ MaxTexts \in Nat /\ p \in Texts
    BY <1>2 DEF StreamOK, GivenOK, PendingOK, DraftAssumption, Texts
  <2>4. /\ s \in Streams /\ s.stopped = st.stopped /\ s.final = st.final /\ s.gen = st.gen
        /\ s.message = st.message
        /\ (f.does = "call" => s.lastSent = p) /\ (f.does # "call" => s = st)
    BY <2>2, <2>3 DEF Streams
  <2>5. /\ f.text = p /\ f.gen = st.gen /\ f.to = st.message
        /\ f.does \in {"skip", "refuse", "call"}
        /\ (f.does = "skip" => p = st.lastSent)
        /\ (f.does = "refuse" => st.message = 0 /\ ~st.final)
    BY <2>1, <2>2
  <2>6. f \in Sends
    <3>1. u \in Sends
      BY <2>1, <2>3 DEF Send, Sends, Streams, DraftAssumption
    <3> QED
      BY <2>2, <3>1
  <2> HIDE DEF u
  <2>7. GivenOK(k, g, s) /\ ChatOK(k, g, s, c)
    BY <2>4 DEF GivenOK, ChatOK
  <2>8. StreamOK(f, s, c, cl)
    BY <1>2, <2>4 DEF StreamOK
  <2>9. f.does = "skip" => Shown(st, c, p)
    BY <1>2, <2>3, <2>5 DEF LastOK, NoSend
  <2>10. FlightOK(k, g, f, s, c)
    <3>1. 1 <= f.gen /\ f.gen <= s.gen /\ g[f.text] <= f.gen
      BY <2>3, <2>4, <2>5 DEF GivenOK, Streams
    <3>2. f.to # 0 => c[f.to].shows # 0 /\ c[f.to].gen = f.gen
      BY <2>5 DEF StreamOK
    <3>3. /\ \A m \in Messages : c[m].shows <= f.text
          /\ f.to = 0 => \A m \in Messages : c[m].shows < f.text
      BY <1>2, <2>5 DEF PendingOK
    <3>4. f.does = "skip" => Shown(s, c, f.text)
      BY <2>4, <2>5, <2>9 DEF Shown
    <3> QED
      BY <2>3, <2>4, <2>5, <2>6, <3>1, <3>2, <3>3, <3>4 DEF FlightOK
  <2>11. PendingOK(k, g, q, f, s, c)
    BY <2>2, <2>3 DEF PendingOK
  <2>12. LastOK(f, s, c)
    BY <2>4, <2>5 DEF LastOK, NoSend, Shown
  <2>13. LatestOK(k, g, q, f, s, c, r)
    BY <2>2, <2>4, <2>5 DEF LatestOK, NoSend, Shown
  <2>14. UnmixedOK(g, q, f, s, c, r)
    BY <1>2, <2>2, <2>4, <2>5 DEF UnmixedOK
  <2> QED
    BY <1>2, <2>2, <2>4, <2>5, <2>7, <2>8, <2>10, <2>11, <2>12, <2>13, <2>14
<1> QED
  BY <1>1, <1>2

\* A text is given.
LEMMA UpdateSound ==
  ASSUME DraftAssumption, NEW k, NEW g, NEW p, NEW f, NEW st, NEW c, NEW cl \in Clears, NEW r, NEW h,
         Sound(k, g, p, f, st, c, cl, r), ~st.stopped,
         NEW text \in Texts, text \in {k, k + 1}, g[text] \in {0, st.gen},
         h = [g EXCEPT ![text] = st.gen]
  PROVE  Sound(text, h, text, f, st, c, cl, r)
<1> USE DEF Sound
<1>1. /\ st \in Streams /\ k \in 0..MaxTexts /\ MaxTexts \in Nat /\ text \in 1..MaxTexts
      /\ g \in [Texts -> 0..MaxMessages] /\ st.gen \in 1..MaxMessages /\ MaxMessages \in Nat
      /\ cl = "no"
  BY DEF StreamOK, GivenOK, DraftAssumption, Texts, Streams
<1>2. /\ h \in [Texts -> 0..MaxMessages] /\ h[text] = st.gen
      /\ \A t \in Texts : t # text => h[t] = g[t]
      /\ \A t \in Texts : t <= k => h[t] = g[t]
  <2>1. h \in [Texts -> 0..MaxMessages] /\ h[text] = st.gen /\ \A t \in Texts : t # text => h[t] = g[t]
    BY <1>1
  <2>2. text <= k => g[text] = st.gen
    BY <1>1 DEF GivenOK
  <2> QED
    BY <2>1, <2>2
<1>3. GivenOK(text, h, st)
  <2>1. \A t \in Texts : t \in 1..MaxTexts /\ g[t] \in 0..MaxMessages /\ h[t] \in 0..MaxMessages
    BY <1>1, <1>2 DEF Texts
  <2>2. \A t \in Texts : h[t] # 0 <=> t <= text
    BY <1>1, <1>2, <2>1 DEF GivenOK
  <2>3. \A t \in Texts : h[t] <= st.gen
    BY <1>1, <1>2, <2>1 DEF GivenOK
  <2>4. ASSUME NEW t \in Texts, NEW v \in Texts, t <= v, v <= text PROVE h[t] <= h[v]
    <3>1. CASE v = text
      BY <1>2, <2>3, <3>1
    <3>2. CASE v # text
      <4>1. v <= k /\ t <= k
        BY <1>1, <2>1, <2>4, <3>2
      <4> QED
        BY <1>2, <2>4, <4>1 DEF GivenOK
    <3> QED
      BY <3>1, <3>2
  <2> QED
    BY <1>1, <1>2, <2>2, <2>3, <2>4 DEF GivenOK
<1>4. \A m \in Messages : c[m].shows \in 0..MaxTexts /\ c[m].gen \in 0..MaxMessages
  BY DEF ChatOK, Chats
<1>5. \A m \in Messages : c[m].shows # 0 =>
         c[m].shows \in Texts /\ c[m].shows <= k /\ h[c[m].shows] = g[c[m].shows]
  BY <1>1, <1>2, <1>4 DEF ChatOK, Texts
<1>6. ChatOK(text, h, st, c)
  <2>1. k <= text
    BY <1>1
  <2> QED
    BY <1>1, <1>4, <1>5, <2>1 DEF ChatOK
<1>7. StreamOK(f, st, c, cl)
  OBVIOUS
<1>8. f.does # "nothing" => f.text \in Texts /\ f.text <= k /\ h[f.text] = g[f.text] /\ f.text <= text
  BY <1>1, <1>2 DEF FlightOK, Sends, Texts
<1>9. FlightOK(text, h, f, st, c)
  BY <1>8 DEF FlightOK
<1>10. PendingOK(text, h, text, f, st, c)
  <2>1. \A m \in Messages : c[m].shows <= text
    BY <1>1, <1>4, <1>5
  <2>2. ASSUME st.message = 0, NEW m \in Messages PROVE c[m].shows < text
    <3>1. CASE c[m].shows = 0
      BY <1>1, <3>1
    <3>2. CASE c[m].shows # 0
      <4>1. c[m].gen # st.gen /\ c[m].gen <= st.gen /\ g[c[m].shows] <= c[m].gen
        <5>1. m # 0
          BY <1>1 DEF Messages
        <5> QED
          BY <1>1, <2>2, <3>2, <5>1 DEF StreamOK, ChatOK
      <4>2. c[m].shows = text => g[text] = st.gen
        BY <1>1, <1>5, <3>2 DEF GivenOK
      <4>3. c[m].shows # text
        BY <1>1, <1>4, <4>1, <4>2
      <4> QED
        BY <1>1, <1>4, <2>1, <4>3
    <3> QED
      BY <3>1, <3>2
  <2> QED
    BY <1>1, <1>2, <1>8, <2>1, <2>2 DEF PendingOK
<1>11. LastOK(f, st, c)
  OBVIOUS
<1>12. LatestOK(text, h, text, f, st, c, r)
  BY DEF LatestOK
<1>13. UnmixedOK(h, text, f, st, c, r)
  BY <1>2, <1>5, <1>8 DEF UnmixedOK
<1> QED
  BY <1>3, <1>6, <1>7, <1>9, <1>10, <1>11, <1>12, <1>13

\* There was nothing to be sent.
LEMMA SkipSound ==
  ASSUME DraftAssumption, NEW k, NEW g, NEW p, NEW f, NEW st, NEW c, NEW cl \in Clears, NEW r,
         Sound(k, g, p, f, st, c, cl, r), f.does = "skip"
  PROVE  Sound(k, g, p, NoSend, st, c, cl, r)
<1> USE DEF Sound
<1>1. NoSend.does = "nothing" /\ NoSend \in Sends
  BY NoSendIsSend
<1>2. StreamOK(NoSend, st, c, cl) /\ LastOK(NoSend, st, c)
  BY DEF StreamOK, LastOK
<1>3. FlightOK(k, g, NoSend, st, c) /\ PendingOK(k, g, p, NoSend, st, c)
  BY <1>1 DEF FlightOK, PendingOK
<1>4. LatestOK(k, g, p, NoSend, st, c, r) /\ UnmixedOK(g, p, NoSend, st, c, r)
  BY <1>1 DEF LatestOK, UnmixedOK, FlightOK
<1> QED
  BY <1>2, <1>3, <1>4

\* A text is put back; r has become q.
LEMMA RefusedSound ==
  ASSUME DraftAssumption, NEW k, NEW g, NEW p, NEW f, NEW st, NEW c, NEW cl \in Clears, NEW r, NEW q,
         Sound(k, g, p, f, st, c, cl, r), f.does = "refuse",
         q # "over" => r # "over" /\ p = 0 /\ f.gen = st.gen
  PROVE  Sound(k, g, f.text, NoSend, st, c, cl, q)
<1> USE DEF Sound
<1>1. NoSend.does = "nothing" /\ NoSend \in Sends
  BY NoSendIsSend
<1>2. StreamOK(NoSend, st, c, cl) /\ LastOK(NoSend, st, c)
  BY DEF StreamOK, LastOK
<1>3. FlightOK(k, g, NoSend, st, c)
  BY <1>1 DEF FlightOK
<1>4. PendingOK(k, g, f.text, NoSend, st, c)
  <2>1. f.text \in 0..k
    BY DEF FlightOK, Sends, GivenOK, DraftAssumption
  <2> QED
    BY <1>1, <2>1 DEF FlightOK, PendingOK
<1>5. LatestOK(k, g, f.text, NoSend, st, c, q) /\ UnmixedOK(g, f.text, NoSend, st, c, q)
  BY <1>1 DEF LatestOK, UnmixedOK, FlightOK
<1> QED
  BY <1>2, <1>3, <1>4, <1>5

\* The preview is stopped: s is st but for that.
Stopped(st, s) ==
  s \in Streams /\ s.stopped /\ s.gen = st.gen /\ s.message = st.message /\ s.lastSent = st.lastSent

\* A send fails: its text is put back in a preview that is stopped.
LEMMA FailedSound ==
  ASSUME DraftAssumption, NEW k, NEW g, NEW p, NEW f, NEW st, NEW c, NEW cl \in Clears, NEW r, NEW q,
         NEW s, Stopped(st, s),
         Sound(k, g, p, f, st, c, cl, r), f.does = "call",
         q # "over" => r # "over" /\ p = 0 /\ f.gen = st.gen
  PROVE  Sound(k, g, f.text, NoSend, s, c, cl, q)
<1> USE DEF Sound, Stopped
<1>1. NoSend.does = "nothing" /\ NoSend \in Sends
  BY NoSendIsSend
<1>2. StreamOK(NoSend, s, c, cl) /\ LastOK(NoSend, s, c)
  BY DEF StreamOK, LastOK
<1>3. FlightOK(k, g, NoSend, s, c) /\ GivenOK(k, g, s) /\ ChatOK(k, g, s, c)
  BY <1>1 DEF FlightOK, GivenOK, ChatOK
<1>4. PendingOK(k, g, f.text, NoSend, s, c)
  <2>1. f.text \in 0..k
    BY DEF FlightOK, Sends, GivenOK, DraftAssumption
  <2> QED
    BY <1>1, <2>1 DEF FlightOK, PendingOK
<1>5. LatestOK(k, g, f.text, NoSend, s, c, q) /\ UnmixedOK(g, f.text, NoSend, s, c, q)
  BY <1>1 DEF LatestOK, UnmixedOK, FlightOK
<1> QED
  BY <1>2, <1>3, <1>4, <1>5

\* The preview is stopped to be removed.
LEMMA ClearSound ==
  ASSUME DraftAssumption, NEW k, NEW g, NEW p, NEW f, NEW st, NEW c, NEW r, NEW s, Stopped(st, s),
         Sound(k, g, p, f, st, c, "no", r)
  PROVE  Sound(k, g, 0, f, s, c, "waiting", r)
<1> USE DEF Sound, Stopped
<1>1. StreamOK(f, s, c, "waiting") /\ LastOK(f, s, c)
  BY DEF StreamOK, LastOK
<1>2. FlightOK(k, g, f, s, c) /\ GivenOK(k, g, s) /\ ChatOK(k, g, s, c)
  BY DEF FlightOK, GivenOK, ChatOK
<1>3. PendingOK(k, g, 0, f, s, c)
  BY DEF PendingOK, GivenOK, DraftAssumption
<1>4. LatestOK(k, g, 0, f, s, c, r) /\ UnmixedOK(g, 0, f, s, c, r)
  BY DEF LatestOK, UnmixedOK
<1> QED
  BY <1>1, <1>2, <1>3, <1>4

\* The reply is complete.
LEMMA FinalSound ==
  ASSUME NEW k, NEW g, NEW p, NEW f, NEW st, NEW c, NEW cl \in Clears, NEW r,
         Sound(k, g, p, f, st, c, cl, r)
  PROVE  LET s == [st EXCEPT !.final = TRUE] IN
         /\ Sound(k, g, p, f, s, c, cl, r)
         /\ s.stopped = st.stopped /\ s.final /\ s.gen = st.gen
<1> DEFINE s == [st EXCEPT !.final = TRUE]
<1> USE DEF Sound
<1>1. /\ s \in Streams /\ s.stopped = st.stopped /\ s.gen = st.gen /\ s.message = st.message
      /\ s.lastSent = st.lastSent /\ s.final
  BY DEF StreamOK, Streams
<1> HIDE DEF s
<1>2. StreamOK(f, s, c, cl) /\ LastOK(f, s, c)
  BY <1>1 DEF StreamOK, LastOK, Shown
<1>3. FlightOK(k, g, f, s, c) /\ GivenOK(k, g, s) /\ ChatOK(k, g, s, c)
  BY <1>1 DEF FlightOK, GivenOK, ChatOK, Shown
<1>4. PendingOK(k, g, p, f, s, c)
  BY <1>1 DEF PendingOK
<1>5. LatestOK(k, g, p, f, s, c, r) /\ UnmixedOK(g, p, f, s, c, r)
  BY <1>1 DEF LatestOK, UnmixedOK, Shown
<1> QED
  BY <1>1, <1>2, <1>3, <1>4, <1>5 DEF s

\* The preview is given up for a new one.
GivenUp(st, s) == s = [st EXCEPT !.gen = @ + 1, !.message = 0, !.lastSent = 0]

\* The next text begins a new message.
LEMMA NewMessageSound ==
  ASSUME DraftAssumption, NEW k, NEW g, NEW p, NEW f, NEW st, NEW c, NEW cl \in Clears, NEW r, NEW s,
         Sound(k, g, p, f, st, c, cl, r), st.gen < MaxMessages,
         GivenUp(st, s)
  PROVE  Sound(k, g, 0, f, s, c, cl, r) /\ s.stopped = st.stopped /\ s.final = st.final
<1> USE DEF Sound, GivenUp
<1>0. st \in Streams /\ st.gen \in 1..MaxMessages /\ MaxMessages \in Nat /\ MaxTexts \in Nat
  BY DEF StreamOK, Streams, DraftAssumption
<1>14. PICK n \in 1..MaxMessages : n = st.gen + 1
  BY <1>0
<1>15. s = [st EXCEPT !.gen = n, !.message = 0, !.lastSent = 0] /\ 0 \in 0..MaxTexts
  BY <1>0, <1>14
<1>1. /\ s \in Streams /\ s.stopped = st.stopped /\ s.gen = st.gen + 1 /\ s.message = 0
      /\ s.lastSent = 0 /\ s.final = st.final /\ st.gen \in Nat /\ MaxMessages \in Nat
  <2>1. s \in Streams
    BY <1>0, <1>15 DEF Streams
  <2>2. /\ s.stopped = st.stopped /\ s.gen = n /\ s.message = 0
        /\ s.lastSent = 0 /\ s.final = st.final
    BY <1>0, <1>15 DEF Streams
  <2> QED
    BY <1>0, <1>14, <2>1, <2>2
<1>2. \A m \in Messages : c[m].gen \in Nat
  BY DEF ChatOK, Chats, DraftAssumption
<1>3. \A t \in Texts : g[t] \in Nat
  BY DEF GivenOK, DraftAssumption
<1>4. GivenOK(k, g, s)
  BY <1>1, <1>3 DEF GivenOK
<1>5. ChatOK(k, g, s, c)
  BY <1>1, <1>2 DEF ChatOK
<1>6. \A m \in Messages : c[m].shows # 0 => c[m].gen # s.gen
  BY <1>1, <1>2 DEF ChatOK
<1>7. StreamOK(f, s, c, cl)
  BY <1>1, <1>6 DEF StreamOK
<1>8. f.does # "nothing" => f.gen \in Nat /\ f.gen # s.gen /\ f.gen <= s.gen
  BY <1>1 DEF FlightOK, Sends, DraftAssumption
<1>9. FlightOK(k, g, f, s, c)
  BY <1>1, <1>8 DEF FlightOK
<1>10. PendingOK(k, g, 0, f, s, c)
  BY DEF PendingOK, GivenOK, DraftAssumption
<1>11. LastOK(f, s, c)
  BY <1>1 DEF LastOK
<1>12. LatestOK(k, g, 0, f, s, c, r)
  <2>1. k # 0 => k \in Texts
    BY DEF GivenOK, Texts, DraftAssumption
  <2>2. k # 0 => g[k] # s.gen
    BY <1>1, <1>3, <2>1 DEF GivenOK
  <2> QED
    BY <2>2 DEF LatestOK
<1>13. UnmixedOK(g, 0, f, s, c, r)
  BY DEF UnmixedOK
<1> QED
  BY <1>1, <1>4, <1>5, <1>7, <1>9, <1>10, <1>11, <1>12, <1>13

\* The message is deleted, or is left where it is.
LEMMA ClearedSound ==
  ASSUME DraftAssumption, NEW k, NEW g, NEW p, NEW st, NEW c, NEW r, NEW s, NEW d, NEW cl,
         Sound(k, g, p, NoSend, st, c, "waiting", r),
         s = [st EXCEPT !.message = 0],
         \/ cl = "done" /\ d = IF st.message = 0 THEN c ELSE [c EXCEPT ![st.message].gone = TRUE]
         \/ cl = "failed" /\ d = c
  PROVE  /\ Sound(k, g, p, NoSend, s, d, cl, r) /\ s.stopped = st.stopped /\ s.final = st.final
         /\ \A m \in Messages : d[m].shows = c[m].shows
<1> USE DEF Sound
<1>1. /\ s \in Streams /\ s.stopped = st.stopped /\ s.gen = st.gen /\ s.message = 0
      /\ s.lastSent = st.lastSent /\ s.final = st.final /\ MaxTexts \in Nat /\ st.message \in 0..MaxTexts
      /\ s.stopped
  BY DEF StreamOK, Streams, DraftAssumption
<1>2. /\ d \in Chats
      /\ \A m \in Messages : d[m].shows = c[m].shows /\ d[m].gen = c[m].gen
      /\ cl = "done" /\ st.message # 0 => d[st.message].gone
  <2>1. c \in Chats
    BY DEF ChatOK
  <2>2. CASE d = c /\ (cl = "failed" \/ st.message = 0)
    BY <2>1, <2>2
  <2>3. CASE st.message # 0 /\ d = [c EXCEPT ![st.message].gone = TRUE]
    <3>1. st.message \in Messages
      BY <1>1, <2>3 DEF Messages
    <3> QED
      BY <2>1, <2>3, <3>1 DEF Chats
  <2> QED
    BY <2>2, <2>3
<1>3. cl \in {"done", "failed"}
  OBVIOUS
<1>4. NoSend.does = "nothing"
  BY NoSendIsSend
<1>5. GivenOK(k, g, s)
  BY <1>1 DEF GivenOK
<1>6. ChatOK(k, g, s, d)
  BY <1>1, <1>2 DEF ChatOK
<1>7. StreamOK(NoSend, s, d, cl)
  <2>1. ASSUME cl = "done", NEW m \in Messages, d[m].shows # 0, d[m].gen = s.gen PROVE d[m].gone
    <3>1. m = st.message /\ m # 0
      BY <1>1, <1>2, <2>1 DEF StreamOK, Messages
    <3> QED
      BY <1>2, <2>1, <3>1
  <2> QED
    BY <1>1, <1>3, <2>1 DEF StreamOK
<1>8. FlightOK(k, g, NoSend, s, d) /\ PendingOK(k, g, p, NoSend, s, d)
  BY <1>1, <1>2, <1>4 DEF FlightOK, PendingOK
<1>9. LastOK(NoSend, s, d) /\ LatestOK(k, g, p, NoSend, s, d, r)
  BY <1>1 DEF LastOK, LatestOK
<1>10. UnmixedOK(g, p, NoSend, s, d, r)
  BY <1>1, <1>2, <1>4 DEF UnmixedOK
<1> QED
  BY <1>1, <1>2, <1>5, <1>6, <1>7, <1>8, <1>9, <1>10

\* The message that is edited shows a later text.
LEMMA EditedSound ==
  ASSUME DraftAssumption, NEW k, NEW g, NEW p, NEW f, NEW st, NEW c, NEW cl \in Clears, NEW r, NEW d,
         Sound(k, g, p, f, st, c, cl, r), f.does = "call", f.to # 0,
         d = [c EXCEPT ![f.to].shows = f.text]
  PROVE  /\ Sound(k, g, p, NoSend, st, d, cl, r)
         /\ \A m \in Messages : c[m].shows <= d[m].shows
<1> USE DEF Sound
<1>1. /\ st \in Streams /\ MaxTexts \in Nat /\ MaxMessages \in Nat /\ k \in 0..MaxTexts /\ f \in Sends
      /\ f.to \in Messages /\ c \in Chats /\ f.text \in 1..k /\ f.gen \in Nat /\ st.gen \in Nat
  BY DEF StreamOK, GivenOK, DraftAssumption, Sends, Messages, FlightOK, Streams, ChatOK
<1>2. /\ d \in Chats /\ d[f.to].shows = f.text /\ d[f.to].gen = c[f.to].gen
      /\ \A m \in Messages : m # f.to => d[m] = c[m]
      /\ \A m \in Messages : d[m].gen = c[m].gen /\ d[m].gone = c[m].gone
  BY <1>1 DEF Chats
<1>3. c[f.to].shows # 0 /\ c[f.to].gen = f.gen /\ \A m \in Messages : c[m].shows <= f.text
  BY <1>1 DEF FlightOK
<1>4. \A m \in Messages : c[m].shows \in 0..MaxTexts /\ c[m].gen \in 0..MaxMessages /\ m \in 1..MaxTexts
  BY <1>1 DEF Chats, Messages
<1>5. \A m \in Messages : d[m].shows # 0 <=> c[m].shows # 0
  BY <1>1, <1>2, <1>3
<1>6. \A m \in Messages : c[m].shows <= d[m].shows /\ d[m].shows <= f.text
  BY <1>1, <1>2, <1>3, <1>4
<1>7. ChatOK(k, g, st, d)
  <2>1. \E n \in 0..MaxTexts : \A m \in Messages : d[m].shows # 0 <=> m <= n
    BY <1>5 DEF ChatOK
  <2>2. ASSUME NEW m \in Messages, d[m].shows # 0
        PROVE  /\ m <= d[m].shows /\ d[m].shows <= k
               /\ 1 <= d[m].gen /\ d[m].gen <= st.gen /\ g[d[m].shows] <= d[m].gen
    <3>1. CASE m = f.to
      <4>1. g[f.text] <= f.gen
        BY DEF FlightOK
      <4>2. m <= c[m].shows /\ c[m].shows <= f.text /\ 1 <= c[m].gen /\ c[m].gen <= st.gen
        BY <1>3, <3>1 DEF ChatOK
      <4> QED
        BY <1>1, <1>2, <1>3, <1>4, <3>1, <4>1, <4>2
    <3>2. CASE m # f.to
      BY <1>2, <2>2, <3>2 DEF ChatOK
    <3> QED
      BY <3>1, <3>2
  <2> QED
    BY <1>2, <2>1, <2>2 DEF ChatOK
<1>8. cl \notin {"done", "failed"}
  BY NoSendIsSend DEF StreamOK
<1>9. st.message # 0 => st.message \in Messages
  BY <1>1 DEF Streams, Messages
<1>10. StreamOK(NoSend, st, d, cl)
  BY <1>2, <1>5, <1>8, <1>9 DEF StreamOK
<1>11. FlightOK(k, g, NoSend, st, d)
  BY NoSendIsSend DEF FlightOK
<1>12. f.gen = st.gen => f.to = st.message
  BY DEF FlightOK
<1>13. f.gen # st.gen => f.to # st.message
  BY <1>3, <1>9 DEF StreamOK
<1>14. PendingOK(k, g, p, NoSend, st, d)
  <2>1. p # 0 => p \in Texts /\ f.text \in Texts /\ f.text <= p /\ g[p] = st.gen
    BY <1>1 DEF PendingOK, Texts
  <2>2. p # 0 => \A m \in Messages : d[m].shows <= p
    BY <1>1, <1>2, <1>4, <1>6, <2>1 DEF Texts, Chats
  <2>3. p # 0 /\ ~st.stopped /\ st.message = 0 => f.text < p
    <3>1. st.message = 0 => f.gen # st.gen /\ f.gen <= st.gen /\ g[f.text] <= f.gen
      BY <1>12 DEF FlightOK
    <3>2. p # 0 /\ f.text = p => g[f.text] = st.gen
      BY <2>1
    <3> QED
      BY <1>1, <2>1, <3>1, <3>2 DEF Texts
  <2>4. p # 0 /\ ~st.stopped /\ st.message = 0 => \A m \in Messages : d[m].shows < p
    BY <1>1, <1>2, <1>4, <1>6, <2>1, <2>3 DEF Texts, Chats
  <2> QED
    BY <2>2, <2>4, NoSendIsSend DEF PendingOK
<1>15. Shown(st, d, f.text) \/ f.gen # st.gen
  BY <1>2, <1>12 DEF Shown
<1>16. LastOK(NoSend, st, d)
  <2>1. f.gen = st.gen => f.text = st.lastSent
    BY DEF FlightOK
  <2>2. f.gen # st.gen => (Shown(st, c, st.lastSent) => Shown(st, d, st.lastSent))
    BY <1>2, <1>9, <1>13 DEF Shown
  <2> QED
    BY <1>15, <2>1, <2>2 DEF LastOK
<1>17. LatestOK(k, g, p, NoSend, st, d, r)
  <2>1. f.gen # st.gen => (Shown(st, c, k) => Shown(st, d, k))
    BY <1>2, <1>9, <1>13 DEF Shown
  <2>2. f.gen = st.gen /\ Shown(st, c, k) => f.text = k
    BY <1>1, <1>3, <1>9, <1>12 DEF Shown
  <2>3. ~st.stopped /\ r # "over" /\ k # 0 /\ g[k] = st.gen =>
          p = k \/ (f.text = k /\ f.gen = st.gen) \/ Shown(st, c, k)
    BY DEF LatestOK
  <2> QED
    BY <1>15, <2>1, <2>2, <2>3 DEF LatestOK
<1>18. UnmixedOK(g, p, NoSend, st, d, r)
  BY <1>2, <1>3, <1>5, NoSendIsSend DEF UnmixedOK
<1> QED
  BY <1>6, <1>7, <1>10, <1>11, <1>14, <1>16, <1>17, <1>18

\* There is room for the message that a text begins: those before it show texts before it.
LEMMA MessageLeft ==
  ASSUME DraftAssumption, NEW k, NEW g, NEW p, NEW f, NEW st, NEW c, NEW cl \in Clears, NEW r,
         Sound(k, g, p, f, st, c, cl, r), f.does = "call", f.to = 0
  PROVE  \E m \in Messages : c[m].shows = 0 /\ \A i \in 1..(m - 1) : c[i].shows # 0
<1> USE DEF Sound
<1>1. /\ MaxTexts \in Nat /\ k \in 0..MaxTexts /\ f \in Sends /\ f.text \in 1..MaxTexts
      /\ \A m \in 1..MaxTexts : c[m].shows \in 0..MaxTexts /\ c[m].shows < f.text
  BY DEF GivenOK, DraftAssumption, FlightOK, Sends, ChatOK, Chats, Messages
<1>2. PICK n \in 0..MaxTexts : \A m \in 1..MaxTexts : c[m].shows # 0 <=> m <= n
  BY DEF ChatOK, Messages
<1>3. n < MaxTexts
  <2>1. CASE n = 0
    BY <1>1, <2>1
  <2>2. CASE n # 0
    <3>1. n \in 1..MaxTexts /\ c[n].shows # 0
      BY <1>1, <1>2, <2>2
    <3>2. n <= c[n].shows
      BY <3>1 DEF ChatOK, Messages
    <3> QED
      BY <1>1, <3>1, <3>2
  <2> QED
    BY <2>1, <2>2
<1>4. n + 1 \in 1..MaxTexts /\ c[n + 1].shows = 0 /\ \A i \in 1..n : c[i].shows # 0
  BY <1>1, <1>2, <1>3
<1>5. (n + 1) - 1 = n
  BY <1>1
<1> QED
  BY <1>4, <1>5 DEF Messages

\* A message is made, and is taken for the preview unless that has been given up.
Made(f, st, c, m, d, s) ==
  /\ c[m].shows = 0 /\ \A i \in 1..(m - 1) : c[i].shows # 0
  /\ d = [c EXCEPT ![m] = [shows |-> f.text, gen |-> f.gen, gone |-> f.gen # st.gen]]
  /\ s = IF f.gen = st.gen THEN [st EXCEPT !.message = m] ELSE st

LEMMA MadeSound ==
  ASSUME DraftAssumption, NEW k, NEW g, NEW p, NEW f, NEW st, NEW c, NEW cl \in Clears, NEW r,
         NEW d, NEW s, NEW m \in Messages,
         Sound(k, g, p, f, st, c, cl, r), f.does = "call", f.to = 0,
         Made(f, st, c, m, d, s)
  PROVE  /\ Sound(k, g, p, NoSend, s, d, cl, r) /\ s.stopped = st.stopped /\ s.final = st.final
         /\ \A i \in Messages : c[i].shows <= d[i].shows
<1> USE DEF Sound, Made
<1>1. /\ st \in Streams /\ MaxTexts \in Nat /\ MaxMessages \in Nat /\ k \in 0..MaxTexts /\ f \in Sends
      /\ c \in Chats /\ f.text \in 1..k /\ f.gen \in 1..MaxMessages /\ st.gen \in 1..MaxMessages
      /\ m \in 1..MaxTexts /\ f.text \in 0..MaxTexts /\ f.gen \in 0..MaxMessages
  BY DEF StreamOK, GivenOK, DraftAssumption, Sends, Messages, FlightOK, Streams, ChatOK
<1>2. /\ d[m].shows = f.text /\ d[m].gen = f.gen
      /\ \A i \in Messages : i # m => d[i] = c[i]
  BY <1>1 DEF Chats
<1>3. d \in Chats
  <2> DEFINE new == [shows |-> f.text, gen |-> f.gen, gone |-> f.gen # st.gen]
  <2>1. new \in [shows : 0..MaxTexts, gen : 0..MaxMessages, gone : BOOLEAN]
    <3>1. (f.gen # st.gen) \in BOOLEAN
      OBVIOUS
    <3> QED
      BY <1>1, <3>1
  <2>2. d = [c EXCEPT ![m] = new]
    OBVIOUS
  <2> HIDE DEF new
  <2> QED
    BY <1>1, <2>1, <2>2 DEF Chats
<1>4. /\ s \in Streams /\ s.stopped = st.stopped /\ s.final = st.final /\ s.gen = st.gen
      /\ s.lastSent = st.lastSent
      /\ (f.gen = st.gen => s.message = m) /\ (f.gen # st.gen => s.message = st.message)
  BY <1>1 DEF Streams
<1>5. \A i \in Messages : c[i].shows \in 0..MaxTexts /\ c[i].gen \in 0..MaxMessages /\ i \in 1..MaxTexts
  BY <1>1 DEF Chats, Messages
<1>6. \A i \in Messages : c[i].shows < f.text
  BY DEF FlightOK
<1>7. \A i \in Messages : c[i].shows <= d[i].shows /\ d[i].shows <= f.text
  BY <1>1, <1>2, <1>5, <1>6
<1>8. f.gen = st.gen => st.message = 0
  BY DEF FlightOK
<1>9. st.message # m /\ (st.message # 0 => st.message \in Messages)
  BY <1>1 DEF StreamOK, Streams, Messages
<1>10. /\ g[f.text] <= f.gen /\ f.gen <= st.gen
  BY DEF FlightOK
<1>11. ChatOK(k, g, s, d)
  <2>1. PICK n \in 0..MaxTexts : \A i \in Messages : c[i].shows # 0 <=> i <= n
    BY DEF ChatOK
  <2>2. n = m - 1
    <3>1. ~(m <= n)
      BY <2>1
    <3>2. CASE m = 1
      BY <1>1, <3>1, <3>2
    <3>3. CASE m # 1
      <4>1. m - 1 \in 1..MaxTexts /\ m - 1 \in 1..(m - 1)
        BY <1>1, <3>3
      <4>2. m - 1 <= n
        BY <2>1, <4>1 DEF Messages
      <4> QED
        BY <1>1, <3>1, <4>2
    <3> QED
      BY <3>2, <3>3
  <2>3. \A i \in Messages : d[i].shows # 0 <=> i <= m
    <3> TAKE i \in Messages
    <3>1. CASE i = m
      BY <1>1, <1>2, <3>1
    <3>2. CASE i # m
      <4>1. (i <= n) <=> (i <= m)
        BY <1>1, <1>5, <2>2, <3>2
      <4> QED
        BY <1>2, <2>1, <3>2, <4>1
    <3> QED
      BY <3>1, <3>2
  <2>4. m <= f.text
    <3>1. CASE m = 1
      BY <1>1, <3>1
    <3>2. CASE m # 1
      <4>1. m - 1 \in Messages /\ m - 1 \in 1..(m - 1)
        BY <1>1, <3>2 DEF Messages
      <4>2. m - 1 <= c[m - 1].shows
        BY <4>1 DEF ChatOK
      <4>3. c[m - 1].shows \in 0..MaxTexts /\ c[m - 1].shows < f.text
        BY <1>5, <1>6, <4>1
      <4> QED
        BY <1>1, <4>2, <4>3
    <3> QED
      BY <3>1, <3>2
  <2>5. ASSUME NEW i \in Messages, d[i].shows # 0
        PROVE  /\ i <= d[i].shows /\ d[i].shows <= k
               /\ 1 <= d[i].gen /\ d[i].gen <= s.gen /\ g[d[i].shows] <= d[i].gen
    <3>1. CASE i = m
      BY <1>1, <1>2, <1>4, <1>10, <2>4, <3>1
    <3>2. CASE i # m
      BY <1>2, <1>4, <2>5, <3>2 DEF ChatOK
    <3> QED
      BY <3>1, <3>2
  <2>6. m \in 0..MaxTexts
    BY <1>1
  <2> QED
    BY <1>3, <2>3, <2>5, <2>6 DEF ChatOK
<1>12. GivenOK(k, g, s)
  BY <1>4 DEF GivenOK
<1>13. cl \notin {"done", "failed"}
  BY NoSendIsSend DEF StreamOK
<1>14. StreamOK(NoSend, s, d, cl)
  <2>1. s.message # 0 => d[s.message].shows # 0 /\ d[s.message].gen = s.gen
    <3>1. CASE f.gen = st.gen
      BY <1>1, <1>2, <1>4, <3>1
    <3>2. CASE f.gen # st.gen
      BY <1>2, <1>4, <1>9, <3>2 DEF StreamOK
    <3> QED
      BY <3>1, <3>2
  <2>2. ASSUME NEW i \in Messages, d[i].shows # 0, d[i].gen = s.gen PROVE i = s.message
    <3>1. CASE i = m
      BY <1>2, <1>4, <2>2, <3>1
    <3>2. CASE i # m
      <4>1. i = st.message /\ i # 0
        BY <1>2, <1>4, <1>5, <1>13, <2>2, <3>2 DEF StreamOK, Clears
      <4> QED
        BY <1>4, <1>8, <4>1
    <3> QED
      BY <3>1, <3>2
  <2> QED
    BY <1>4, <1>13, <2>1, <2>2 DEF StreamOK
<1>15. FlightOK(k, g, NoSend, s, d)
  BY NoSendIsSend DEF FlightOK
<1>16. PendingOK(k, g, p, NoSend, s, d)
  <2>1. p # 0 => p \in 1..MaxTexts /\ f.text <= p /\ g[p] = st.gen
    BY <1>1 DEF PendingOK
  <2>2. p # 0 => \A i \in Messages : d[i].shows <= p
    BY <1>1, <1>3, <1>7, <2>1 DEF Chats
  <2>3. p # 0 /\ s.message = 0 => f.text < p
    <3>1. s.message = 0 => f.gen # st.gen
      BY <1>1, <1>4
    <3>2. p # 0 /\ f.text = p => g[f.text] = st.gen
      BY <2>1
    <3> QED
      BY <1>1, <1>10, <2>1, <3>1, <3>2
  <2>4. p # 0 /\ s.message = 0 => \A i \in Messages : d[i].shows < p
    BY <1>1, <1>3, <1>7, <2>1, <2>3 DEF Chats
  <2>5. p \in 0..k
    BY DEF PendingOK
  <2> QED
    BY <2>2, <2>4, <2>5, NoSendIsSend DEF PendingOK
<1>17. f.gen = st.gen => Shown(s, d, f.text)
  BY <1>1, <1>2, <1>4 DEF Shown
<1>18. ASSUME NEW t, f.gen # st.gen, Shown(st, c, t) PROVE Shown(s, d, t)
  BY <1>2, <1>4, <1>9, <1>18 DEF Shown
<1>19. LastOK(NoSend, s, d)
  <2>1. f.gen = st.gen => f.text = st.lastSent
    BY DEF FlightOK
  <2>2. f.gen # st.gen /\ st.lastSent # 0 /\ ~st.stopped => Shown(st, c, st.lastSent)
    BY DEF LastOK
  <2> QED
    BY <1>4, <1>17, <1>18, <2>1, <2>2 DEF LastOK
<1>20. LatestOK(k, g, p, NoSend, s, d, r)
  <2>1. ~st.stopped /\ r # "over" /\ k # 0 /\ g[k] = st.gen =>
          p = k \/ (f.text = k /\ f.gen = st.gen) \/ Shown(st, c, k)
    BY DEF LatestOK
  <2>2. Shown(st, c, k) => f.gen # st.gen
    BY <1>8 DEF Shown
  <2> QED
    BY <1>4, <1>17, <1>18, <2>1, <2>2 DEF LatestOK
<1>21. UnmixedOK(g, p, NoSend, s, d, r)
  <2>1. r # "over" => g[f.text] = f.gen
    BY DEF UnmixedOK
  <2>2. r # "over" => \A i \in Messages : d[i].shows # 0 => g[d[i].shows] = d[i].gen
    BY <1>2, <2>1 DEF UnmixedOK
  <2> QED
    BY <1>4, <2>2, NoSendIsSend DEF UnmixedOK
<1> QED
  BY <1>4, <1>7, <1>11, <1>12, <1>14, <1>15, <1>16, <1>19, <1>20, <1>21

\* Latest, of a value.
LatestOf(g) == IF \E t \in Texts : g[t] # 0
               THEN CHOOSE t \in Texts : g[t] # 0 /\ \A u \in Texts : g[u] # 0 => u <= t
               ELSE 0

\* The texts given are those up to the last one.
LEMMA LatestOfIs ==
  ASSUME DraftAssumption, NEW k, NEW g, NEW st, GivenOK(k, g, st)
  PROVE  LatestOf(g) = k
<1>1. k \in 0..MaxTexts /\ MaxTexts \in Nat /\ \A t \in Texts : g[t] # 0 <=> t <= k
  BY DEF GivenOK, DraftAssumption
<1>2. \A t \in Texts : t \in 1..MaxTexts
  BY DEF Texts
<1>3. CASE k = 0
  <2>1. ~\E t \in Texts : g[t] # 0
    BY <1>1, <1>2, <1>3
  <2> QED
    BY <1>3, <2>1 DEF LatestOf
<1>4. CASE k # 0
  <2>1. k \in Texts /\ g[k] # 0 /\ \A u \in Texts : g[u] # 0 => u <= k
    BY <1>1, <1>4 DEF Texts
  <2>2. \A t \in Texts : g[t] # 0 /\ (\A u \in Texts : g[u] # 0 => u <= t) => t = k
    BY <1>1, <1>2, <2>1
  <2> QED
    BY <2>1, <2>2 DEF LatestOf
<1> QED
  BY <1>3, <1>4

-----------------------------------------------------------------------------
(* Previews: the actions *)

LEMMA LatestSame ==
  ASSUME given' = given
  PROVE  Latest' = Latest
  BY DEF Latest

LEMMA LatestNow ==
  ASSUME DraftAssumption, NEW k, NEW st, GivenOK(k, given, st)
  PROVE  Latest = k
  BY LatestOfIs DEF Latest, LatestOf

LEMMA LatestNext ==
  ASSUME DraftAssumption, NEW k, NEW st, GivenOK(k, given', st)
  PROVE  Latest' = k
  BY LatestOfIs DEF Latest, LatestOf

LEMMA TakeIsTakeTo ==
  ASSUME NEW text, NEW st, Take(text, st)
  PROVE  TakeTo(text, st, pendingText', inFlight', stream')
  BY DEF Take, TakeTo

LEMMA IdleIsNoSend ==
  ASSUME NEW k, NEW g, NEW p, NEW f, NEW st, NEW c, NEW cl, NEW r,
         Sound(k, g, p, f, st, c, cl, r), f.does = "nothing"
  PROVE  f = NoSend
  BY DEF Sound, FlightOK

LEMMA LoopTypes ==
  ASSUME LoopOK, Sound(Latest, given, pendingText, inFlight, stream, chat, closing.clear, restored)
  PROVE  /\ closing.clear \in Clears /\ stream \in Streams
         /\ throttle.timer \in BOOLEAN /\ throttle.hot \in BOOLEAN
         /\ stream.stopped \in BOOLEAN /\ stream.final \in BOOLEAN
<1>1. closing.clear \in Clears
  BY DEF LoopOK, Clears
<1>2. stream \in Streams
  BY DEF Sound, StreamOK
<1>3. throttle.timer \in BOOLEAN /\ throttle.hot \in BOOLEAN
  BY DEF LoopOK
<1>4. stream.stopped \in BOOLEAN /\ stream.final \in BOOLEAN
  BY <1>2 DEF Streams
<1> QED
  BY <1>1, <1>2, <1>3, <1>4

LEMMA ThrottleTypes ==
  ASSUME LoopOK
  PROVE  /\ [throttle EXCEPT !.timer = FALSE] \in [timer : BOOLEAN, hot : BOOLEAN]
         /\ [throttle EXCEPT !.timer = TRUE] \in [timer : BOOLEAN, hot : BOOLEAN]
         /\ [throttle EXCEPT !.hot = FALSE] \in [timer : BOOLEAN, hot : BOOLEAN]
         /\ [throttle EXCEPT !.hot = TRUE] \in [timer : BOOLEAN, hot : BOOLEAN]
         /\ [throttle EXCEPT !.timer = TRUE].timer
  BY DEF LoopOK

LEMMA UpdateKeeps ==
  ASSUME DraftAssumption, DraftIInv, Update
  PROVE  DraftIInv'
<1>0. Sound(Latest, given, pendingText, inFlight, stream, chat, closing.clear, restored) /\ LoopOK
  BY DEF DraftIInv
<1>1. PICK text \in {Latest, Latest + 1} \cap Texts :
        /\ given[text] \in {0, stream.gen}
        /\ given' = [given EXCEPT ![text] = stream.gen]
        /\ IF InFlight \/ throttle.timer \/ throttle.hot
           THEN /\ throttle' = [throttle EXCEPT !.timer = TRUE] /\ pendingText' = text
                /\ UNCHANGED <<inFlight, stream>>
           ELSE Take(text, stream) /\ UNCHANGED throttle
  BY DEF Update
<1>2. /\ ~stream.stopped /\ ~stream.final
      /\ waiting' = waiting /\ chat' = chat /\ closing' = closing /\ restored' = restored
  BY DEF Update
<1>3. closing.clear \in Clears
  BY <1>0, LoopTypes
<1>4. Sound(text, given', text, inFlight, stream, chat, closing.clear, restored)
  BY <1>0, <1>1, <1>2, <1>3, UpdateSound
<1>5. Latest' = text
  BY <1>4, LatestNext DEF Sound
<1>6. closing.stop = "no"
  BY <1>0, <1>2 DEF LoopOK
<1>7. CASE InFlight \/ throttle.timer \/ throttle.hot
  <2>1. /\ throttle' = [throttle EXCEPT !.timer = TRUE] /\ pendingText' = text
        /\ inFlight' = inFlight /\ stream' = stream
    BY <1>1, <1>7
  <2>2. throttle' \in [timer : BOOLEAN, hot : BOOLEAN] /\ throttle'.timer
    BY <1>0, <2>1, ThrottleTypes
  <2>3. LoopOK'
    BY <1>0, <1>2, <1>6, <2>1, <2>2 DEF LoopOK
  <2> QED
    BY <1>2, <1>4, <1>5, <2>1, <2>3 DEF DraftIInv
<1>8. CASE ~(InFlight \/ throttle.timer \/ throttle.hot)
  <2>1. throttle' = throttle /\ TakeTo(text, stream, pendingText', inFlight', stream')
    BY <1>1, <1>8, TakeIsTakeTo
  <2>2. inFlight = NoSend
    BY <1>0, <1>8, IdleIsNoSend DEF InFlight
  <2>3. /\ Sound(text, given', pendingText', inFlight', stream', chat, closing.clear, restored)
        /\ stream'.stopped = stream.stopped /\ stream'.final = stream.final /\ pendingText' = 0
    BY <1>2, <1>3, <1>4, <2>1, <2>2, TakeSound
  <2>4. LoopOK'
    BY <1>0, <1>2, <1>6, <2>1, <2>3 DEF LoopOK
  <2> QED
    BY <1>2, <1>5, <2>3, <2>4 DEF DraftIInv
<1> QED
  BY <1>7, <1>8

\* A flush, with the stream as it is or as stop makes it.
LEMMA FlushKeeps ==
  ASSUME DraftAssumption, DraftIInv, NEW st, Flush(st),
         Sound(Latest, given, pendingText, inFlight, st, chat, closing.clear, restored),
         st.stopped = stream.stopped, st.stopped \in BOOLEAN, stream.final => st.final,
         given' = given, chat' = chat, restored' = restored, closing'.clear = closing.clear,
         closing' \in [stop : {"no", "flushing", "done"}, clear : Clears],
         closing'.stop # "no" => st.final,
         closing'.stop = "done" => closing.stop = "done"
  PROVE  DraftIInv'
<1>0. /\ Sound(Latest, given, pendingText, inFlight, stream, chat, closing.clear, restored)
      /\ LoopOK
  BY DEF DraftIInv
<1>1. /\ closing.clear \in Clears /\ Latest' = Latest
      /\ throttle' = [throttle EXCEPT !.timer = FALSE]
      /\ throttle' \in [timer : BOOLEAN, hot : BOOLEAN]
  BY <1>0, LoopTypes, LatestSame, ThrottleTypes DEF Flush
<1>2. CASE InFlight
  <2>1. pendingText' = pendingText /\ inFlight' = inFlight /\ stream' = st
    BY <1>2 DEF Flush
  <2>2. waiting' \in BOOLEAN /\ (~st.stopped => waiting')
    <3>1. CASE st.stopped
      BY <1>0, <1>2, <3>1 DEF Flush, LoopOK
    <3>2. CASE ~st.stopped
      BY <1>2, <3>2 DEF Flush
    <3> QED
      BY <3>1, <3>2
  <2>3. LoopOK'
    BY <1>0, <1>1, <1>2, <2>1, <2>2 DEF LoopOK, InFlight, Stale, Clears
  <2> QED
    BY <1>1, <2>1, <2>3 DEF DraftIInv
<1>3. CASE ~InFlight
  <2>1. waiting' = waiting /\ TakeTo(pendingText, st, pendingText', inFlight', stream')
    BY <1>3, TakeIsTakeTo DEF Flush
  <2>2. inFlight = NoSend
    BY <1>0, <1>3, IdleIsNoSend DEF InFlight
  <2>3. /\ Sound(Latest, given, pendingText', inFlight', stream', chat, closing.clear, restored)
        /\ stream'.stopped = st.stopped /\ stream'.final = st.final
        /\ (~st.stopped => pendingText' = 0) /\ (st.stopped => pendingText' = pendingText)
        /\ (st.final => inFlight'.does # "refuse") /\ (pendingText' # 0 => st.stopped)
        /\ (pendingText = 0 => inFlight' = NoSend)
    <3>1. Sound(Latest, given, pendingText, NoSend, st, chat, closing.clear, restored)
      BY <2>2
    <3> QED
      BY ONLY <1>1, <2>1, <3>1, TakeSound, DraftAssumption
  <2>4. waiting' \in BOOLEAN /\ (pendingText' # 0 => restored # "no")
    BY <1>0, <2>1, <2>3 DEF LoopOK
  <2>5. closing'.stop = "done" /\ ~stream'.stopped /\ ~Stale' => ~InFlight' /\ pendingText' = 0
    BY <1>0, <2>3, NoSendIsSend DEF LoopOK, InFlight, Stale
  <2>6. restored' \in {"no", "yes", "over"}
    BY <1>0 DEF LoopOK
  <2>7. LoopOK'
    BY <1>1, <2>3, <2>4, <2>5, <2>6 DEF LoopOK, Clears
  <2> QED
    BY <1>1, <2>3, <2>7 DEF DraftIInv
<1> QED
  BY <1>2, <1>3

LEMMA DraftTimerFiresKeeps ==
  ASSUME DraftAssumption, DraftIInv, DraftTimerFires
  PROVE  DraftIInv'
<1>0. Sound(Latest, given, pendingText, inFlight, stream, chat, closing.clear, restored) /\ LoopOK
  BY DEF DraftIInv
<1>1. /\ Flush(stream) /\ given' = given /\ chat' = chat /\ closing' = closing
      /\ restored' = restored
  BY DEF DraftTimerFires
<1>2. stream.stopped \in BOOLEAN
  BY <1>0, LoopTypes
<1>3. /\ closing \in [stop : {"no", "flushing", "done"}, clear : Clears]
      /\ closing.stop # "no" => stream.final
  BY <1>0 DEF LoopOK, Clears
<1> QED
  BY <1>0, <1>1, <1>2, <1>3, FlushKeeps

LEMMA ThrottleOverKeeps ==
  ASSUME DraftIInv, ThrottleOver
  PROVE  DraftIInv'
<1>0. Sound(Latest, given, pendingText, inFlight, stream, chat, closing.clear, restored) /\ LoopOK
  BY DEF DraftIInv
<1>1. /\ throttle' = [throttle EXCEPT !.hot = FALSE] /\ given' = given
      /\ pendingText' = pendingText /\ inFlight' = inFlight /\ waiting' = waiting
      /\ stream' = stream /\ chat' = chat /\ closing' = closing /\ restored' = restored
  BY DEF ThrottleOver
<1>2. throttle' \in [timer : BOOLEAN, hot : BOOLEAN] /\ throttle'.timer = throttle.timer
  <2>1. throttle' \in [timer : BOOLEAN, hot : BOOLEAN]
    BY <1>0, <1>1, ThrottleTypes
  <2>2. throttle'.timer = throttle.timer
    BY <1>0, <1>1 DEF LoopOK
  <2> QED
    BY <2>1, <2>2
<1>3. LoopOK'
  BY <1>0, <1>1, <1>2 DEF LoopOK, InFlight, Stale
<1> QED
  BY <1>0, <1>1, <1>3, LatestSame DEF DraftIInv

LEMMA StopKeeps ==
  ASSUME DraftAssumption, DraftIInv, Stop
  PROVE  DraftIInv'
<1>0. Sound(Latest, given, pendingText, inFlight, stream, chat, closing.clear, restored) /\ LoopOK
  BY DEF DraftIInv
<1> DEFINE st == [stream EXCEPT !.final = TRUE]
<1>1. /\ closing' = [closing EXCEPT !.stop = "flushing"] /\ Flush(st)
      /\ given' = given /\ chat' = chat /\ restored' = restored
  BY DEF Stop
<1>2. closing \in [stop : {"no", "flushing", "done"}, clear : Clears]
  BY <1>0 DEF LoopOK, Clears
<1>3. /\ closing' \in [stop : {"no", "flushing", "done"}, clear : Clears]
      /\ closing'.stop = "flushing" /\ closing'.clear = closing.clear
  BY <1>1, <1>2
<1>4. closing.clear \in Clears /\ stream.stopped \in BOOLEAN
  BY <1>0, LoopTypes
<1>5. /\ Sound(Latest, given, pendingText, inFlight, st, chat, closing.clear, restored)
      /\ st.stopped = stream.stopped /\ st.final
  BY <1>0, <1>4, FinalSound
<1> HIDE DEF st
<1> QED
  BY <1>1, <1>3, <1>4, <1>5, FlushKeeps

LEMMA StopReturnsKeeps ==
  ASSUME DraftIInv, StopReturns
  PROVE  DraftIInv'
<1>0. Sound(Latest, given, pendingText, inFlight, stream, chat, closing.clear, restored) /\ LoopOK
  BY DEF DraftIInv
<1>1. /\ closing.stop = "flushing" /\ ~InFlight /\ ~waiting
      /\ closing' = [closing EXCEPT !.stop = "done"] /\ given' = given
      /\ pendingText' = pendingText /\ inFlight' = inFlight /\ waiting' = waiting
      /\ throttle' = throttle /\ stream' = stream /\ chat' = chat /\ restored' = restored
  BY DEF StopReturns
<1>2. /\ closing' \in [stop : {"no", "flushing", "done"}, clear : {"no", "waiting", "done", "failed"}]
      /\ closing'.clear = closing.clear /\ closing'.stop = "done"
  BY <1>0, <1>1 DEF LoopOK
<1>3. LoopOK'
  BY <1>0, <1>1, <1>2 DEF LoopOK, InFlight, Stale
<1> QED
  BY <1>0, <1>1, <1>2, <1>3, LatestSame DEF DraftIInv

\* A send is over and has not put its text back.
LEMMA AcceptedKeeps ==
  ASSUME DraftAssumption, LoopOK, InFlight, stream.stopped \in BOOLEAN, stream.final \in BOOLEAN,
         NEW st, Accepted(st), Latest' = Latest, given' = given, closing' = closing,
         Sound(Latest, given, pendingText, NoSend, st, chat', closing.clear, restored),
         st.stopped = stream.stopped, st.final = stream.final
  PROVE  DraftIInv'
<1>1. closing.clear \in Clears
  BY DEF LoopOK, Clears
<1>2. /\ throttle' = [throttle EXCEPT !.hot = TRUE] /\ restored' = restored
      /\ TakeTo(pendingText, st, pendingText', inFlight', stream')
      /\ waiting' = (waiting /\ pendingText # 0 /\ ~st.stopped)
  BY TakeIsTakeTo DEF Accepted
<1>3. throttle' \in [timer : BOOLEAN, hot : BOOLEAN]
  BY <1>2, ThrottleTypes
<1>4. waiting' \in BOOLEAN
  BY ONLY <1>2, Zenon
<1>5. /\ Sound(Latest, given, pendingText', inFlight', stream', chat', closing.clear, restored)
      /\ stream'.stopped = st.stopped /\ stream'.final = st.final
      /\ (~st.stopped => pendingText' = 0) /\ (st.stopped => pendingText' = pendingText)
      /\ (st.final => inFlight'.does # "refuse") /\ (pendingText' # 0 => st.stopped)
  BY <1>1, <1>2, TakeSound
<1>6. pendingText' # 0 => restored # "no"
  BY <1>5 DEF LoopOK
<1>7. ~(closing.stop = "done" /\ ~stream.stopped /\ ~Stale)
  BY DEF LoopOK
<1>8. LoopOK'
  <2>1. closing' \in [stop : {"no", "flushing", "done"}, clear : {"no", "waiting", "done", "failed"}]
    BY DEF LoopOK
  <2>2. restored' \in {"no", "yes", "over"} /\ (Stale' <=> Stale)
    BY <1>2 DEF LoopOK, Stale
  <2>3. closing'.stop # "no" => stream'.final
    BY <1>5 DEF LoopOK
  <2> QED
    BY <1>2, <1>3, <1>4, <1>5, <1>6, <1>7, <2>1, <2>2, <2>3 DEF LoopOK
<1> QED
  BY <1>2, <1>5, <1>8 DEF DraftIInv

\* A text is put back.
LEMMA RefusedKeeps ==
  ASSUME DraftAssumption, LoopOK, InFlight, stream.stopped \in BOOLEAN, stream.final \in BOOLEAN,
         NEW st, Refused(st), Latest' = Latest, given' = given, closing' = closing, chat' = chat,
         Sound(Latest, given, inFlight.text, NoSend, st, chat, closing.clear, restored'),
         st.stopped \in BOOLEAN, stream.stopped => st.stopped, st.final = stream.final,
         st.stopped \/ inFlight.does = "refuse"
  PROVE  DraftIInv'
<1>1. closing.clear \in Clears
  BY DEF LoopOK, Clears
<1>2. /\ throttle' = throttle /\ waiting' = FALSE /\ restored' \in {"yes", "over"}
      /\ Stale => restored' = "over"
  <2>1. throttle' = throttle /\ waiting' = FALSE
    BY DEF Refused
  <2>2. restored' \in {"yes", "over"} /\ (Stale => restored' = "over")
    BY DEF Refused, Stale
  <2> QED
    BY <2>1, <2>2
<1>3. /\ Sound(Latest, given, pendingText', inFlight', stream', chat, closing.clear, restored')
      /\ stream'.stopped = st.stopped /\ stream'.final = st.final
      /\ (st.final => inFlight'.does # "refuse")
      /\ (waiting /\ ~st.stopped => pendingText' = 0)
  <2>1. CASE waiting
    <3>1. TakeTo(inFlight.text, st, pendingText', inFlight', stream')
      BY <2>1, TakeIsTakeTo DEF Refused
    <3>2. Sound(Latest, given, inFlight.text, NoSend, st, chat, closing.clear, restored')
      OBVIOUS
    <3> QED
      BY ONLY <1>1, <3>1, <3>2, TakeSound, DraftAssumption
  <2>2. CASE ~waiting
    <3>1. pendingText' = inFlight.text /\ inFlight' = NoSend /\ stream' = st
      BY <2>2 DEF Refused
    <3> QED
      BY <2>2, <3>1, NoSendIsSend
  <2> QED
    BY <2>1, <2>2
<1>4. stream'.final /\ ~stream'.stopped => pendingText' = 0
  BY <1>3 DEF LoopOK
<1>5. ~(closing.stop = "done" /\ ~stream'.stopped /\ ~Stale')
  BY <1>2, <1>3 DEF LoopOK, Stale
<1>6. LoopOK'
  <2>1. /\ closing' \in [stop : {"no", "flushing", "done"}, clear : {"no", "waiting", "done", "failed"}]
        /\ throttle' \in [timer : BOOLEAN, hot : BOOLEAN]
    BY <1>2 DEF LoopOK
  <2>2. closing'.stop # "no" => stream'.final
    BY <1>3 DEF LoopOK
  <2>3. waiting' \in BOOLEAN
    BY ONLY <1>2, Zenon
  <2> QED
    BY <1>2, <1>3, <1>4, <1>5, <2>1, <2>2, <2>3 DEF LoopOK
<1> QED
  BY <1>3, <1>6 DEF DraftIInv

\* What a message shows only advances.
Advances == \A m \in Messages : chat'[m].shows >= chat[m].shows

LEMMA CallSucceedsKeeps ==
  ASSUME DraftAssumption, DraftIInv, CallSucceeds
  PROVE  DraftIInv' /\ Advances
<1>0. Sound(Latest, given, pendingText, inFlight, stream, chat, closing.clear, restored) /\ LoopOK
  BY DEF DraftIInv
<1>1. /\ inFlight.does = "call" /\ InFlight /\ given' = given /\ closing' = closing
      /\ Latest' = Latest
  BY LatestSame DEF CallSucceeds, InFlight
<1>2. /\ closing.clear \in Clears /\ stream.stopped \in BOOLEAN /\ stream.final \in BOOLEAN
  BY <1>0, LoopTypes
<1>3. CASE inFlight.to # 0
  <2>1. chat' = [chat EXCEPT ![inFlight.to].shows = inFlight.text] /\ Accepted(stream)
    BY <1>3 DEF CallSucceeds
  <2>2. /\ Sound(Latest, given, pendingText, NoSend, stream, chat', closing.clear, restored)
        /\ \A m \in Messages : chat[m].shows <= chat'[m].shows
    BY <1>0, <1>1, <1>2, <1>3, <2>1, EditedSound
  <2>3. DraftIInv'
    BY <1>0, <1>1, <1>2, <2>1, <2>2, AcceptedKeeps
  <2>4. \A m \in Messages : chat[m].shows \in Nat /\ chat'[m].shows \in Nat
    BY <1>0, <2>2 DEF Sound, ChatOK, Chats, DraftAssumption
  <2> QED
    BY <2>2, <2>3, <2>4 DEF Advances
<1>4. CASE inFlight.to = 0
  <2> DEFINE m == NextMessage
             s == TakeMessage(stream, m)
  <2>1. m \in Messages /\ chat[m].shows = 0 /\ \A i \in 1..(m - 1) : chat[i].shows # 0
    <3>1. \E n \in Messages : chat[n].shows = 0 /\ \A i \in 1..(n - 1) : chat[i].shows # 0
      BY <1>0, <1>1, <1>2, <1>4, MessageLeft
    <3> QED
      BY <3>1 DEF NextMessage
  <2>2. /\ chat' = [chat EXCEPT ![m] = [shows |-> inFlight.text, gen |-> inFlight.gen,
                                        gone |-> inFlight.gen # stream.gen]]
        /\ Accepted(s)
    BY <1>4 DEF CallSucceeds
  <2>3. s = IF inFlight.gen = stream.gen THEN [stream EXCEPT !.message = m] ELSE stream
    BY DEF TakeMessage
  <2> HIDE DEF m, s
  <2>7. Made(inFlight, stream, chat, m, chat', s)
    BY <2>1, <2>2, <2>3 DEF Made
  <2>4. /\ Sound(Latest, given, pendingText, NoSend, s, chat', closing.clear, restored)
        /\ s.stopped = stream.stopped /\ s.final = stream.final
        /\ \A i \in Messages : chat[i].shows <= chat'[i].shows
    BY <1>0, <1>1, <1>2, <1>4, <2>1, <2>7, MadeSound
  <2>5. DraftIInv'
    BY <1>0, <1>1, <1>2, <2>2, <2>4, AcceptedKeeps
  <2>6. \A i \in Messages : chat[i].shows \in Nat /\ chat'[i].shows \in Nat
    BY <1>0, <2>4 DEF Sound, ChatOK, Chats, DraftAssumption
  <2> QED
    BY <2>4, <2>5, <2>6 DEF Advances
<1> QED
  BY <1>3, <1>4

LEMMA CallFailsKeeps ==
  ASSUME DraftAssumption, DraftIInv, CallFails
  PROVE  DraftIInv'
<1>0. Sound(Latest, given, pendingText, inFlight, stream, chat, closing.clear, restored) /\ LoopOK
  BY DEF DraftIInv
<1> DEFINE st == [stream EXCEPT !.stopped = TRUE]
<1>1. /\ inFlight.does = "call" /\ InFlight /\ given' = given /\ chat' = chat /\ closing' = closing
      /\ Latest' = Latest /\ Refused(st)
  BY LatestSame DEF CallFails, InFlight
<1>2. /\ closing.clear \in Clears /\ stream \in Streams /\ stream.stopped \in BOOLEAN
      /\ stream.final \in BOOLEAN
  BY <1>0, LoopTypes
<1>3. Stopped(stream, st) /\ st.stopped /\ st.final = stream.final /\ st.gen = stream.gen
  BY <1>2 DEF Stopped, Streams
<1> HIDE DEF st
<1>4. restored' # "over" => restored # "over" /\ pendingText = 0 /\ inFlight.gen = stream.gen
  BY <1>1, <1>3 DEF Refused
<1>5. Sound(Latest, given, inFlight.text, NoSend, st, chat, closing.clear, restored')
  BY <1>0, <1>1, <1>2, <1>3, <1>4, FailedSound
<1>6. st.stopped \in BOOLEAN
  BY <1>3 DEF Stopped, Streams
<1> QED
  BY <1>0, <1>1, <1>2, <1>3, <1>5, <1>6, RefusedKeeps

LEMMA SendNeedlessKeeps ==
  ASSUME DraftAssumption, DraftIInv, SendNeedless
  PROVE  DraftIInv'
<1>0. Sound(Latest, given, pendingText, inFlight, stream, chat, closing.clear, restored) /\ LoopOK
  BY DEF DraftIInv
<1>1. /\ inFlight.does = "skip" /\ InFlight /\ given' = given /\ chat' = chat /\ closing' = closing
      /\ Latest' = Latest /\ Accepted(stream)
  BY LatestSame DEF SendNeedless, InFlight
<1>2. /\ closing.clear \in Clears /\ stream.stopped \in BOOLEAN /\ stream.final \in BOOLEAN
  BY <1>0, LoopTypes
<1>3. Sound(Latest, given, pendingText, NoSend, stream, chat', closing.clear, restored)
  BY <1>0, <1>1, <1>2, SkipSound
<1> QED
  BY <1>0, <1>1, <1>2, <1>3, AcceptedKeeps

LEMMA SendRefusedKeeps ==
  ASSUME DraftAssumption, DraftIInv, SendRefused
  PROVE  DraftIInv'
<1>0. Sound(Latest, given, pendingText, inFlight, stream, chat, closing.clear, restored) /\ LoopOK
  BY DEF DraftIInv
<1>1. /\ inFlight.does = "refuse" /\ InFlight /\ given' = given /\ chat' = chat /\ closing' = closing
      /\ Latest' = Latest /\ Refused(stream)
  BY LatestSame DEF SendRefused, InFlight
<1>2. /\ closing.clear \in Clears /\ stream.stopped \in BOOLEAN /\ stream.final \in BOOLEAN
  BY <1>0, LoopTypes
<1>3. restored' # "over" => restored # "over" /\ pendingText = 0 /\ inFlight.gen = stream.gen
  BY <1>1 DEF Refused
<1>4. Sound(Latest, given, inFlight.text, NoSend, stream, chat, closing.clear, restored')
  BY <1>0, <1>1, <1>2, <1>3, RefusedSound
<1> QED
  BY <1>0, <1>1, <1>2, <1>4, RefusedKeeps

LEMMA NewMessageKeeps ==
  ASSUME DraftAssumption, DraftIInv, ForceNewMessage
  PROVE  DraftIInv'
<1>0. Sound(Latest, given, pendingText, inFlight, stream, chat, closing.clear, restored) /\ LoopOK
  BY DEF DraftIInv
<1>1. /\ stream.gen < MaxMessages /\ pendingText' = 0 /\ throttle' = [timer |-> FALSE, hot |-> FALSE]
      /\ stream' = [stream EXCEPT !.gen = @ + 1, !.message = 0, !.lastSent = 0]
      /\ given' = given /\ inFlight' = inFlight /\ waiting' = waiting /\ chat' = chat
      /\ closing' = closing /\ restored' = restored /\ Latest' = Latest
  BY LatestSame DEF ForceNewMessage
<1>2. /\ closing.clear \in Clears /\ stream.stopped \in BOOLEAN /\ stream.final \in BOOLEAN
  BY <1>0, LoopTypes
<1>3. /\ Sound(Latest, given, 0, inFlight, stream', chat, closing.clear, restored)
      /\ stream'.stopped = stream.stopped /\ stream'.final = stream.final
  <2>1. GivenUp(stream, stream')
    BY <1>1 DEF GivenUp
  <2> QED
    BY <1>0, <1>1, <1>2, <2>1, NewMessageSound
<1>4. throttle' \in [timer : BOOLEAN, hot : BOOLEAN]
  BY <1>1
<1>5. LoopOK'
  BY <1>0, <1>1, <1>2, <1>3, <1>4 DEF LoopOK, InFlight, Stale
<1> QED
  BY <1>1, <1>3, <1>5 DEF DraftIInv

LEMMA ClearPreviewKeeps ==
  ASSUME DraftAssumption, DraftIInv, ClearPreview
  PROVE  DraftIInv'
<1>0. Sound(Latest, given, pendingText, inFlight, stream, chat, closing.clear, restored) /\ LoopOK
  BY DEF DraftIInv
<1>1. /\ closing.clear = "no" /\ closing' = [closing EXCEPT !.clear = "waiting"]
      /\ stream' = [stream EXCEPT !.stopped = TRUE] /\ pendingText' = 0
      /\ throttle' = [throttle EXCEPT !.timer = FALSE]
      /\ given' = given /\ inFlight' = inFlight /\ waiting' = waiting /\ chat' = chat
      /\ restored' = restored /\ Latest' = Latest
  BY LatestSame DEF ClearPreview
<1>2. stream \in Streams /\ throttle' \in [timer : BOOLEAN, hot : BOOLEAN]
  BY <1>0, <1>1, LoopTypes, ThrottleTypes
<1>3. Stopped(stream, stream') /\ stream'.stopped /\ stream'.final = stream.final
  BY <1>1, <1>2 DEF Stopped, Streams
<1>4. Sound(Latest, given, 0, inFlight, stream', chat, "waiting", restored)
  BY <1>0, <1>1, <1>3, ClearSound
<1>5. /\ closing' \in [stop : {"no", "flushing", "done"}, clear : {"no", "waiting", "done", "failed"}]
      /\ closing'.clear = "waiting" /\ closing'.stop = closing.stop
  BY <1>0, <1>1 DEF LoopOK
<1>6. LoopOK'
  BY <1>0, <1>1, <1>2, <1>3, <1>5 DEF LoopOK
<1> QED
  BY <1>1, <1>4, <1>5, <1>6 DEF DraftIInv

LEMMA ClearGoesOnKeeps ==
  ASSUME DraftAssumption, DraftIInv, ClearGoesOn
  PROVE  DraftIInv' /\ Advances
<1>0. Sound(Latest, given, pendingText, inFlight, stream, chat, closing.clear, restored) /\ LoopOK
  BY DEF DraftIInv
<1>1. /\ closing.clear = "waiting" /\ ~InFlight /\ stream' = [stream EXCEPT !.message = 0]
      /\ given' = given /\ pendingText' = pendingText /\ inFlight' = inFlight
      /\ waiting' = waiting /\ throttle' = throttle /\ restored' = restored /\ Latest' = Latest
  BY LatestSame DEF ClearGoesOn
<1>2. inFlight = NoSend
  BY <1>0, <1>1, IdleIsNoSend DEF InFlight
<1>3. PICK cl \in {"done", "failed"} :
        /\ closing' = [closing EXCEPT !.clear = cl]
        /\ \/ /\ cl = "done"
              /\ chat' = IF stream.message = 0 THEN chat ELSE [chat EXCEPT ![stream.message].gone = TRUE]
           \/ cl = "failed" /\ chat' = chat
  BY DEF ClearGoesOn
<1>4. /\ Sound(Latest, given, pendingText, NoSend, stream', chat', cl, restored)
      /\ stream'.stopped = stream.stopped /\ stream'.final = stream.final
      /\ \A m \in Messages : chat'[m].shows = chat[m].shows
  BY <1>0, <1>1, <1>2, <1>3, ClearedSound
<1>5. /\ closing' \in [stop : {"no", "flushing", "done"}, clear : {"no", "waiting", "done", "failed"}]
      /\ closing'.clear = cl /\ closing'.stop = closing.stop
  BY <1>0, <1>3 DEF LoopOK
<1>6. LoopOK'
  BY <1>0, <1>1, <1>4, <1>5 DEF LoopOK, InFlight, Stale
<1>7. Advances
  <2>1. \A m \in Messages : chat[m].shows \in Nat
    BY <1>0 DEF Sound, ChatOK, Chats, DraftAssumption
  <2> QED
    BY <1>4, <2>1 DEF Advances
<1> QED
  BY <1>1, <1>2, <1>4, <1>5, <1>6, <1>7 DEF DraftIInv

-----------------------------------------------------------------------------
(* Previews: the invariant *)

LEMMA DraftStart ==
  ASSUME DraftAssumption, DraftInit
  PROVE  DraftIInv
<1>1. /\ MaxTexts \in Nat /\ MaxMessages \in Nat \ {0} /\ 0 \in 0..MaxTexts /\ 0 \in 0..MaxMessages
      /\ 1 \in 1..MaxMessages
  BY DEF DraftAssumption
<1>2. /\ given = [t \in Texts |-> 0] /\ pendingText = 0 /\ inFlight = NoSend /\ restored = "no"
      /\ waiting = FALSE /\ throttle = [timer |-> FALSE, hot |-> FALSE]
      /\ stream = [stopped |-> FALSE, final |-> FALSE, gen |-> 1, message |-> 0, lastSent |-> 0]
      /\ chat = [m \in Messages |-> NoMessage] /\ closing = [stop |-> "no", clear |-> "no"]
  BY DEF DraftInit
<1>3. \A t \in Texts : given[t] = 0 /\ t \in 1..MaxTexts
  BY <1>2 DEF Texts
<1>4. \A m \in Messages : chat[m].shows = 0 /\ chat[m].gen = 0 /\ m \in 1..MaxTexts
  BY <1>2 DEF Messages, NoMessage
<1>5. GivenOK(0, given, stream)
  <2>1. given \in [Texts -> 0..MaxMessages] /\ stream.gen = 1
    BY <1>1, <1>2
  <2> QED
    BY <1>1, <1>3, <2>1 DEF GivenOK
<1>6. Latest = 0
  BY <1>5, LatestNow
<1>7. ChatOK(0, given, stream, chat)
  <2>1. chat \in Chats
    BY <1>1, <1>2 DEF Chats, NoMessage
  <2> QED
    BY <1>1, <1>4, <2>1 DEF ChatOK
<1>8. StreamOK(inFlight, stream, chat, closing.clear)
  <2>1. stream \in Streams
    BY <1>1, <1>2 DEF Streams
  <2> QED
    BY <1>2, <1>4, <2>1 DEF StreamOK
<1>9. FlightOK(0, given, inFlight, stream, chat)
  BY <1>2, NoSendIsSend DEF FlightOK
<1>10. PendingOK(0, given, pendingText, inFlight, stream, chat)
  BY <1>1, <1>2 DEF PendingOK
<1>11. LastOK(inFlight, stream, chat) /\ LatestOK(0, given, pendingText, inFlight, stream, chat, restored)
  BY <1>2 DEF LastOK, LatestOK
<1>12. UnmixedOK(given, pendingText, inFlight, stream, chat, restored)
  BY <1>2, <1>4, NoSendIsSend DEF UnmixedOK
<1>13. LoopOK
  BY <1>2, NoSendIsSend DEF LoopOK, InFlight, Stale
<1> QED
  BY <1>5, <1>6, <1>7, <1>8, <1>9, <1>10, <1>11, <1>12, <1>13 DEF DraftIInv, Sound

LEMMA DraftStep ==
  ASSUME DraftAssumption, DraftIInv, [DraftNext]_draftVars
  PROVE  DraftIInv' /\ Advances
<1>0. Sound(Latest, given, pendingText, inFlight, stream, chat, closing.clear, restored) /\ LoopOK
  BY DEF DraftIInv
<1>1. \A m \in Messages : chat[m].shows \in Nat
  BY <1>0 DEF Sound, ChatOK, Chats, DraftAssumption
<1>2. chat' = chat => Advances
  BY <1>1 DEF Advances
<1>3. CASE Update
  BY <1>2, <1>3, UpdateKeeps DEF Update
<1>4. CASE DraftTimerFires
  BY <1>2, <1>4, DraftTimerFiresKeeps DEF DraftTimerFires
<1>5. CASE ThrottleOver
  BY <1>2, <1>5, ThrottleOverKeeps DEF ThrottleOver
<1>6. CASE Stop
  BY <1>2, <1>6, StopKeeps DEF Stop
<1>7. CASE StopReturns
  BY <1>2, <1>7, StopReturnsKeeps DEF StopReturns
<1>8. CASE CallSucceeds
  BY <1>8, CallSucceedsKeeps
<1>9. CASE CallFails
  BY <1>2, <1>9, CallFailsKeeps DEF CallFails
<1>10. CASE SendNeedless
  BY <1>2, <1>10, SendNeedlessKeeps DEF SendNeedless
<1>11. CASE SendRefused
  BY <1>2, <1>11, SendRefusedKeeps DEF SendRefused
<1>12. CASE ForceNewMessage
  BY <1>2, <1>12, NewMessageKeeps DEF ForceNewMessage
<1>13. CASE ClearPreview
  BY <1>2, <1>13, ClearPreviewKeeps DEF ClearPreview
<1>14. CASE ClearGoesOn
  BY <1>14, ClearGoesOnKeeps
<1>15. CASE UNCHANGED draftVars
  <2>1. /\ given' = given /\ pendingText' = pendingText /\ inFlight' = inFlight /\ waiting' = waiting
        /\ throttle' = throttle /\ stream' = stream /\ chat' = chat /\ closing' = closing
        /\ restored' = restored /\ Latest' = Latest
    BY <1>15, LatestSame DEF draftVars
  <2>2. LoopOK'
    BY <1>0, <2>1 DEF LoopOK, InFlight, Stale
  <2> QED
    BY <1>0, <1>2, <2>1, <2>2 DEF DraftIInv
<1> QED
  BY <1>3, <1>4, <1>5, <1>6, <1>7, <1>8, <1>9, <1>10, <1>11, <1>12, <1>13, <1>14, <1>15
     DEF DraftNext

LEMMA DraftIInvImplies ==
  ASSUME DraftAssumption, DraftIInv
  PROVE  /\ DraftTypeOK /\ MessagesAreNotMixed /\ NoTextForgotten
         /\ FinalTextShown /\ ClearedIsGone
<1>0. Sound(Latest, given, pendingText, inFlight, stream, chat, closing.clear, restored) /\ LoopOK
  BY DEF DraftIInv
<1>1. DraftTypeOK
  <2>1. given \in [Texts -> 0..MaxMessages] /\ pendingText \in 0..MaxTexts
    BY <1>0 DEF Sound, GivenOK, PendingOK, DraftAssumption
  <2>2. inFlight.does \in {"nothing", "skip", "refuse", "call"} /\ waiting \in BOOLEAN
    BY <1>0 DEF Sound, FlightOK, Sends, LoopOK
  <2>3. stream.message \in Messages \cup {0} /\ stream.gen \in 1..MaxMessages
    BY <1>0 DEF Sound, StreamOK, Streams, Messages, DraftAssumption
  <2>4. chat \in [Messages -> [shows : 0..MaxTexts, gen : 0..MaxMessages, gone : BOOLEAN]]
    BY <1>0 DEF Sound, ChatOK, Chats
  <2>5. /\ restored \in {"no", "yes", "over"} /\ closing.stop \in {"no", "flushing", "done"}
        /\ closing.clear \in {"no", "waiting", "done", "failed"}
    BY <1>0 DEF LoopOK
  <2> QED
    BY <2>1, <2>2, <2>3, <2>4, <2>5 DEF DraftTypeOK
<1>2. MessagesAreNotMixed
  BY <1>0 DEF Sound, UnmixedOK, MessagesAreNotMixed, Stale
<1>3. NoTextForgotten
  BY <1>0 DEF LoopOK, NoTextForgotten
<1>4. FinalTextShown
  <2> SUFFICES ASSUME closing.stop = "done", ~stream.stopped, ~Stale, Latest # 0,
                      given[Latest] = stream.gen
               PROVE  stream.message # 0 /\ chat[stream.message].shows = Latest
    BY DEF FinalTextShown
  <2>1. ~InFlight /\ pendingText = 0
    BY <1>0 DEF LoopOK
  <2>2. Shown(stream, chat, Latest)
    BY <1>0, <2>1 DEF Sound, LatestOK, InFlight, Stale
  <2> QED
    BY <2>2 DEF Shown
<1>5. ClearedIsGone
  BY <1>0 DEF Sound, StreamOK, ClearedIsGone
<1> QED
  BY <1>1, <1>2, <1>3, <1>4, <1>5

\* However many texts a reply goes through, whatever length a first preview must have and
\* however often a new message is begun: what a message shows is of its own generation and
\* only advances, no text is forgotten, the last one is shown when stop has returned, and
\* nothing is left when clear has.
THEOREM PreviewsAreTrue == DraftSpec => PreviewIsTrue
<1>1. DraftInit => DraftIInv
  BY DraftStart, DraftAssumption
<1>2. DraftIInv /\ [DraftNext]_draftVars => DraftIInv'
  BY DraftStep, DraftAssumption
<1>3. DraftIInv /\ [DraftNext]_draftVars => [Advances]_draftVars
  BY DraftStep, DraftAssumption
<1>4. DraftIInv => (/\ DraftTypeOK /\ MessagesAreNotMixed /\ NoTextForgotten
                    /\ FinalTextShown /\ ClearedIsGone)
  BY DraftIInvImplies, DraftAssumption
<1>5. [Advances]_draftVars => [\A m \in Messages : chat'[m].shows >= chat[m].shows]_draftVars
  BY DEF Advances
<1> QED
  BY <1>1, <1>2, <1>3, <1>4, <1>5, PTL DEF DraftSpec, PreviewIsTrue
=============================================================================
