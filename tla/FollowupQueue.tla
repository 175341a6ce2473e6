---------------------------- MODULE FollowupQueue ----------------------------
(***************************************************************************)
(* The followup queue of one session: where a message goes that arrives    *)
(* while the agent is busy with an earlier one                             *)
(* (Openclaw-Docker/src/auto-reply/reply/queue/, utils/queue-helpers.ts,   *)
(* and the callers get-reply-run.ts and agent-runner.ts).                  *)
(*                                                                         *)
(* FOLLOWUP_QUEUES maps the key of the session to a queue object, but a    *)
(* drain keeps a reference to the object it began with: several objects of *)
(* the key can be alive.  An object nothing refers to is reset and its     *)
(* name used again.  Everything between two awaits is one step.            *)
(*                                                                         *)
(* Abstractions: the text of prompts is left out, a run carries a set of   *)
(* messages; debounce time is left out, a debounce may end at any time;    *)
(* a turn of the agent is in progress or not, and within it the embedded   *)
(* run that isEmbeddedPiRunActive reports may or may not be active.        *)
(***************************************************************************)
EXTENDS Naturals, FiniteSets, SequencesExt

CONSTANTS
  Messages,     \* inbound messages of the session
  OriginOf,     \* where a reply to a message goes: a target, "none", "unroutable"
  IdOf,         \* the message id; a redelivered message has the id of the first
  Modes,        \* queue modes in use: subset of {"collect", "followup"}
  DropPolicies, \* subset of {"old", "new", "summarize"}
  Caps,         \* queue caps in use
  MaxQueues,    \* bound: queue objects alive at once
  MaxFailures,  \* bound: runs that fail
  MaxClears     \* bound: times the queues of the session are cleared

ASSUME FollowupAssumption ==
  /\ Modes \subseteq {"collect", "followup"}
  /\ DropPolicies \subseteq {"old", "new", "summarize"}
  /\ Caps \subseteq Nat \ {0}
  /\ {MaxQueues, MaxFailures, MaxClears} \subseteq Nat

Queues == 1..MaxQueues
None == 0   \* FOLLOWUP_QUEUES has no entry for the key

VARIABLES
  msg,        \* what became of each message
  followups,  \* the queue objects
  current,    \* the one FOLLOWUP_QUEUES holds for the key
  callback,   \* FOLLOWUP_RUN_CALLBACKS has an entry for the key
  failures, clears,  \* counters for the bounds
  overflowed         \* an item was dropped to make room for another (history)

followupVars == <<msg, followups, current, callback, failures, clears, overflowed>>

NoRun == [kind |-> "none", carries |-> {}, count |-> 0]

\* A new queue object, before the settings of its first message.
NewQueue == [items |-> <<>>, dropped |-> {}, mode |-> "followup", cap |-> 1,
             drop |-> "summarize", drain |-> "off", individual |-> FALSE,
             run |-> NoRun]

FollowupInit ==
  /\ msg = [m \in Messages |-> "new"]
  /\ followups = [q \in Queues |-> NewQueue]
  /\ current = None
  /\ callback = FALSE
  /\ failures = 0
  /\ clears = 0
  /\ overflowed = FALSE

Settings == [mode : Modes, cap : Caps, drop : DropPolicies]
HasWork(q) == q.items # <<>> \/ q.dropped # {}
HasSummary(q) == q.drop = "summarize" /\ q.dropped # {}
Waiting(q) == ToSet(q.items) \cup q.dropped

-----------------------------------------------------------------------------
(* Draining *)

\* beginQueueDrain and the start of the drain loop: what scheduleFollowupDrain
\* does of the objects Q when the map holds k.
RunStarted(Q, k) ==
  IF k \in Queues /\ Q[k].drain = "off"
  THEN [Q EXCEPT ![k] = [@ EXCEPT !.drain = "debounce", !.individual = FALSE]]
  ELSE Q

\* Forget what nothing refers to.
Collected(Q, k) ==
  [x \in Queues |-> IF x # k /\ Q[x].drain = "off" THEN NewQueue ELSE Q[x]]

\* scheduleFollowupDrain(key, runFollowup), Q and k being the objects and the
\* entry of the map; the callback is cached when a drain begins.
ScheduleFollowupDrain(Q, k) ==
  /\ current' = k
  /\ followups' = Collected(RunStarted(Q, k), k)
  /\ callback' = (callback \/ RunStarted(Q, k) # Q)

\* Mutant: the queue is left to the next message when a run has failed.
FinishNoReschedule(q, object) ==
  LET Q == [followups EXCEPT ![q] = [object EXCEPT !.drain = "off", !.run = NoRun]]
      k == IF HasWork(object) THEN current ELSE None
  IN  /\ current' = k
      /\ followups' = Collected(Q, k)
      /\ UNCHANGED callback

\* Mutant: the draining flag is not taken back.
FinishStillDraining(q, object) ==
  LET Q == [followups EXCEPT ![q] = [object EXCEPT !.run = NoRun]]
  IN  IF HasWork(object)
      THEN ScheduleFollowupDrain(Q, current)
      ELSE ScheduleFollowupDrain(Q, None)

\* The finally block of the drain of q, whose object is now `object'.  The map
\* is told to forget the key, or to drain it, whichever object it holds.
Finish(q, object) ==
  LET Q == [followups EXCEPT ![q] = [object EXCEPT !.drain = "off", !.run = NoRun]]
  IN  IF HasWork(object)
      THEN ScheduleFollowupDrain(Q, current)
      ELSE ScheduleFollowupDrain(Q, None)

\* The test of the while loop.
Continue(q, object) ==
  IF HasWork(object)
  THEN /\ followups' = [followups EXCEPT ![q] = [object EXCEPT !.drain = "debounce", !.run = NoRun]]
       /\ UNCHANGED <<current, callback>>
  ELSE Finish(q, object)

\* Call runFollowup with a prompt that carries some messages.
Run(q, kind, messages, count, individual) ==
  /\ followups' = [followups EXCEPT ![q] = [@ EXCEPT
                 !.drain = "running", !.individual = individual,
                 !.run = [kind |-> kind, carries |-> messages, count |-> count]]]
  /\ UNCHANGED <<current, callback>>

\* Mutant: the item is taken from the queue before its run.
RunHeadShifted(q, individual) ==
  IF followups[q].items = <<>>
  THEN Finish(q, followups[q])
  ELSE /\ followups' = [followups EXCEPT ![q] = [@ EXCEPT
                      !.drain = "running", !.individual = individual, !.items = Tail(@),
                      !.run = [kind |-> "item", carries |-> {Head(followups[q].items)}, count |-> 0]]]
       /\ UNCHANGED <<current, callback>>

\* Mutant: the newest item first.
RunLast(q, individual) ==
  IF followups[q].items = <<>>
  THEN Finish(q, followups[q])
  ELSE Run(q, "item", {Last(followups[q].items)}, 1, individual)

\* drainNextQueueItem: run the head, or break if there is none.
RunHead(q, individual) ==
  IF followups[q].items = <<>>
  THEN Finish(q, followups[q])
  ELSE Run(q, "item", {Head(followups[q].items)}, 1, individual)

\* hasCrossChannelItems.
CrossChannel(items) ==
  LET origins == {OriginOf[m] : m \in ToSet(items)}
      keys == origins \ {"none", "unroutable"}
  IN  \/ "unroutable" \in origins
      \/ keys # {} /\ "none" \in origins
      \/ Cardinality(keys) > 1

\* The debounce is over.  In collect mode the items are looked at now, and a
\* batch is only put together after another await.
DebounceEnds(q) ==
  LET cross == CrossChannel(followups[q].items) IN
  /\ followups[q].drain = "debounce"
  /\ \/ /\ followups[q].mode = "collect"
        /\ cross \/ followups[q].individual
        /\ RunHead(q, TRUE)
     \/ /\ followups[q].mode = "collect"
        /\ ~cross /\ ~followups[q].individual
        /\ followups' = [followups EXCEPT ![q].drain = "checked"]
        /\ UNCHANGED <<current, callback>>
     \/ /\ followups[q].mode = "followup"
        /\ HasSummary(followups[q])
        /\ IF followups[q].items = <<>>
           THEN Finish(q, followups[q])
           ELSE Run(q, "summary", followups[q].dropped, 1, followups[q].individual)
     \/ /\ followups[q].mode = "followup"
        /\ ~HasSummary(followups[q])
        /\ RunHead(q, followups[q].individual)
  /\ UNCHANGED <<msg, failures, clears, overflowed>>

\* The batch: all items and the summary, if there is one.  Neither items nor a
\* lastRun are left in an object that was cleared.
Collect(q) ==
  /\ followups[q].drain = "checked"
  /\ IF HasWork(followups[q])
     THEN LET summary == IF HasSummary(followups[q]) THEN followups[q].dropped ELSE {}
          IN  Run(q, IF summary = {} THEN "batch" ELSE "everything",
                  ToSet(followups[q].items) \cup summary, Len(followups[q].items),
                  followups[q].individual)
     ELSE Finish(q, followups[q])
  /\ UNCHANGED <<msg, failures, clears, overflowed>>

\* Mutant: the whole queue is emptied after a batch.
AfterRunAll(object) ==
  [object EXCEPT
     !.items = IF object.run.kind \in {"batch", "everything"} THEN <<>>
               ELSE SubSeq(@, 2, Len(@)),
     !.dropped = IF object.run.kind \in {"summary", "everything"} THEN {} ELSE @]

\* Mutant: the item that was run is not shifted out.
AfterRunKeeping(object) ==
  IF object.run.kind = "item" THEN object
  ELSE [object EXCEPT !.items = SubSeq(@, object.run.count + 1, Len(@)), !.dropped = {}]

\* items.shift() or items.splice(0, count), and clearQueueSummaryState.
AfterRun(object) ==
  [object EXCEPT
     !.items = SubSeq(@, object.run.count + 1, Len(@)),
     !.dropped = IF object.run.kind \in {"summary", "everything"} THEN {} ELSE @]

\* runFollowup resolves.
RunEnds(q) ==
  /\ followups[q].drain = "running"
  /\ msg' = [m \in Messages |-> IF m \in followups[q].run.carries THEN "ran" ELSE msg[m]]
  /\ Continue(q, AfterRun(followups[q]))
  /\ UNCHANGED <<failures, clears, overflowed>>

\* runFollowup rejects: nothing is taken from the queue.
RunFails(q) ==
  /\ followups[q].drain = "running"
  /\ failures < MaxFailures
  /\ failures' = failures + 1
  /\ Finish(q, followups[q])
  /\ UNCHANGED <<msg, clears, overflowed>>

-----------------------------------------------------------------------------
(* Messages and turns *)

\* The agent may be busy: a turn or a followup run of the session is in progress.
Busy == \/ \E m \in Messages : msg[m] = "turn"
        \/ \E q \in Queues : followups[q].drain = "running"

\* runPreparedReply reads isEmbeddedPiRunActive: the message is to be queued, or
\* is a turn of its own.  Either way it awaits before it goes on.
Arrive(m) ==
  /\ msg[m] = "new"
  /\ \/ Busy /\ msg' = [msg EXCEPT ![m] = "enqueuing"]
     \/ msg' = [msg EXCEPT ![m] = "turn"]
  /\ UNCHANGED <<followups, current, callback, failures, clears, overflowed>>

\* The end of runReplyAgent, in success or not: finalizeWithFollowup.
TurnEnds(m) ==
  /\ msg[m] = "turn"
  /\ msg' = [msg EXCEPT ![m] = "ran"]
  /\ ScheduleFollowupDrain(followups, current)
  /\ UNCHANGED <<failures, clears, overflowed>>

\* getFollowupQueue: the object of the map, or a new one.
Target == IF current # None THEN current
          ELSE CHOOSE q \in Queues : followups[q].drain = "off"

\* isRunAlreadyQueued, by message id and routing.
AlreadyQueued(m, items) ==
  \E i \in ToSet(items) : IdOf[i] = IdOf[m] /\ OriginOf[i] = OriginOf[m]

\* Mutant: one item too few is dropped.
OverflowOffByOne(object) ==
  IF Len(object.items) < object.cap THEN 0 ELSE Len(object.items) - object.cap

\* applyQueueDropPolicy: how many of the oldest items make room for one more.
Overflow(object) ==
  IF Len(object.items) < object.cap THEN 0 ELSE Len(object.items) - object.cap + 1

\* Mutant: only a drain that was scheduled by a turn is relied on.
KickNever(Q, k) ==
  /\ current' = k
  /\ followups' = Collected(Q, k)
  /\ UNCHANGED callback

\* kickFollowupDrainIfIdle, when the queue is not draining.
Kick(Q, k) ==
  IF callback
  THEN ScheduleFollowupDrain(Q, k)
  ELSE /\ current' = k
       /\ followups' = Collected(Q, k)
       /\ UNCHANGED callback

\* Push m, after dropping what is over the cap.
Push(m, k, object) ==
  LET n == Overflow(object)
      out == ToSet(SubSeq(object.items, 1, n))
      items == Append(SubSeq(object.items, n + 1, Len(object.items)), m)
      dropped == IF object.drop = "summarize" THEN object.dropped \cup out ELSE object.dropped
  IN  /\ msg' = [x \in Messages |->
                   CASE x = m -> "queued"
                     [] x \in out /\ object.drop = "old" -> "dropped"
                     [] OTHER -> msg[x]]
      /\ overflowed' = (overflowed \/ n > 0)
      /\ Kick([followups EXCEPT ![k] = [object EXCEPT !.items = items, !.dropped = dropped]], k)

\* enqueueFollowupRun with the settings that apply to the message.
EnqueueFollowupRun(m, settings) ==
  LET k == Target
      object == [followups[k] EXCEPT !.mode = settings.mode, !.cap = settings.cap,
                                 !.drop = settings.drop]
      refused == object.drop = "new" /\ Overflow(object) > 0
  IN
  /\ msg[m] = "enqueuing"
  /\ current # None \/ \E q \in Queues : followups[q].drain = "off"
  /\ IF AlreadyQueued(m, object.items) \/ refused
     THEN /\ msg' = [msg EXCEPT ![m] = IF refused THEN "refused" ELSE "duplicate"]
          /\ followups' = [followups EXCEPT ![k] = object]
          /\ current' = k
          /\ UNCHANGED <<callback, overflowed>>
     ELSE Push(m, k, object)
  /\ UNCHANGED <<failures, clears>>

\* clearSessionQueues: stop, reset, kill.  A drain goes on with its object.
ClearSessionQueues ==
  /\ clears < MaxClears
  /\ clears' = clears + 1
  /\ IF current = None THEN UNCHANGED <<msg, followups>>
     ELSE LET cleared == Waiting(followups[current])
              Q == [followups EXCEPT ![current] = [@ EXCEPT !.items = <<>>, !.dropped = {}]]
          IN  /\ msg' = [m \in Messages |-> IF m \in cleared THEN "cleared" ELSE msg[m]]
              /\ followups' = Collected(Q, None)
  /\ current' = None
  /\ callback' = FALSE
  /\ UNCHANGED <<failures, overflowed>>

-----------------------------------------------------------------------------
(* The specification *)

FollowupNext ==
  \/ \E m \in Messages : Arrive(m)
  \/ \E m \in Messages : TurnEnds(m)
  \/ \E m \in Messages, s \in Settings : EnqueueFollowupRun(m, s)
  \/ \E q \in Queues : DebounceEnds(q)
  \/ \E q \in Queues : Collect(q)
  \/ \E q \in Queues : RunEnds(q)
  \/ \E q \in Queues : RunFails(q)
  \/ ClearSessionQueues

FollowupSpec == FollowupInit /\ [][FollowupNext]_followupVars

\* Turns and runs end (agent runs have a timeout), timers fire and promises that
\* are resolved go on.  Messages need not arrive.
FollowupFairSpec ==
  /\ FollowupSpec
  /\ \A m \in Messages : WF_followupVars(TurnEnds(m))
  /\ \A m \in Messages : WF_followupVars(\E s \in Settings : EnqueueFollowupRun(m, s))
  /\ \A q \in Queues : WF_followupVars(DebounceEnds(q)) /\ WF_followupVars(Collect(q)) /\ WF_followupVars(RunEnds(q))

-----------------------------------------------------------------------------
(* Properties *)

\* The state space.
FollowupTypeOK ==
  /\ msg \in [Messages -> {"new", "turn", "enqueuing", "queued", "duplicate", "refused",
                           "dropped", "cleared", "ran"}]
  /\ DOMAIN followups = Queues
  /\ \A q \in Queues :
       /\ followups[q].items \in Seq(Messages)
       /\ followups[q].dropped \subseteq Messages
       /\ followups[q].mode \in Modes \cup {"followup"}
       /\ followups[q].cap \in Caps \cup {1}
       /\ followups[q].drop \in DropPolicies \cup {"summarize"}
       /\ followups[q].drain \in {"off", "debounce", "checked", "running"}
       /\ followups[q].individual \in BOOLEAN
       /\ followups[q].run.kind \in {"none", "item", "summary", "batch", "everything"}
       /\ followups[q].run.carries \subseteq Messages
       /\ followups[q].drain = "running" <=> followups[q].run.kind # "none"
       /\ followups[q].run.count \in Nat
  /\ current \in Queues \cup {None}
  /\ callback \in BOOLEAN
  /\ failures \in 0..MaxFailures
  /\ clears \in 0..MaxClears
  /\ overflowed \in BOOLEAN

\* A message that was accepted and not yet run, dropped by policy or cleared is
\* somewhere: an item of a queue that is alive, or in its overflow summary.
NoMessageLost ==
  \A m \in Messages : msg[m] = "queued" => \E q \in Queues : m \in Waiting(followups[q])

\* The same, as long as nothing was cleared or dropped: neither changes of mode,
\* cap and policy nor runs that fail lose a message.
NothingLostUnlessDropped == clears = 0 /\ ~overflowed => NoMessageLost

\* A queue with items whose key has a callback is being drained: no order of
\* enqueues, ends of drains and clears leaves it waiting for the next message.
NoIdleQueue ==
  current # None /\ callback /\ HasWork(followups[current]) => followups[current].drain # "off"

\* What the drain of a queue has taken in hand stays at the head of the queue
\* until the run ends, so that a failed run loses nothing and a message that is
\* redelivered meanwhile is recognised (as long as nothing is cleared or dropped).
RunningStaysQueued ==
  \A q \in Queues :
    followups[q].drain = "running" /\ clears = 0 /\ ~overflowed =>
      followups[q].run.carries = ToSet(SubSeq(followups[q].items, 1, followups[q].run.count))

\* A queue only grows to its cap.
GrowsWithinCap ==
  [][\A q \in Queues : Len(followups'[q].items) > Len(followups[q].items)
        => Len(followups'[q].items) <= followups'[q].cap]_followupVars

\* Queued messages run in the order they were queued, whatever is dropped, cleared
\* or switched to another mode between the start of a run and its end: none is
\* run while one that waits before it in the queue is not.
RunsInOrder ==
  [][\A q \in Queues : \A i, j \in DOMAIN followups[q].items :
       /\ i < j
       /\ msg[followups[q].items[j]] = "queued" /\ msg'[followups[q].items[j]] = "ran"
       => msg'[followups[q].items[i]] = "ran"]_followupVars

\* The drain of a queue that was cleared, or is no longer the one of the key, goes on.
StrayDrain == \E q \in Queues : q # current /\ followups[q].drain # "off"

\* What is left of a queue is a count of dropped messages that no run will tell: its drain
\* begins again for ever (drain.ts:169), with runs of nothing in collect mode.
Spins(q) == /\ q.items = <<>> /\ q.dropped # {}
            /\ ~(q.mode = "collect" /\ q.drop = "summarize")

WaitsToRun(m) == current # None /\ m \in Waiting(followups[current])

\* A message that waits in the queue of a key that has a callback is run or cleared in the
\* end, runs that fail now and then included.  Three exceptions are the code's own: once a
\* message was dropped to make room, others may leave the queue unseen, with a summary
\* (drain.ts:139) or at the end of a run; a count of dropped messages may stay; and the drain
\* of a cleared queue removes at its end the queue of the key, whichever that is
\* (drain.ts:167).
KickedQueueDrains ==
  \A m \in Messages :
    WaitsToRun(m) /\ callback ~>
      \/ msg[m] # "queued"
      \/ overflowed /\ (~WaitsToRun(m) \/ Spins(followups[current]))
      \/ StrayDrain

\* The drain of a queue ends when messages stop coming, unless it spins.
DrainsEnd ==
  \A q \in Queues : followups[q].drain # "off" ~> followups[q].drain = "off" \/ Spins(followups[q])

\* A message is in its queue until it has been run or dropped, and the queue it is in
\* is drained.
FollowupInv == FollowupTypeOK /\ NothingLostUnlessDropped /\ RunningStaysQueued /\ NoIdleQueue

\* A queue takes messages up to its cap and runs them in the order they came.
FollowupOrder == GrowsWithinCap /\ RunsInOrder

\* A message that waits in a queue with somebody to run it leaves the queue, and every
\* drain comes to its end, whatever the mode, the policy and the cap; what is excepted is
\* named in the two parts.
FollowupsDrain == KickedQueueDrains /\ DrainsEnd
=============================================================================
