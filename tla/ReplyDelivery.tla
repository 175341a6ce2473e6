---------------------------- MODULE ReplyDelivery ----------------------------
(***************************************************************************)
(* The replies of one turn on their way to the channel: blocks through the *)
(* pipeline (Openclaw-Docker/src/auto-reply/reply/block-reply-pipeline.ts),*)
(* tool results through their chain (agent-runner-execution.ts), the final *)
(* payloads that agent-runner-payloads.ts leaves, and the dispatcher that  *)
(* delivers them one by one and keeps the gateway from restarting          *)
(* (reply-dispatcher.ts, dispatcher-registry.ts, ../dispatch.ts).          *)
(*                                                                         *)
(* The turn's answer is a row of texts.  With block streaming each text is *)
(* sent as a block when the agent has it, and all of them are final        *)
(* payloads at the end.  Converting a reply (speech, prefixes) takes time  *)
(* before the dispatcher has it.  Coalescing of blocks, buffered audio and *)
(* replies routed to another channel are left out.                         *)
(***************************************************************************)
EXTENDS Integers, Sequences, FiniteSets

CONSTANTS
  MaxTexts,        \* bound: texts of the answer
  MaxTools         \* bound: tool results of the turn

ASSUME ReplyAssumption == MaxTexts \in Nat /\ MaxTools \in Nat

VARIABLES
  turn,            \* "running", "flushing", "finishing" or "over"
  texts,           \* texts the agent has
  pipe,            \* the pipeline's sendChain: blocks it has not begun
  sending,         \* the block it waits for, 0 if none
  converting,      \* blocks on their way to the dispatcher
  sentBlocks,      \* sentKeys
  pipeAborted,     \* aborted
  toolsOut,        \* tool results the agent has
  toolsDone,       \* those the dispatcher has got
  finals,          \* texts whose final payloads are on their way, the least of them first
  failed,          \* the run has failed
  sendChain,       \* the dispatcher's chain, the reply being delivered first
  pendingReplies,  \* pending
  completeCalled,
  clearing,        \* the microtask of markComplete is still to come
  registered,      \* the dispatcher is in activeDispatchers
  delivered,       \* replies the channel has got, in order (history)
  lost,            \* texts of a reply whose conversion or delivery failed (history)
  late,            \* texts whose block the pipeline has given up (history)
  missed           \* a reply came when the dispatcher was not registered any more (history)

pipeVars == <<pipe, sending, converting, sentBlocks, pipeAborted>>
dispatcherVars == <<sendChain, pendingReplies, completeCalled, clearing, registered>>
replyVars == <<turn, texts, pipeVars, toolsOut, toolsDone, finals, failed, dispatcherVars,
               delivered, lost, late, missed>>

Block(n) == [kind |-> "block", text |-> n]
Tool(n) == [kind |-> "tool", text |-> n]
\* Text 0 is what an error is reported with.
Final(n) == [kind |-> "final", text |-> n]

ReplyInit ==
  /\ turn = "running" /\ texts = 0
  /\ pipe = <<>> /\ sending = 0 /\ converting = {} /\ sentBlocks = {} /\ pipeAborted = FALSE
  /\ toolsOut = 0 /\ toolsDone = 0 /\ finals = {} /\ failed = FALSE
  /\ sendChain = <<>> /\ pendingReplies = 1
  /\ completeCalled = FALSE /\ clearing = FALSE /\ registered = TRUE
  /\ delivered = <<>> /\ lost = {} /\ late = {} /\ missed = FALSE

-----------------------------------------------------------------------------
(* The dispatcher *)

\* Mutant: a reply is put in the chain and not counted.
EnqueueReplyUncounted(reply) ==
  /\ sendChain' = Append(sendChain, reply)
  /\ missed' = (missed \/ ~registered)
  /\ UNCHANGED <<pendingReplies, completeCalled, clearing, registered>>

EnqueueReply(reply) ==
  /\ sendChain' = Append(sendChain, reply)
  /\ pendingReplies' = pendingReplies + 1
  /\ missed' = (missed \/ ~registered)
  /\ UNCHANGED <<completeCalled, clearing, registered>>

\* Mutant: the reservation is left to markComplete.
CountDownKeepingReservation(n) ==
  /\ pendingReplies' = n
  /\ registered' = (registered /\ n # 0)

\* The count goes down to n, by one more if that is the reservation of a complete turn.
CountDown(n) ==
  LET left == IF n = 1 /\ completeCalled THEN 0 ELSE n IN
  /\ pendingReplies' = left
  /\ registered' = (registered /\ left # 0)

\* The channel has taken the first reply of the chain, or failed to.
Delivered ==
  /\ sendChain # <<>>
  /\ sendChain' = Tail(sendChain)
  /\ CountDown(pendingReplies - 1)
  /\ \/ delivered' = Append(delivered, Head(sendChain)) /\ UNCHANGED lost
     \/ /\ lost' = IF Head(sendChain).kind = "tool" THEN lost ELSE lost \cup {Head(sendChain).text}
        /\ UNCHANGED delivered
  /\ UNCHANGED <<turn, texts, pipeVars, toolsOut, toolsDone, finals, failed, completeCalled, clearing, late, missed>>

\* Mutant: the reservation is cleared whatever is in the chain.
ReservationClearedAtOnce ==
  /\ clearing
  /\ clearing' = FALSE
  /\ pendingReplies' = pendingReplies - 1
  /\ registered' = FALSE
  /\ UNCHANGED <<turn, texts, pipeVars, toolsOut, toolsDone, finals, failed, sendChain, completeCalled,
                 delivered, lost, late, missed>>

\* The microtask of markComplete.
ReservationCleared ==
  /\ clearing
  /\ clearing' = FALSE
  /\ IF pendingReplies = 1 THEN CountDown(1) ELSE UNCHANGED <<pendingReplies, registered>>
  /\ UNCHANGED <<turn, texts, pipeVars, toolsOut, toolsDone, finals, failed, sendChain, completeCalled,
                 delivered, lost, late, missed>>

-----------------------------------------------------------------------------
(* The pipeline *)

\* The agent has a text: it joins the chain unless streaming was given up.
EnqueueBlock ==
  /\ turn = "running" /\ texts < MaxTexts
  /\ texts' = texts + 1
  /\ pipe' = IF pipeAborted THEN pipe ELSE Append(pipe, texts + 1)
  /\ UNCHANGED <<turn, sending, converting, sentBlocks, pipeAborted, toolsOut, toolsDone, finals, failed,
                 dispatcherVars, delivered, lost, late, missed>>

\* Mutant: blocks behind one that timed out are sent all the same.
SendBlockUnchecked ==
  /\ pipe # <<>> /\ sending = 0
  /\ pipe' = Tail(pipe)
  /\ sending' = Head(pipe) /\ converting' = converting \cup {Head(pipe)}
  /\ UNCHANGED <<turn, texts, sentBlocks, pipeAborted, toolsOut, toolsDone, finals, failed,
                 dispatcherVars, delivered, lost, late, missed>>

SendBlock ==
  /\ pipe # <<>> /\ sending = 0
  /\ pipe' = Tail(pipe)
  /\ IF pipeAborted
     THEN UNCHANGED <<sending, converting>>
     ELSE sending' = Head(pipe) /\ converting' = converting \cup {Head(pipe)}
  /\ UNCHANGED <<turn, texts, sentBlocks, pipeAborted, toolsOut, toolsDone, finals, failed,
                 dispatcherVars, delivered, lost, late, missed>>

\* onBlockReply has handed block b to the dispatcher, in time or not, or has thrown.
BlockConverted(b) ==
  /\ b \in converting
  /\ converting' = converting \ {b}
  /\ sending' = IF sending = b THEN 0 ELSE sending
  /\ \/ /\ EnqueueReply(Block(b))
        /\ sentBlocks' = IF sending = b THEN sentBlocks \cup {b} ELSE sentBlocks
        /\ UNCHANGED lost
     \/ /\ lost' = lost \cup {b}
        /\ UNCHANGED <<sentBlocks, dispatcherVars, missed>>
  /\ UNCHANGED <<turn, texts, pipe, pipeAborted, toolsOut, toolsDone, finals, failed, delivered, late>>

BlockTimesOut ==
  /\ sending # 0
  /\ sending' = 0
  /\ pipeAborted' = TRUE
  /\ late' = late \cup {sending}
  /\ UNCHANGED <<turn, texts, pipe, converting, sentBlocks, toolsOut, toolsDone, finals, failed,
                 dispatcherVars, delivered, lost, missed>>

-----------------------------------------------------------------------------
(* Tool results *)

EnqueueTool ==
  /\ turn = "running" /\ toolsOut < MaxTools
  /\ toolsOut' = toolsOut + 1
  /\ UNCHANGED <<turn, texts, pipeVars, toolsDone, finals, failed, dispatcherVars, delivered, lost, late, missed>>

\* The next one of toolResultChain is converted, or its conversion fails.
ToolConverted ==
  /\ toolsDone < toolsOut
  /\ toolsDone' = toolsDone + 1
  /\ \/ EnqueueReply(Tool(toolsDone + 1))
     \/ UNCHANGED <<dispatcherVars, missed>>
  /\ UNCHANGED <<turn, texts, pipeVars, toolsOut, finals, failed, delivered, lost, late>>

-----------------------------------------------------------------------------
(* The turn *)

\* withReplyDispatcher: markComplete on every way out.
MarkComplete ==
  /\ turn' = "over"
  /\ completeCalled' = TRUE /\ clearing' = TRUE

AgentEnds ==
  /\ turn = "running"
  /\ turn' = "flushing"
  /\ UNCHANGED <<texts, pipeVars, toolsOut, toolsDone, finals, failed, dispatcherVars, delivered, lost, late, missed>>

\* The run fails: an error is reported at once, or the turn ends without a word.
AgentFails ==
  /\ turn = "running"
  /\ failed' = TRUE
  /\ \/ /\ turn' = "finishing" /\ finals' = {0}
        /\ UNCHANGED <<completeCalled, clearing>>
     \/ MarkComplete /\ UNCHANGED finals
  /\ UNCHANGED <<texts, pipeVars, toolsOut, toolsDone, sendChain, pendingReplies, registered,
                 delivered, lost, late, missed>>

\* Mutant: one block that was sent is enough.
FinalPayloadsIfStreamed ==
  IF sentBlocks # {} THEN {} ELSE 1..texts \ sentBlocks

\* Mutant: what was sent is not left out.
FinalPayloadsAll ==
  IF sentBlocks # {} /\ ~pipeAborted THEN {} ELSE 1..texts

\* buildReplyPayloads: nothing if blocks were streamed and none timed out, else what was
\* not sent.
FinalPayloads ==
  IF sentBlocks # {} /\ ~pipeAborted THEN {} ELSE 1..texts \ sentBlocks

\* Mutant: tool results are not waited for.
FlushedWithoutTools ==
  /\ turn = "flushing" /\ pipe = <<>> /\ sending = 0
  /\ turn' = "finishing"
  /\ finals' = FinalPayloads
  /\ UNCHANGED <<texts, pipeVars, toolsOut, toolsDone, failed, dispatcherVars, delivered, lost, late, missed>>

\* The pipeline is flushed and tool results are in.
Flushed ==
  /\ turn = "flushing" /\ pipe = <<>> /\ sending = 0 /\ toolsDone = toolsOut
  /\ turn' = "finishing"
  /\ finals' = FinalPayloads
  /\ UNCHANGED <<texts, pipeVars, toolsOut, toolsDone, failed, dispatcherVars, delivered, lost, late, missed>>

\* The next final payload is converted.
FinalConverted ==
  /\ turn = "finishing"
  /\ \E n \in finals :
       /\ \A m \in finals : n <= m
       /\ finals' = finals \ {n}
       /\ EnqueueReply(Final(n))
  /\ UNCHANGED <<turn, texts, pipeVars, toolsOut, toolsDone, failed, delivered, lost, late>>

TurnOver ==
  /\ turn = "finishing" /\ finals = {}
  /\ MarkComplete
  /\ UNCHANGED <<texts, pipeVars, toolsOut, toolsDone, finals, failed, sendChain, pendingReplies, registered,
                 delivered, lost, late, missed>>

-----------------------------------------------------------------------------
ReplyNext ==
  \/ EnqueueBlock \/ SendBlock \/ BlockTimesOut \/ \E b \in converting : BlockConverted(b)
  \/ EnqueueTool \/ ToolConverted
  \/ AgentEnds \/ AgentFails \/ Flushed \/ FinalConverted \/ TurnOver
  \/ Delivered \/ ReservationCleared

ReplySpec == ReplyInit /\ [][ReplyNext]_replyVars

\* Timers fire, chains go on and the channel answers; converting a block may take for
\* ever, converting a tool result or a final payload may not, since nothing limits it.
ReplyFairness ==
  /\ WF_replyVars(SendBlock \/ BlockTimesOut)
  /\ WF_replyVars(ToolConverted \/ Flushed \/ FinalConverted \/ TurnOver)
  /\ WF_replyVars(Delivered \/ ReservationCleared)

-----------------------------------------------------------------------------
(* Properties *)

Replies == {Block(n) : n \in 1..MaxTexts} \cup {Tool(n) : n \in 1..MaxTools} \cup {Final(n) : n \in 0..MaxTexts}
HasGot(reply) == \E i \in DOMAIN delivered : delivered[i] = reply

\* The shapes of the state; the count is exact while the gateway looks at it.
ReplyTypeOK ==
  /\ turn \in {"running", "flushing", "finishing", "over"}
  /\ texts \in 0..MaxTexts /\ sending \in 0..texts
  /\ pipe \in Seq(1..texts) /\ finals \subseteq 0..texts
  /\ UNION {converting, sentBlocks, lost, late} \subseteq 0..texts
  /\ toolsDone \in 0..toolsOut /\ toolsOut \in 0..MaxTools
  /\ sendChain \in Seq(Replies) /\ delivered \in Seq(Replies)
  /\ pendingReplies \in Int /\ (registered => pendingReplies = Len(sendChain) + 1)
  /\ {pipeAborted, failed, completeCalled, clearing, registered, missed} \subseteq BOOLEAN

\* The gateway sees a turn until it is over and all its replies are delivered
\* (reply-dispatcher.ts:169), except replies that come when it has lost sight of it.
SeenUntilDelivered ==
  ~registered => completeCalled /\ (sendChain = <<>> \/ missed)

\* No text is delivered twice, unless its block came after the pipeline gave it up.
TextsOnce == \A n \in 1..MaxTexts : HasGot(Block(n)) /\ HasGot(Final(n)) => n \in late

\* What is delivered after a final payload is another final payload, unless it was late
\* or the final payload reports an error, which waits for nothing.
FinalsComeLast ==
  \A i, j \in DOMAIN delivered :
    i < j /\ delivered[i].kind = "final" /\ delivered[i].text # 0 =>
      \/ delivered[j].kind = "final"
      \/ delivered[j].kind = "block" /\ delivered[j].text \in late

\* The texts come in the order the agent had them, except blocks that were late and what
\* is sent again because its block failed.
TextsInOrder ==
  \A i, j \in DOMAIN delivered :
    i < j /\ "tool" \notin {delivered[i].kind, delivered[j].kind} /\ delivered[j].text # 0 =>
      \/ delivered[i].text <= delivered[j].text
      \/ delivered[j].text \in lost
      \/ \E k \in {i, j} : delivered[k].kind = "block" /\ delivered[k].text \in late

\* When a turn that did not fail is over, each text was delivered or something failed
\* for it: a text whose block was given up is a final payload.
NothingUnsaid ==
  turn = "over" /\ ~registered /\ ~failed =>
    \A n \in 1..texts : HasGot(Block(n)) \/ HasGot(Final(n)) \/ n \in lost

\* The gateway can restart some day: a turn whose agent is done is lost sight of.
TurnsAreReleased == turn \in {"flushing", "finishing", "over"} ~> ~registered

\* Of what the agent says nothing is left out, said twice or said out of order, and the
\* dispatcher stays registered until all of it is delivered.
ReplyInv ==
  /\ ReplyTypeOK /\ SeenUntilDelivered
  /\ TextsOnce /\ FinalsComeLast /\ TextsInOrder /\ NothingUnsaid
=============================================================================
