--------------------------- MODULE MCGatewayParts ---------------------------
(***************************************************************************)
(* Seven components that share no state, checked in one run.  A behaviour is *)
(* one of the component it has chosen at the start: that component takes   *)
(* its own steps, under its own fairness, and the others rest in an        *)
(* initial state.  What holds of every behaviour of this specification     *)
(* holds of every behaviour of each component, and the other way round.    *)
(***************************************************************************)
EXTENDS FollowupQueue, HeartbeatWake, NodeRegistry, ExecApproval, ChannelManager,
        ReplyDelivery, SubagentRegistry, TLC

CONSTANTS m1, m2, m3

\* A message of one chat, one of another and one without an origin.
SomeOrigins == m1 :> "dm" @@ m2 :> "group" @@ m3 :> "none"
Distinct == [m \in {m1, m2, m3} |-> m]

\* Two requests under one identifier.
OneId == [r \in {"r1", "r2"} |-> "id"]

\* A run spawned by the main session.
FromMain == [r \in Subagents |-> "main"]

VARIABLE part

partsVars == <<followupVars, wakeVars, nodeVars, approvalVars, channelVars, replyVars,
               subagentVars, part>>
Parts == {"followups", "heartbeats", "nodes", "approvals", "channels", "replies",
          "subagents"}

PartsInit ==
  /\ part \in Parts
  /\ FollowupInit /\ WakeInit /\ NodeInit /\ ApprovalInit /\ ChannelInit /\ ReplyInit
  /\ SubagentInit
  /\ part # "channels" => configured

\* The calls are alike, and so are the two requests: the first is made first.  What
\* follows differs from what is left out only in their names.
FirstCallFirst == invoke["i1"] = "new" => invoke'["i2"] = "new"
FirstRequestFirst == handler["r1"] = "new" => handler'["r2"] = "new"

\* Bound: once a start of the account has overlapped, which the properties except but for
\* StopsEnd, its configuration is not changed any more.
SteadyOnceRaced == raced => UNCHANGED configured

PartsNext ==
  \/ /\ part = "followups" /\ FollowupNext
     /\ UNCHANGED <<part, wakeVars, nodeVars, approvalVars,
                    channelVars, replyVars, subagentVars>>
  \/ /\ part = "heartbeats" /\ WakeNext
     /\ UNCHANGED <<part, followupVars, nodeVars, approvalVars,
                    channelVars, replyVars, subagentVars>>
  \/ /\ part = "nodes" /\ NodeNext /\ FirstCallFirst
     /\ UNCHANGED <<part, followupVars, wakeVars, approvalVars,
                    channelVars, replyVars, subagentVars>>
  \/ /\ part = "approvals" /\ ApprovalNext /\ FirstRequestFirst
     /\ UNCHANGED <<part, followupVars, wakeVars, nodeVars,
                    channelVars, replyVars, subagentVars>>
  \/ /\ part = "channels" /\ ChannelNext /\ SteadyOnceRaced
     /\ UNCHANGED <<part, followupVars, wakeVars, nodeVars,
                    approvalVars, replyVars, subagentVars>>
  \/ /\ part = "replies" /\ ReplyNext
     /\ UNCHANGED <<part, followupVars, wakeVars, nodeVars,
                    approvalVars, channelVars, subagentVars>>
  \/ /\ part = "subagents" /\ SubagentNext
     /\ UNCHANGED <<part, followupVars, wakeVars, nodeVars,
                    approvalVars, channelVars, replyVars>>

\* The fairness of each component, of the behaviours that chose it.
PartsFairness ==
  /\ \A m \in Messages :
       /\ WF_followupVars(part = "followups" /\ TurnEnds(m))
       /\ WF_followupVars(part = "followups" /\ \E s \in Settings : EnqueueFollowupRun(m, s))
  /\ \A q \in Queues :
       /\ WF_followupVars(part = "followups" /\ DebounceEnds(q))
       /\ WF_followupVars(part = "followups" /\ Collect(q))
       /\ WF_followupVars(part = "followups" /\ RunEnds(q))
  /\ WF_wakeVars(part = "heartbeats" /\ Fire)
  /\ WF_wakeVars(part = "heartbeats" /\ BatchStep)
  /\ \A i \in Invokes : WF_nodeVars(part = "nodes" /\ (WakeEnds(i) \/ InvokeTimeout(i)))
  /\ \A r \in Requests :
       WF_approvalVars(part = "approvals" /\ (TimeIsOver(r) \/ TimerExpires(r) \/ Forwarded(r)
                       \/ Responds(r) \/ WaitDecision(r) \/ WaitEnds(r)))
  /\ \A k \in TaskSlots : WF_channelVars(part = "channels" /\ TaskStep(k))
  /\ \A c \in AllCallers : WF_channelVars(part = "channels" /\ CallStep(c))
  /\ WF_replyVars(part = "replies" /\ (SendBlock \/ BlockTimesOut))
  /\ WF_replyVars(part = "replies" /\ (ToolConverted \/ Flushed \/ FinalConverted \/ TurnOver))
  /\ WF_replyVars(part = "replies" /\ (Delivered \/ ReservationCleared))
  /\ \A r \in Subagents :
       /\ WF_subagentVars(part = "subagents" /\ FlowStep(r))
       /\ WF_subagentVars(part = "subagents" /\ TimerStep(r))
       /\ WF_subagentVars(part = "subagents" /\ Expires(r))

PartsSpec == PartsInit /\ [][PartsNext]_partsVars /\ PartsFairness
=============================================================================
