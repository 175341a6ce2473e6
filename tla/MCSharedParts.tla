---------------------------- MODULE MCSharedParts ----------------------------
(***************************************************************************)
(* Four components that share no state, checked for safety in one run, as  *)
(* in MCGatewayParts: a behaviour is one of the component it has chosen at *)
(* the start, and the others rest in an initial state.                     *)
(***************************************************************************)
EXTENDS SessionWriteLock, FollowupQueue, HeartbeatWake, SubagentRegistry, TLC

CONSTANTS t1, t2, t3, p1, p2, m1, m2, m3, m4

\* Two tasks of one process and one of another, which may be started again.
LockTasks == t1 :> p1 @@ t2 :> p1 @@ t3 :> p2
OneRestart == p1 :> 1 @@ p2 :> 2

\* Two messages of one chat, one of another and one without an origin; the second
\* message of the chat is the first, delivered again.
SomeOrigins == m1 :> "dm" @@ m2 :> "dm" @@ m3 :> "group" @@ m4 :> "none"
Redelivered == [m \in {m1, m2, m3, m4} |-> IF m = m2 THEN m1 ELSE m]

\* A run and one it has spawned.
Spawned == [r \in Subagents |-> IF r = "child" THEN "parent" ELSE "main"]

VARIABLE part

partsVars == <<writeLockVars, followupVars, wakeVars, subagentVars, part>>
Parts == {"write lock", "followups", "heartbeats", "subagents"}

PartsInit ==
  /\ part \in Parts
  /\ WriteLockInit /\ FollowupInit /\ WakeInit /\ SubagentInit
  /\ part # "write lock" => linux

\* Bounds: a failed run or a clear, not both; a steer or a crash, not both.
OneTrouble == failures' + clears' <= 1
OneDisturbance == steers' + crashes' <= 1

\* The message and its redelivery are alike: the first comes first.
FirstDeliveryFirst == msg[m1] = "new" => msg'[m2] = "new"

PartsNext ==
  \/ /\ part = "write lock" /\ WriteLockNext
     /\ UNCHANGED <<part, followupVars, wakeVars, subagentVars>>
  \/ /\ part = "followups" /\ FollowupNext /\ OneTrouble /\ FirstDeliveryFirst
     /\ UNCHANGED <<part, writeLockVars, wakeVars, subagentVars>>
  \/ /\ part = "heartbeats" /\ WakeNext
     /\ UNCHANGED <<part, writeLockVars, followupVars, subagentVars>>
  \/ /\ part = "subagents" /\ SubagentNext /\ OneDisturbance
     /\ UNCHANGED <<part, writeLockVars, followupVars, wakeVars>>

PartsSpec == PartsInit /\ [][PartsNext]_partsVars
=============================================================================
