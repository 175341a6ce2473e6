--------------------------- MODULE MCProcessParts ---------------------------
(***************************************************************************)
(* The run loop of the gateway and five components that share no state     *)
(* with it or with each other, checked in one run.  A behaviour is one of  *)
(* the component it has chosen at the start: that component takes its own  *)
(* steps, under its own fairness, and the others rest in one initial state. *)
(***************************************************************************)
EXTENDS GatewayRunLoop, ConfigReload, AcpSessions, ExecSessions, InboundDebounce,
        DraftStream, TLC

CONSTANTS main, e1, e2

\* A turn or a question, an operation that comes in its way, and a new session to be had at the
\* limit.
SomeKinds ==
  "c1" :> {"turn", "status"} @@ "c2" :> {"cancel", "close", "reset", "update"} @@ "c3" :> {"init"}
TwoOnOne == "c1" :> "a" @@ "c2" :> "a" @@ "c3" :> "b"

VARIABLE part

partsVars == <<allVars, reloadVars, acpVars, execVars, debounceVars, draftVars, part>>
Parts == {"loop", "reloads", "acp sessions", "commands", "messages", "previews"}

PartsInit ==
  /\ part \in Parts
  /\ LoopInit /\ ReloadInit /\ AcpInit /\ ExecInit /\ DebounceInit /\ DraftInit
  /\ part # "loop" => lockWanted
  /\ part # "reloads" => conf.mode = "hybrid"
  /\ part # "acp sessions" => open = {} /\ \A s \in AcpSessionKeys : meta[s] = "none"
  /\ part # "commands" => ~os.held /\ wish = [pty |-> FALSE, window |-> "never", timed |-> FALSE]

PartsNext ==
  \/ /\ part = "loop" /\ LoopNext
     /\ UNCHANGED <<part, reloadVars, acpVars, execVars, debounceVars, draftVars>>
  \/ /\ part = "reloads" /\ ReloadNext
     /\ UNCHANGED <<part, allVars, acpVars, execVars, debounceVars, draftVars>>
  \/ /\ part = "acp sessions" /\ AcpNext
     /\ UNCHANGED <<part, allVars, reloadVars, execVars, debounceVars, draftVars>>
  \/ /\ part = "commands" /\ ExecNext
     /\ UNCHANGED <<part, allVars, reloadVars, acpVars, debounceVars, draftVars>>
  \/ /\ part = "messages" /\ DebounceNext
     /\ UNCHANGED <<part, allVars, reloadVars, acpVars, execVars, draftVars>>
  \/ /\ part = "previews" /\ DraftNext
     /\ UNCHANGED <<part, allVars, reloadVars, acpVars, execVars, debounceVars>>

\* The fairness of each component, of the behaviours that chose it.
LoopFairness ==
  /\ WF_allVars(part = "loop" /\ (StartResolves \/ StartRejects))
  /\ WF_allVars(/\ part = "loop" /\ Alive /\ (PollDrained \/ PollTimedOut)
                /\ UNCHANGED <<loopVars, otherVars>>)
  /\ WF_allVars(part = "loop" /\ DrainEnds)
  /\ WF_allVars(part = "loop" /\ ForceExit)
  /\ WF_allVars(part = "loop" /\ Released)
  /\ WF_allVars(part = "loop" /\ (Reacquired \/ ReacquireFails))

OtherFairness ==
  /\ WF_reloadVars(part = "reloads" /\ WatcherReports)
  /\ WF_reloadVars(part = "reloads" /\ ReloadStep)
  /\ \A c \in AcpCalls :
       /\ WF_acpVars(part = "acp sessions" /\ AcpStep(c))
       /\ WF_acpVars(part = "acp sessions" /\ (c \in aborted \/ At(c, "cancel")) /\ StreamEnds(c))
  /\ WF_execVars(part = "commands" /\ (Spawned \/ SpawnFails))
  /\ WF_execVars(part = "commands" /\ Yield)
  /\ WF_execVars(part = "commands" /\ TimesOut)
  /\ WF_execVars(part = "commands" /\ GraceEnds)
  /\ WF_execVars(part = "commands" /\ FallbackFires)
  /\ WF_execVars(part = "commands" /\ PollReturns)
  /\ WF_execVars(part = "commands" /\ (~sup.pty \/ sup.forced = "none") /\ EndReported)
  /\ WF_debounceVars(part = "messages" /\ DebounceTimerFires)
  /\ WF_debounceVars(part = "messages" /\ \E batch \in flushes : FlushSettles(batch))
  /\ WF_draftVars(part = "previews" /\ (CallSucceeds \/ CallFails \/ SendNeedless \/ SendRefused))
  /\ WF_draftVars(part = "previews" /\ ThrottleOver)
  /\ WF_draftVars(part = "previews" /\ DraftTimerFires)
  /\ WF_draftVars(part = "previews" /\ StopReturns)
  /\ WF_draftVars(part = "previews" /\ ClearGoesOn)

PartsSpec == PartsInit /\ [][PartsNext]_partsVars /\ LoopFairness /\ OtherFairness

-----------------------------------------------------------------------------
\* Nothing is left undone, in any of the parts, under its own fairness: shutdowns and
\* drains end and accepted entries are run, the last change of the configuration is
\* recorded, calls return, commands that must end do and are reported, messages are
\* handed over, and previews are closed.  The parts that rest satisfy theirs from the
\* start, so that the conjunction says of each part what it says of it alone.
PartsSettle ==
  []<>(/\ LoopSettled /\ FileIsRecorded /\ CallsHaveReturned
       /\ CommandsHaveEnded /\ AllHandled /\ DraftIsClosed)
=============================================================================
