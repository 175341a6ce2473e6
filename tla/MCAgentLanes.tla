---------------------------- MODULE MCAgentLanes ----------------------------
(* Model checking instances of AgentLanes. *)
EXTENDS AgentLanes, TLC

CONSTANTS main, alice, bob, r1, r2, r3, r4

\* Three runs of one session and one of another, all of the main lane.
Sessioned == r1 :> alice @@ r2 :> alice @@ r3 :> alice @@ r4 :> bob
Mained == [r \in {r1, r2, r3, r4} |-> main]
Tasks == {r1, r2, r3, r4} \X {"session", "global"}
Interchangeable == Permutations({r1, r2})
=============================================================================
