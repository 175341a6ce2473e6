--------------------------- MODULE MCFollowupQueue ---------------------------
(* Model checking instances of FollowupQueue. *)
EXTENDS FollowupQueue, TLC

CONSTANTS m1, m2, m3, m4

\* Two messages of one chat, one of another and one without an origin; the second
\* message of the chat is the first, delivered again.
SomeOrigins == m1 :> "dm" @@ m2 :> "dm" @@ m3 :> "group" @@ m4 :> "none"
Redelivered == [m \in {m1, m2, m3, m4} |-> IF m = m2 THEN m1 ELSE m]

\* Four messages of one chat.
OneOrigin == [m \in {m1, m2, m3, m4} |-> "dm"]
Distinct == [m \in {m1, m2, m3, m4} |-> m]

=============================================================================
