---------------------------- MODULE SessionTurns ----------------------------
(***************************************************************************)
(* What the lanes promise about the agent runs of a session: they execute  *)
(* one at a time and in the order they were asked for.  A restart of the   *)
(* gateway in place that gave up waiting for them begins another life, and *)
(* the promise is made for the turns of each life apart.                   *)
(***************************************************************************)
EXTENDS Naturals, Sequences

CONSTANTS
  Runs,       \* agent runs
  SessionOf   \* run -> session

VARIABLES
  order,      \* session -> its runs in the order they were asked for
  state,      \* run -> "new", "waiting", "executing" or "over"
  turn,       \* run -> the life its turn belongs to, when it executes
  life        \* how often the gateway was restarted in place

turnVars == <<order, state, turn, life>>

Moves == {<<"new", "waiting">>, <<"new", "over">>, <<"waiting", "executing">>,
          <<"waiting", "over">>, <<"executing", "over">>}

TurnsInit ==
  /\ order = [s \in {SessionOf[r] : r \in Runs} |-> <<>>]
  /\ state = [r \in Runs |-> "new"]
  /\ turn = [r \in Runs |-> 0]
  /\ life = 0

Begins(r) == state[r] # "executing" /\ state'[r] = "executing"

\* A run that begins has a turn of its own in its session ...
HasItsTurn(r) ==
  /\ turn'[r] \in 0..life'
  /\ \A x \in Runs \ {r} :
       SessionOf[x] = SessionOf[r] /\ state'[x] = "executing" => turn'[x] # turn'[r]

\* ... and, in the first life, nothing asked for before it is left.
IsNext(r) ==
  LET line == order'[SessionOf[r]] IN
  \A i, j \in DOMAIN line : i < j /\ line[j] = r => state'[line[i]] = "over"

\* One event may end one run and begin others.
TurnsNext ==
  /\ \A r \in Runs : state'[r] = state[r] \/ <<state[r], state'[r]>> \in Moves
  /\ \A r \in Runs : Begins(r) => HasItsTurn(r) /\ (life' = 0 => IsNext(r))
  /\ \A r \in Runs : ~Begins(r) => turn'[r] = turn[r]
  /\ \/ order' = order
     \/ \E r \in Runs :
          /\ state[r] = "new" /\ state'[r] = "waiting"
          /\ order' = [order EXCEPT ![SessionOf[r]] = Append(@, r)]
  /\ life' \in {life, life + 1}

TurnsSpec == TurnsInit /\ [][TurnsNext]_turnVars
=============================================================================
