-------------------------- MODULE InboundDebounce --------------------------
(***************************************************************************)
(* Messages that come in quick succession are handled together:            *)
(* src/auto-reply/inbound-debounce.ts.  One key, that is one sender in one *)
(* chat; keys share nothing.  The handler (onFlush) is external: it takes  *)
(* its time, and may still be at one batch when it is given the next.      *)
(***************************************************************************)
EXTENDS Naturals, Sequences, FiniteSets

CONSTANT MaxItems  \* messages

ASSUME DebounceAssumption == MaxItems \in Nat

VARIABLES
  arrived,  \* number of messages so far
  buffer,   \* the buffer of the key, with its timer; <<>> when there is none
  flushes,  \* batches the handler is at
  behind,   \* [message |-> the batch it waits for while the handler is at it, or <<>>]
  handed    \* history: the messages in the order in which the handler got them

debounceVars == <<arrived, buffer, flushes, behind, handed>>

Items == 1..MaxItems

DebounceInit ==
  /\ arrived = 0 /\ buffer = <<>> /\ flushes = {} /\ handed = <<>>
  /\ behind = [i \in Items |-> <<>>]

\* The handler is given a batch.
HandOver(batch) == flushes' = flushes \cup {batch} /\ handed' = handed \o batch

\* A message that can wait joins the buffer, whose timer starts again.
Buffer ==
  /\ arrived < MaxItems
  /\ arrived' = arrived + 1
  /\ buffer' = Append(buffer, arrived')
  /\ UNCHANGED <<flushes, behind, handed>>

\* Mutant: a message that cannot wait does not push the buffer out first.
PassAhead ==
  /\ arrived < MaxItems
  /\ arrived' = arrived + 1
  /\ HandOver(<<arrived'>>) /\ UNCHANGED <<buffer, behind>>

\* One that cannot (a command, media) is handled at once, or after what it finds in the
\* buffer has been.
Pass ==
  /\ arrived < MaxItems
  /\ arrived' = arrived + 1
  /\ IF buffer = <<>>
     THEN HandOver(<<arrived'>>) /\ UNCHANGED <<buffer, behind>>
     ELSE /\ HandOver(buffer) /\ buffer' = <<>>
          /\ behind' = [behind EXCEPT ![arrived'] = buffer]

\* Mutant: the buffer stays where it is when its timer fires.
TimerFiresAgain ==
  /\ buffer # <<>> /\ buffer \notin flushes
  /\ HandOver(buffer) /\ UNCHANGED <<arrived, buffer, behind>>

DebounceTimerFires ==
  /\ buffer # <<>>
  /\ HandOver(buffer) /\ buffer' = <<>>
  /\ UNCHANGED <<arrived, behind>>

\* The handler is done with a batch, well or not; the message that waited for it is next.
FlushSettles(batch) ==
  /\ batch \in flushes
  /\ IF \E i \in Items : behind[i] = batch
     THEN \E i \in Items : /\ behind[i] = batch
                          /\ flushes' = (flushes \ {batch}) \cup {<<i>>}
                          /\ handed' = Append(handed, i)
     ELSE flushes' = flushes \ {batch} /\ UNCHANGED handed
  /\ UNCHANGED <<arrived, buffer, behind>>

DebounceNext ==
  \/ Buffer \/ Pass \/ DebounceTimerFires
  \/ \E batch \in flushes : FlushSettles(batch)

DebounceSpec == DebounceInit /\ [][DebounceNext]_debounceVars

\* Timers fire and the handler settles.
DebounceFairness ==
  /\ WF_debounceVars(DebounceTimerFires)
  /\ WF_debounceVars(\E batch \in flushes : FlushSettles(batch))

-----------------------------------------------------------------------------
(* Properties *)

Waits(i) == behind[i] \in flushes
Place(i) == CHOOSE k \in DOMAIN handed : handed[k] = i
Handed(i) == \E k \in DOMAIN handed : handed[k] = i

\* Each message is in the buffer, waits for a batch that the handler is at, or has been
\* handed over, once.
EachOnce ==
  \A i \in 1..arrived :
    Cardinality({k \in DOMAIN buffer : buffer[k] = i})
      + Cardinality({k \in DOMAIN handed : handed[k] = i})
      + (IF Waits(i) THEN 1 ELSE 0) = 1

\* Messages are handed over in the order of their arrival; the exception is the one that
\* was to be handled at once and had to wait for the batch before it: later ones may
\* overtake it meanwhile (inbound-debounce.ts:104).
HandedInOrder ==
  \A i, j \in 1..arrived :
    i < j /\ Handed(j) /\ behind[i] = <<>> => Handed(i) /\ Place(i) < Place(j)

DebounceInv == EachOnce /\ HandedInOrder

\* Every message has been handed over ([]<>).
AllHandled == \A i \in 1..arrived : Handed(i)
=============================================================================
