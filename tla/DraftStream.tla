---------------------------- MODULE DraftStream ----------------------------
(***************************************************************************)
(* The preview of a reply that is still being written: a message in the    *)
(* chat that is edited as the text grows.  src/channels/                   *)
(* draft-stream-loop.ts, draft-stream-controls.ts, with the stream of      *)
(* src/telegram/draft-stream.ts.                                           *)
(*                                                                         *)
(* The loop sends one text at a time, the last one it was given.  It is    *)
(* entered by an update, by the throttle's timer and by the final flush,   *)
(* which wait for the send in flight; forceNewMessage and clear come in    *)
(* between.  The API of the chat is external.                              *)
(***************************************************************************)
EXTENDS Naturals, FiniteSets

CONSTANTS
  MaxTexts,     \* texts the reply goes through, 1, 2, ...
  MinInitial,   \* a first preview shorter than this is refused (minInitialChars)
  MaxMessages   \* bound on forceNewMessage

ASSUME DraftAssumption == MaxTexts \in Nat /\ MinInitial \in Nat /\ MaxMessages \in Nat \ {0}

VARIABLES
  given,     \* history: [text |-> the generation in which update got it, 0 when it has not yet]
  pendingText,  \* the text that waits to be sent, 0 for none
  inFlight,  \* the send that is awaited: its text, generation, message and what it is
  waiting,   \* a flush waits for the send in flight
  throttle,  \* the timer, and whether the last send was less than throttleMs ago
  stream,    \* streamState, generation, the message that is edited and the last text sent
  chat,      \* [message |-> the text it shows, its generation, and whether it is deleted]
  closing,   \* the calls of stop and clear
  restored   \* history: a refused send put its text back, in the place of nothing or of a later one

draftVars == <<given, pendingText, inFlight, waiting, throttle, stream, chat, closing, restored>>

Texts == 1..MaxTexts
Messages == 1..MaxTexts
NoSend == [text |-> 0, gen |-> 0, to |-> 0, does |-> "nothing"]
NoMessage == [shows |-> 0, gen |-> 0, gone |-> FALSE]

DraftInit ==
  /\ given = [t \in Texts |-> 0] /\ pendingText = 0 /\ inFlight = NoSend /\ restored = "no"
  /\ waiting = FALSE
  /\ throttle = [timer |-> FALSE, hot |-> FALSE]
  /\ stream = [stopped |-> FALSE, final |-> FALSE, gen |-> 1, message |-> 0, lastSent |-> 0]
  /\ chat = [m \in Messages |-> NoMessage]
  /\ closing = [stop |-> "no", clear |-> "no"]

Latest == IF \E t \in Texts : given[t] # 0
          THEN CHOOSE t \in Texts : given[t] # 0 /\ \A u \in Texts : given[u] # 0 => u <= t
          ELSE 0

InFlight == inFlight.does # "nothing"

\* sendOrEditStreamMessage, as far as its first await: what it will do with a text.
Send(text, st) ==
  [text |-> text, gen |-> st.gen, to |-> st.message,
   does |-> CASE text = st.lastSent -> "skip"
              [] st.message = 0 /\ text < MinInitial /\ ~st.final -> "refuse"
              [] OTHER -> "call"]

\* The head of the loop: the pending text is taken and sent, if there is one.
Take(text, st) ==
  IF text = 0 \/ st.stopped
  THEN inFlight' = NoSend /\ pendingText' = text /\ stream' = st
  ELSE LET send == Send(text, st) IN
       /\ inFlight' = send /\ pendingText' = 0
       /\ stream' = IF send.does = "call" THEN [st EXCEPT !.lastSent = text] ELSE st

-----------------------------------------------------------------------------
(* Updates and flushes *)

\* update() of the controls and of the loop, with a text that has grown or has not.
Update ==
  /\ ~stream.stopped /\ ~stream.final
  /\ \E text \in {Latest, Latest + 1} \cap Texts :
       /\ given[text] \in {0, stream.gen}
       /\ given' = [given EXCEPT ![text] = stream.gen]
       /\ IF InFlight \/ throttle.timer \/ throttle.hot
          THEN /\ throttle' = [throttle EXCEPT !.timer = TRUE] /\ pendingText' = text
               /\ UNCHANGED <<inFlight, stream>>
          ELSE Take(text, stream) /\ UNCHANGED throttle
  /\ UNCHANGED <<waiting, chat, closing, restored>>

\* Mutant: a flush does not wait for the send in flight.
FlushAtOnce(st) ==
  /\ throttle' = [throttle EXCEPT !.timer = FALSE]
  /\ Take(pendingText, st) /\ UNCHANGED waiting

\* A flush waits for the send in flight, or takes the pending text.
Flush(st) ==
  /\ throttle' = [throttle EXCEPT !.timer = FALSE]
  /\ IF InFlight /\ ~st.stopped
     THEN waiting' = TRUE /\ stream' = st /\ UNCHANGED <<inFlight, pendingText>>
     ELSE /\ IF InFlight THEN stream' = st /\ UNCHANGED <<inFlight, pendingText>>
             ELSE Take(pendingText, st)
          /\ UNCHANGED waiting

DraftTimerFires ==
  /\ throttle.timer
  /\ Flush(stream)
  /\ UNCHANGED <<given, chat, closing, restored>>

ThrottleOver ==
  /\ throttle.hot
  /\ throttle' = [throttle EXCEPT !.hot = FALSE]
  /\ UNCHANGED <<given, pendingText, inFlight, waiting, stream, chat, closing, restored>>

\* The reply is complete: the last text is flushed.
Stop ==
  /\ closing.stop = "no"
  /\ closing' = [closing EXCEPT !.stop = "flushing"]
  /\ Flush([stream EXCEPT !.final = TRUE])
  /\ UNCHANGED <<given, chat, restored>>

StopReturns ==
  /\ closing.stop = "flushing" /\ ~InFlight /\ ~waiting
  /\ closing' = [closing EXCEPT !.stop = "done"]
  /\ UNCHANGED <<given, pendingText, inFlight, waiting, throttle, stream, chat, restored>>

-----------------------------------------------------------------------------
(* The send returns *)

\* Who has sent goes on with what has come in meanwhile; who waited, with what it leaves.
Accepted(st) ==
  /\ throttle' = [throttle EXCEPT !.hot = TRUE]
  /\ Take(pendingText, st)
  /\ waiting' = (waiting /\ pendingText # 0 /\ ~st.stopped)
  /\ UNCHANGED restored

\* A refused text is put back, whatever has come in meanwhile (draft-stream-loop.ts:44).
Refused(st) ==
  /\ restored' = IF restored = "over" \/ pendingText # 0 \/ inFlight.gen # st.gen
                 THEN "over" ELSE "yes"
  /\ IF waiting THEN Take(inFlight.text, st)
     ELSE pendingText' = inFlight.text /\ inFlight' = NoSend /\ stream' = st
  /\ waiting' = FALSE
  /\ UNCHANGED throttle

NextMessage == CHOOSE m \in Messages : chat[m].shows = 0 /\ \A n \in 1..(m - 1) : chat[n].shows # 0

\* Mutant: a message made for a preview that has been given up is taken for the new one.
TakeLate(st, m) == [st EXCEPT !.message = m]

\* A message made for a preview that has been given up meanwhile is handed back.
TakeMessage(st, m) == IF inFlight.gen = st.gen THEN [st EXCEPT !.message = m] ELSE st

\* The chat has the text, in the message that is edited or in a new one.
CallSucceeds ==
  /\ inFlight.does = "call"
  /\ IF inFlight.to # 0
     THEN /\ chat' = [chat EXCEPT ![inFlight.to].shows = inFlight.text] /\ Accepted(stream)
     ELSE /\ chat' = [chat EXCEPT ![NextMessage] =
                         [shows |-> inFlight.text, gen |-> inFlight.gen,
                          gone |-> inFlight.gen # stream.gen]]
          /\ Accepted(TakeMessage(stream, NextMessage))
  /\ UNCHANGED <<given, closing>>

\* An error of the API stops the preview.  A send that fails is taken not to have reached
\* the chat.
CallFails ==
  /\ inFlight.does = "call"
  /\ Refused([stream EXCEPT !.stopped = TRUE])
  /\ UNCHANGED <<given, chat, closing>>

SendNeedless ==
  /\ inFlight.does = "skip"
  /\ Accepted(stream) /\ UNCHANGED <<given, chat, closing>>

SendRefused ==
  /\ inFlight.does = "refuse"
  /\ Refused(stream) /\ UNCHANGED <<given, chat, closing>>

-----------------------------------------------------------------------------
(* A new preview, or none *)

\* Mutant: what waits to be sent is kept for the new message.
ForceNewMessageKeeps ==
  /\ stream.gen < MaxMessages
  /\ stream' = [stream EXCEPT !.gen = @ + 1, !.message = 0, !.lastSent = 0]
  /\ throttle' = [timer |-> FALSE, hot |-> FALSE]
  /\ UNCHANGED <<given, pendingText, inFlight, waiting, chat, closing, restored>>

\* The next text begins a new message.
ForceNewMessage ==
  /\ stream.gen < MaxMessages
  /\ stream' = [stream EXCEPT !.gen = @ + 1, !.message = 0, !.lastSent = 0]
  /\ pendingText' = 0
  /\ throttle' = [timer |-> FALSE, hot |-> FALSE]
  /\ UNCHANGED <<given, inFlight, waiting, chat, closing, restored>>

\* Mutant: the message is deleted without waiting for the send in flight.
ClearAtOnce ==
  /\ closing.clear = "waiting"
  /\ closing' = [closing EXCEPT !.clear = "done"]
  /\ stream' = [stream EXCEPT !.message = 0]
  /\ chat' = IF stream.message = 0 THEN chat ELSE [chat EXCEPT ![stream.message].gone = TRUE]
  /\ UNCHANGED <<given, pendingText, inFlight, waiting, throttle, restored>>

\* The preview is to be removed: stopForClear, then takeMessageIdAfterStop.
ClearPreview ==
  /\ closing.clear = "no"
  /\ closing' = [closing EXCEPT !.clear = "waiting"]
  /\ stream' = [stream EXCEPT !.stopped = TRUE]
  /\ pendingText' = 0 /\ throttle' = [throttle EXCEPT !.timer = FALSE]
  /\ UNCHANGED <<given, inFlight, waiting, chat, restored>>

\* The message is deleted, or cannot be.
ClearGoesOn ==
  /\ closing.clear = "waiting" /\ ~InFlight
  /\ stream' = [stream EXCEPT !.message = 0]
  /\ \/ /\ closing' = [closing EXCEPT !.clear = "done"]
        /\ chat' = IF stream.message = 0 THEN chat
                   ELSE [chat EXCEPT ![stream.message].gone = TRUE]
     \/ /\ stream.message # 0
        /\ closing' = [closing EXCEPT !.clear = "failed"] /\ UNCHANGED chat
  /\ UNCHANGED <<given, pendingText, inFlight, waiting, throttle, restored>>

-----------------------------------------------------------------------------
DraftNext ==
  \/ Update \/ DraftTimerFires \/ ThrottleOver \/ Stop \/ StopReturns
  \/ CallSucceeds \/ CallFails \/ SendNeedless \/ SendRefused
  \/ ForceNewMessage \/ ClearPreview \/ ClearGoesOn

DraftSpec == DraftInit /\ [][DraftNext]_draftVars

\* The API answers and timers fire.
DraftFairness ==
  /\ WF_draftVars(CallSucceeds \/ CallFails \/ SendNeedless \/ SendRefused)
  /\ WF_draftVars(ThrottleOver) /\ WF_draftVars(DraftTimerFires)
  /\ WF_draftVars(StopReturns) /\ WF_draftVars(ClearGoesOn)

-----------------------------------------------------------------------------
(* Properties *)

Stale == restored = "over"

DraftTypeOK ==
  /\ given \in [Texts -> 0..MaxMessages] /\ pendingText \in 0..MaxTexts
  /\ inFlight.does \in {"nothing", "skip", "refuse", "call"} /\ waiting \in BOOLEAN
  /\ stream.message \in Messages \cup {0} /\ stream.gen \in 1..MaxMessages
  /\ chat \in [Messages -> [shows : 0..MaxTexts, gen : 0..MaxMessages, gone : BOOLEAN]]
  /\ restored \in {"no", "yes", "over"}
  /\ closing.stop \in {"no", "flushing", "done"}
  /\ closing.clear \in {"no", "waiting", "done", "failed"}

\* A message shows a text of its own generation: neither a late answer nor a text left over
\* puts the text of one message of the reply into another (telegram/draft-stream.ts:180).
MessagesAreNotMixed ==
  Stale \/ \A m \in Messages : chat[m].shows # 0 => given[chat[m].shows] = chat[m].gen

\* A text that waits has a timer or a send in flight to wait for, unless it was refused.
NoTextForgotten ==
  pendingText # 0 => InFlight \/ throttle.timer \/ restored # "no"

\* When stop has returned the message shows the last text, unless a send failed, the
\* preview was cleared or given up, or a refused text replaced a later one.
FinalTextShown ==
  (/\ closing.stop = "done" /\ ~stream.stopped /\ ~Stale
   /\ Latest # 0 /\ given[Latest] = stream.gen)
    => stream.message # 0 /\ chat[stream.message].shows = Latest

\* When clear has returned nothing of the preview is left, and nothing appears later.
ClearedIsGone ==
  closing.clear = "done" =>
    \A m \in Messages : chat[m].shows # 0 /\ chat[m].gen = stream.gen => chat[m].gone

\* Neither stop nor clear waits ([]<>).
DraftIsClosed == closing.stop # "flushing" /\ closing.clear # "waiting"

\* What the reader of the chat sees of a reply that is being written is so, and what a
\* message shows only advances.
PreviewIsTrue ==
  /\ [](/\ DraftTypeOK /\ MessagesAreNotMixed /\ NoTextForgotten
        /\ FinalTextShown /\ ClearedIsGone)
  /\ [][\A m \in Messages : chat'[m].shows >= chat[m].shows]_draftVars
=============================================================================
