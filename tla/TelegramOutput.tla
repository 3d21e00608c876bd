--------------------------- MODULE TelegramOutput ---------------------------
(***************************************************************************)
(* How the Claude runtime shows the agent's output in a chat (telegram.go):*)
(* text is buffered as it comes; every half second a ticker sends a        *)
(* placeholder message, edits it in place while the text grows, and leaves *)
(* it when the text pauses; the end of a session flushes what is there.    *)
(* The lock is released before anything is sent.                           *)
(*                                                                         *)
(* Text is a sequence of numbered pieces; a message shows some of them.    *)
(***************************************************************************)
EXTENDS Integers, Sequences, FiniteSets, SequencesExt

CONSTANTS
  Flushers,               \* goroutines that call FlushOutput: the loop and the session's
  ChunkSize,              \* pieces that fit into a message
  MaxPieces, MaxMessages, MaxFaults, MaxFlushes  \* bounds

VARIABLES
  out,                    \* [buf, msg: the placeholder or None, silent, due]: silent: nothing came
                          \*  for 1 s, due: the last edit is 2 s ago
  chat,                   \* the messages: a sequence of sequences of pieces
  hand,                   \* [Procs -> [pc, msg, chunks]]: what a goroutine is sending
  record                  \* [pieces, sent: numbers and set of pieces, faults, flushes]

vars == <<out, chat, hand, record>>

Ticker == "ticker"
Procs == Flushers \cup {Ticker}
None == 0

TelegramOutputAssumption ==
  /\ ChunkSize \in Nat \ {0} /\ {MaxPieces, MaxMessages, MaxFaults, MaxFlushes} \subseteq Nat

NoHand == [pc |-> "idle", msg |-> None, chunks |-> << >>]

Init ==
  /\ out = [buf |-> << >>, msg |-> None, silent |-> TRUE, due |-> TRUE]
  /\ chat = << >>
  /\ hand = [p \in Procs |-> NoHand]
  /\ record = [pieces |-> 0, sent |-> {}, faults |-> 0, flushes |-> 0]

At(p, pc) == hand[p].pc = pc

\* splitMessage: nothing is left out; fences that are closed and opened again do not count.
splitMessage(text) ==
  [k \in 1..((Len(text) + ChunkSize - 1) \div ChunkSize) |->
     SubSeq(text, (k - 1) * ChunkSize + 1, IF k * ChunkSize < Len(text) THEN k * ChunkSize ELSE Len(text))]

Take(p, pc, msg) == hand' = [hand EXCEPT ![p] = [pc |-> pc, msg |-> msg, chunks |-> splitMessage(out.buf)]]
Emptied == [out EXCEPT !.buf = << >>, !.msg = None]

AppendOutput ==
  /\ record.pieces < MaxPieces
  /\ out' = [out EXCEPT !.buf = Append(@, record.pieces + 1), !.silent = FALSE]
  /\ record' = [record EXCEPT !.pieces = @ + 1]
  /\ UNCHANGED <<chat, hand>>

FlushOutput(p) ==
  /\ At(p, "idle") /\ out.buf # << >> /\ record.flushes < MaxFlushes
  /\ Take(p, IF out.msg = None THEN "send" ELSE "edit", out.msg)
  /\ out' = Emptied
  /\ record' = [record EXCEPT !.flushes = @ + 1]
  /\ UNCHANGED chat

\* tryFlush, on a pause: the message is finished.
Finalize ==
  /\ At(Ticker, "idle") /\ out.buf # << >> /\ out.msg # None /\ out.silent
  /\ Take(Ticker, "edit", out.msg)
  /\ out' = Emptied
  /\ UNCHANGED <<chat, record>>

\* tryFlush without a message yet.
NeedPlaceholder ==
  /\ At(Ticker, "idle") /\ out.buf # << >> /\ out.msg = None
  /\ hand' = [hand EXCEPT ![Ticker].pc = "placeholder"]
  /\ UNCHANGED <<out, chat, record>>

\* tryFlush while text comes, at most every two seconds.
EditSoFar ==
  /\ At(Ticker, "idle") /\ out.buf # << >> /\ out.msg # None /\ ~ out.silent /\ out.due
  /\ Take(Ticker, "edit", out.msg)
  /\ UNCHANGED <<out, chat, record>>

sendPlaceholder(ok) ==
  /\ At(Ticker, "placeholder")
  /\ IF ok
     THEN /\ Len(chat) < MaxMessages
          /\ chat' = Append(chat, << >>)
          /\ hand' = [hand EXCEPT ![Ticker].pc = "adopt", ![Ticker].msg = Len(chat) + 1]
          /\ UNCHANGED record
     ELSE /\ record.faults < MaxFaults
          /\ hand' = [hand EXCEPT ![Ticker] = NoHand]
          /\ record' = [record EXCEPT !.faults = @ + 1]
          /\ UNCHANGED chat
  /\ UNCHANGED out

\* Only the ticker sets currentMsgID, so it is still unset.
AdoptPlaceholder ==
  /\ At(Ticker, "adopt")
  /\ out' = [out EXCEPT !.msg = hand[Ticker].msg, !.due = FALSE]
  /\ hand' = [hand EXCEPT ![Ticker] = NoHand]
  /\ UNCHANGED <<chat, record>>

Shown(p, ok) ==
  record' = IF ok THEN [record EXCEPT !.sent = @ \cup ToSet(Head(hand[p].chunks))]
            ELSE [record EXCEPT !.faults = @ + 1]

\* editSingleMessage, with the first chunk; an error is only logged.
editMessage(p, ok) ==
  /\ At(p, "edit") /\ (ok \/ record.faults < MaxFaults)
  /\ chat' = IF ok THEN [chat EXCEPT ![hand[p].msg] = Head(hand[p].chunks)] ELSE chat
  /\ hand' = [hand EXCEPT ![p].pc = "overflow", ![p].chunks = Tail(@)]
  /\ Shown(p, ok)
  /\ UNCHANGED out

\* The other chunks are messages of their own: editMessage goes on after an error, SendText stops.
SendText(p, ok) ==
  /\ hand[p].pc \in {"send", "overflow"} /\ hand[p].chunks # << >>
  /\ IF ok THEN Len(chat) < MaxMessages ELSE record.faults < MaxFaults
  /\ chat' = IF ok THEN Append(chat, Head(hand[p].chunks)) ELSE chat
  /\ hand' = [hand EXCEPT ![p].chunks = IF ~ ok /\ At(p, "send") THEN << >> ELSE Tail(@)]
  /\ Shown(p, ok)
  /\ UNCHANGED out

\* Mutant: the buffer is emptied after the message was sent.
SentAndEmptied(p) ==
  /\ hand[p].pc \in {"send", "overflow"} /\ hand[p].chunks = << >>
  /\ hand' = [hand EXCEPT ![p] = NoHand]
  /\ out' = IF p = Ticker THEN [Emptied EXCEPT !.due = FALSE] ELSE out
  /\ UNCHANGED <<chat, record>>

\* lastEdit: the ticker's next edit is due in two seconds (after the last edit of a message it
\* does not matter).
Sent(p) ==
  /\ hand[p].pc \in {"send", "overflow"} /\ hand[p].chunks = << >>
  /\ hand' = [hand EXCEPT ![p] = NoHand]
  /\ out' = IF p = Ticker THEN [out EXCEPT !.due = FALSE] ELSE out
  /\ UNCHANGED <<chat, record>>

TimePasses ==
  /\ ~ out.silent \/ ~ out.due
  /\ \E silent \in {TRUE, out.silent} : out' = [out EXCEPT !.silent = silent, !.due = TRUE]
  /\ UNCHANGED <<chat, hand, record>>

Next ==
  \/ AppendOutput \/ Finalize \/ NeedPlaceholder \/ EditSoFar \/ AdoptPlaceholder \/ TimePasses
  \/ \E p \in Flushers : FlushOutput(p)
  \/ \E ok \in BOOLEAN : sendPlaceholder(ok)
  \/ \E p \in Procs : Sent(p) \/ \E ok \in BOOLEAN : editMessage(p, ok) \/ SendText(p, ok)

-----------------------------------------------------------------------------
(* Properties. *)

InHand == UNION {UNION {ToSet(hand[p].chunks[k]) : k \in DOMAIN hand[p].chunks} : p \in Procs}

\* As long as Telegram takes what it is given, no piece of the output is dropped between the
\* goroutines: it is in the buffer, on its way, or was shown; and every message shows
\* consecutive pieces in their order.
NothingIsDropped ==
  /\ record.faults = 0 => 1..record.pieces \subseteq ToSet(out.buf) \cup InHand \cup record.sent
  /\ \A m \in DOMAIN chat : \A k \in 1..(Len(chat[m]) - 1) : chat[m][k + 1] = chat[m][k] + 1

\* When all is sent, everything can be read in the chat.
EverythingCanBeRead ==
  record.faults = 0 /\ out.buf = << >> /\ (\A p \in Procs : At(p, "idle"))
    => 1..record.pieces \subseteq UNION {ToSet(chat[m]) : m \in DOMAIN chat}

\* "Each 'thought block' (text between tool calls) becomes one self-updating Telegram message":
\* no piece is in two messages.
ShownOnce ==
  \A m, n \in DOMAIN chat : m # n => ToSet(chat[m]) \cap ToSet(chat[n]) = {}
=============================================================================
