------------------------------ MODULE UartPipe -------------------------------
(***************************************************************************)
(* The UART driver (src/src/hardware/uart.cpp) as the 4G transport uses    *)
(* it: an interrupt fills the receive pipe and posts an event, read_line   *)
(* waits for the event and reads.  A piece of input is the texts it holds, *)
(* of those the firmware looks for, and whether it ends a line.            *)
(* read_line gives up on a full buffer too; its buffers hold more than a   *)
(* pipe does.                                                              *)
(***************************************************************************)
EXTENDS Integers, Sequences

Texts == {"OK", "ERROR", "SimPin", "Time", "Download", "Status200", "Token",
          "NetOpen", "Prompt"}

VARIABLES
  pipe,     \* pieces received and not yet read
  rcvEvt,   \* UART_RECEIVE_EVENT of rcv_evt_
  reading,  \* read_line has cleared the event and has not read yet
  out,      \* what read_line holds of a line whose end has not come
  attached  \* the interrupt of the device fills this pipe

uartVars == <<pipe, rcvEvt, reading, out, attached>>

Piece == [txt : SUBSET Texts, nl : BOOLEAN]

UartTypeOK ==
  /\ pipe \in Seq(Piece)
  /\ rcvEvt \in BOOLEAN /\ reading \in BOOLEAN /\ attached \in BOOLEAN
  /\ out \subseteq Texts

UartInit == pipe = <<>> /\ rcvEvt = FALSE /\ reading = FALSE /\ out = {} /\ attached = FALSE

\* init() makes a new event and a new, empty pipe.
UartSetup ==
  /\ pipe' = <<>> /\ rcvEvt' = FALSE /\ attached' = TRUE
  /\ UNCHANGED <<reading, out>>

\* Another UART object is set up on the same device and takes its interrupt.
Detach ==
  /\ attached' = FALSE
  /\ UNCHANGED <<pipe, rcvEvt, reading, out>>

\* pipe_event_handler calls on_rx, which posts the event.
OnRx(piece) ==
  /\ pipe' = Append(pipe, piece)
  /\ rcvEvt' = TRUE
  /\ UNCHANGED <<reading, out, attached>>

\* wait_rcv_evt has returned; clear_rcv_evt.
ClearRcvEvt ==
  /\ rcvEvt /\ ~reading
  /\ rcvEvt' = FALSE /\ reading' = TRUE
  /\ UNCHANGED <<pipe, out, attached>>

LineEnds   == {i \in 1..Len(pipe) : pipe[i].nl}
TextsTo(n) == out \cup UNION {pipe[i].txt : i \in 1..n}
FirstLine  == TextsTo(CHOOSE n \in LineEnds : \A i \in LineEnds : n <= i)

\* read() empties a pipe that holds no end of a line.
ReadPart ==
  /\ reading /\ LineEnds = {}
  /\ out' = TextsTo(Len(pipe))
  /\ pipe' = <<>> /\ reading' = FALSE
  /\ UNCHANGED <<rcvEvt, attached>>

\* Mutant: what came in behind the line is kept.
ReadLineKeeps ==
  /\ reading /\ LineEnds # {}
  /\ pipe' = SubSeq(pipe, (CHOOSE n \in LineEnds : \A i \in LineEnds : n <= i) + 1, Len(pipe))
  /\ out' = {} /\ reading' = FALSE
  /\ UNCHANGED <<rcvEvt, attached>>

\* read() empties the pipe: read_line returns FirstLine, and what came in behind
\* it is dropped.
ReadLine ==
  /\ reading /\ LineEnds # {}
  /\ out' = {} /\ pipe' = <<>> /\ reading' = FALSE
  /\ UNCHANGED <<rcvEvt, attached>>

\* Nothing has come in time; the part of a line read so far is dropped.
ReadTimeout ==
  /\ ~rcvEvt /\ ~reading
  /\ out' = {}
  /\ UNCHANGED <<pipe, rcvEvt, reading, attached>>
==============================================================================
