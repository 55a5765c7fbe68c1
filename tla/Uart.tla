-------------------------------- MODULE Uart --------------------------------
(***************************************************************************)
(* uart.c: the COM1 driver behind currentOutputStream, and print.c's      *)
(* kprintf, which writes through it.  Two contexts write: the kernel's    *)
(* main path (boot, the driver inits, main.c) and the PS/2 keyboard IRQ   *)
(* handler, which printfs a line on every interrupt (ps2kbd.c:254).  The  *)
(* handler can interrupt main between any two port accesses and runs to   *)
(* completion, so main makes no step while it is active.                  *)
(*                                                                         *)
(* The device is a 16550: with the FCR's enable bit set the transmitter   *)
(* holds FifoDepth bytes, else the one-byte holding register;             *)
(* LSR.THR_EMPTY reads set when it holds nothing; a byte written while it *)
(* is full is lost; changing the enable bit clears it; the transmitter    *)
(* moves the oldest byte onto the line.  vprintf is outside the           *)
(* repository: a printf's argument is the text it formats, passed to the  *)
(* wrapper one char at a time.  Each byte is tagged with the context that *)
(* wrote it, for the properties only.                                     *)
(***************************************************************************)
EXTENDS Integers, Sequences, SequencesExt, Bitwise

CONSTANTS FifoDepth,   \* bytes of the 16550's transmit FIFO
          Chars,       \* the chars passed to uart0_write_char
          Msgs,        \* the strings (and buffers, and formatted texts) written
          HandlerMsg,  \* the text ps2kbd_handler prints
          MaxCalls,    \* bound on main's calls
          MaxIrqs      \* bound on keyboard interrupts

LF == 10
CR == 13
\* A NULL pointer: no C string holds a NUL before its end, so <<0>> is no string.
NULL == <<0>>
UART_FCR_ENABLE_FIFO == 1
\* UART_FCR_ENABLE_FIFO | UART_FCR_CLEAR_RX | UART_FCR_CLEAR_TX | UART_FCR_TRIGGER_14
FcrOpen == 1 + 2 + 4 + 192

Ctxs == {"main", "irq"}


VARIABLES initialized, \* uart0_initialized
          fcr,         \* the FIFO control register
          fifo,        \* the transmitter's bytes, [by, b]
          line,        \* what left the transmitter, in order: [by, b, lost]
          ctx,         \* per context: the call in progress and its write_char
          accepted,    \* per context: the chars whose write_char returned 1
          calls, irqs

uvars == <<initialized, fcr, fifo, line, ctx, accepted, calls, irqs>>

NoCall == [op |-> "none", arg |-> << >>, todo |-> << >>, cnt |-> 0, pc |-> "idle", ret |-> 0]

Init ==
  /\ initialized = FALSE
  /\ fcr = 0
  /\ fifo = << >>
  /\ line = << >>
  /\ ctx = [c \in Ctxs |-> NoCall]
  /\ accepted = [c \in Ctxs |-> << >>]
  /\ calls = 0
  /\ irqs = 0

Capacity == IF (fcr & UART_FCR_ENABLE_FIFO) = 1 THEN FifoDepth ELSE 1

\* Mutant: the poll loop waits while the holding register is empty.
uart0_is_transmit_full == fifo # << >>

uart0_is_transmit_empty == fifo = << >>

\* outb(UART0_BASE + UART_DATA_REG, b): a write into a full transmitter is lost.
Outb(c, b) == IF Len(fifo) < Capacity THEN Append(fifo, [by |-> c, b |-> b]) ELSE fifo

\* Mutant: the FCR value leaves out UART_FCR_ENABLE_FIFO.
uart0_openNoFifo ==
  /\ IF initialized THEN UNCHANGED <<initialized, fcr, fifo, line>>
     ELSE initialized' = TRUE /\ fcr' = FcrOpen - 1 /\ fifo' = << >> /\ line' = line
  /\ ctx' = [ctx EXCEPT !.main = [NoCall EXCEPT !.op = "open"]]

\* The register writes of uart0_open; the handler only reads
\* uart0_initialized, which is set last, so the call is one step.
uart0_open ==
  /\ IF initialized THEN UNCHANGED <<initialized, fcr, fifo, line>>
     ELSE initialized' = TRUE /\ fcr' = FcrOpen /\ fifo' = << >> /\ line' = line
  /\ ctx' = [ctx EXCEPT !.main = [NoCall EXCEPT !.op = "open"]]

\* uart0_close clears the FIFO enable bit, which discards what the
\* transmitter still holds.
uart0_close ==
  /\ IF ~initialized THEN UNCHANGED <<initialized, fcr, fifo, line>>
     ELSE /\ initialized' = FALSE /\ fcr' = 0 /\ fifo' = << >>
          /\ line' = line \o [i \in DOMAIN fifo |-> [by |-> fifo[i].by, b |-> fifo[i].b, lost |-> TRUE]]
  /\ ctx' = [ctx EXCEPT !.main = [NoCall EXCEPT !.op = "close"]]

\* uart0_exists writes 0xAA and 0x55 to the scratch register, reads each
\* back and restores the original: on a present 16550 it returns 1.
uart0_exists ==
  /\ ctx' = [ctx EXCEPT !.main = [NoCall EXCEPT !.op = "exists", !.ret = 1]]
  /\ UNCHANGED <<initialized, fcr, fifo, line>>

\* The checks a call makes before its first char: write_string, write_buffer
\* and print refuse NULL or a closed port, printf a closed port; write_char
\* and kprintf check per char (kprintf's currentOutputStream is never NULL).
Refused(op, s) ==
  \/ op \in {"write_string", "write_buffer", "print"} /\ (~initialized \/ s = NULL)
  \/ op = "printf" /\ ~initialized

Begin(c, op, s) ==
  ctx' = [ctx EXCEPT ![c] = IF Refused(op, s) THEN [NoCall EXCEPT !.op = op]
                            ELSE [NoCall EXCEPT !.op = op, !.arg = s, !.todo = s, !.pc = "char"]]

\* What the call returns once every char is written: write_string its
\* count, write_buffer size, print whether the count is positive, printf 1.
Result(op, s, n) ==
  CASE op \in {"write_char", "printf"} -> 1
    [] op = "write_string" -> n
    [] op = "write_buffer" -> Len(s)
    [] op = "print" -> IF n > 0 THEN 1 ELSE 0
    [] op = "kprintf" -> 0

\* A call of main, when the handler is not running.
Call ==
  /\ ctx.main.pc = "idle" /\ ctx.irq.pc = "idle" /\ calls < MaxCalls
  /\ calls' = calls + 1
  /\ \/ uart0_open \/ uart0_close \/ uart0_exists
     \/ /\ \/ \E ch \in Chars : Begin("main", "write_char", <<ch>>)
           \/ \E op \in {"write_string", "write_buffer", "print"}, s \in Msgs \cup {NULL} :
                Begin("main", op, s)
           \/ \E op \in {"printf", "kprintf"}, s \in Msgs : Begin("main", op, s)
        /\ UNCHANGED <<initialized, fcr, fifo, line>>
  /\ UNCHANGED <<accepted, irqs>>

\* IRQ1: ps2kbd_handler calls currentOutputStream->printf.
Irq ==
  /\ ctx.irq.pc = "idle" /\ irqs < MaxIrqs
  /\ irqs' = irqs + 1
  /\ Begin("irq", "printf", HandlerMsg)
  /\ UNCHANGED <<initialized, fcr, fifo, line, accepted, calls>>

\* The loop head of the call: its next char, or its return.  A write_char
\* on a closed port returns 0: write_char, write_string, write_buffer and
\* print stop there, the printf wrappers ignore it and go on.
NextChar(c) ==
  LET k == ctx[c] IN
  /\ k.pc = "char"
  /\ \/ k.todo = << >>
        /\ ctx' = [ctx EXCEPT ![c].pc = "idle", ![c].ret = Result(k.op, k.arg, k.cnt)]
     \/ k.todo # << >> /\ ~initialized /\ k.op \in {"printf", "kprintf"}
        /\ ctx' = [ctx EXCEPT ![c].todo = Tail(k.todo)]
     \/ k.todo # << >> /\ ~initialized /\ k.op \notin {"printf", "kprintf"}
        /\ ctx' = [ctx EXCEPT ![c].pc = "idle", ![c].ret = IF k.op = "print" THEN IF k.cnt > 0 THEN 1 ELSE 0 ELSE k.cnt]
     \/ k.todo # << >> /\ initialized
        /\ ctx' = [ctx EXCEPT ![c].pc = "wait"]
  /\ UNCHANGED <<fifo, accepted>>

\* `while (!uart0_is_transmit_empty()) io_wait();`, before the char and
\* before the CR of a newline: the read of LSR that ends the loop.
Poll(c) ==
  /\ ctx[c].pc \in {"wait", "waitcr"}
  /\ uart0_is_transmit_empty
  /\ ctx' = [ctx EXCEPT ![c].pc = IF @ = "wait" THEN "send" ELSE "sendcr"]
  /\ UNCHANGED <<fifo, accepted>>

\* The write of the char; a newline goes on to wait and send '\r'.
Send(c) ==
  LET k == ctx[c]  ch == Head(k.todo) IN
  /\ k.pc = "send"
  /\ fifo' = Outb(c, ch)
  /\ IF ch = LF THEN ctx' = [ctx EXCEPT ![c].pc = "waitcr"] /\ UNCHANGED accepted
     ELSE /\ ctx' = [ctx EXCEPT ![c].pc = "char", ![c].todo = Tail(k.todo), ![c].cnt = @ + 1]
          /\ accepted' = [accepted EXCEPT ![c] = Append(@, ch)]

SendCR(c) ==
  LET k == ctx[c] IN
  /\ k.pc = "sendcr"
  /\ fifo' = Outb(c, CR)
  /\ ctx' = [ctx EXCEPT ![c].pc = "char", ![c].todo = Tail(k.todo), ![c].cnt = @ + 1]
  /\ accepted' = [accepted EXCEPT ![c] = Append(@, LF)]

\* A step of context c; main steps only while the handler is not running.
Step(c) ==
  /\ c = "irq" \/ ctx.irq.pc = "idle"
  /\ NextChar(c) \/ Poll(c) \/ Send(c) \/ SendCR(c)
  /\ UNCHANGED <<initialized, fcr, line, calls, irqs>>

\* The transmitter shifts the oldest byte out at the line rate.
Transmit ==
  /\ fifo # << >>
  /\ line' = Append(line, [by |-> Head(fifo).by, b |-> Head(fifo).b, lost |-> FALSE])
  /\ fifo' = Tail(fifo)
  /\ UNCHANGED <<initialized, fcr, ctx, accepted, calls, irqs>>

Next == Call \/ Irq \/ (\E c \in Ctxs : Step(c)) \/ Transmit

\* The CPU keeps running both contexts, and the 16550 keeps transmitting.
Fairness == WF_uvars(Transmit) /\ \A c \in Ctxs : WF_uvars(Step(c))

Spec == Init /\ [][Next]_uvars /\ Fairness

-----------------------------------------------------------------------------
Bytes == 0..255

TypeOK ==
  /\ initialized \in BOOLEAN
  /\ fcr \in 0..255
  /\ fifo \in Seq([by : Ctxs, b : Bytes]) /\ Len(fifo) <= FifoDepth
  /\ line \in Seq([by : Ctxs, b : Bytes, lost : BOOLEAN])
  /\ \A c \in Ctxs : ctx[c].pc \in {"idle", "char", "wait", "send", "waitcr", "sendcr"}
  /\ accepted \in [Ctxs -> Seq(Bytes)]
  /\ calls \in 0..MaxCalls /\ irqs \in 0..MaxIrqs

\* A newline goes out as LF then CR.
Expand(s) == FlattenSeq([i \in DOMAIN s |-> IF s[i] = LF THEN <<LF, CR>> ELSE <<s[i]>>])

\* The bytes context c has put into the transmitter, in order.
From(c) == [i \in DOMAIN SelectSeq(line \o fifo, LAMBDA e : e.by = c) |->
              SelectSeq(line \o fifo, LAMBDA e : e.by = c)[i].b]

\* Every char for which uart0_write_char returned 1, in either context,
\* reached the transmitter, in order and with its newline expanded, and
\* nothing else did, however the keyboard handler interrupted main between
\* its LSR poll and its write: no byte is lost or repeated (what
\* uart0_close discarded is in line, marked lost).
OutputFaithful ==
  \A c \in Ctxs :
    From(c) = Expand(accepted[c]) \o (IF ctx[c].pc \in {"waitcr", "sendcr"} THEN <<LF>> ELSE << >>)

\* Every write call returns, in main and in the handler: the poll loops
\* end because the transmitter drains.
CallsReturn == \A c \in Ctxs : ctx[c].pc # "idle" ~> ctx[c].pc = "idle"
=============================================================================
