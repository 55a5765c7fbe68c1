------------------------------- MODULE PS2Kbd -------------------------------
(***************************************************************************)
(* ps2kbd_init (ps2kbd.c) bringing up a PS/2 keyboard behind an 8042      *)
(* controller, byte by byte.  The host runs the init sequence as a        *)
(* program of steps; ps2_send_command, ps2_kbd_send_command and           *)
(* ps2_read_data are its sub-steps.  The controller and the keyboard take *)
(* bytes from the controller's one-byte input buffer (status bit 1) and   *)
(* answer into its output buffer, modelled as a FIFO of bytes (status     *)
(* bit 0).  The polling loops of ps2_wait_read_ready/ps2_wait_write_ready *)
(* end in a timeout when no answer can come; an early timeout, racing an  *)
(* answer still on its way, is one of the faults below.                   *)
(***************************************************************************)
EXTENDS Integers, Sequences, Bitwise

CONSTANTS BootConfigs, \* controller configuration bytes firmware may leave
          Scancode,    \* the byte a key press puts in the output buffer
          FaultKinds,  \* subset of {"timeout", "error", "keypress"}
          MaxFaults    \* how many faults one run of init meets

ASSUME FaultKinds \subseteq {"timeout", "error", "keypress"} /\ MaxFaults \in Nat

\* Command and response bytes of ps2kbd.c lines 12-30.
ACK == \hFA
RESEND == \hFE
SELF_TEST_OK == \hAA
KBD_ERROR == \hFC
TIMEOUT_BYTE == \hFF   \* what ps2_read_data returns on a timeout

\* The init sequence, one entry per call in ps2kbd_init.  `fail` is the
\* step a failed call continues at; 0 means ps2kbd_init returns.
Step(op, byte, fail) == [op |-> op, byte |-> byte, fail |-> fail]
Prog == << Step("flush", 0, 0),        \* 1. drain the output buffer
           Step("ctrl", \hAE, 0),      \* 2. enable port 1
           Step("ctrl", \h20, 0),      \* 3. read config
           Step("readcfg", 0, 0),
           Step("ctrl", \h60, 0),      \* 5. write config
           Step("writecfg", 0, 0),
           Step("kbd", \hF5, 0),       \* 6. disable scanning
           Step("kbd", \hFF, 0),       \* 7. reset
           Step("selftest", 0, 0),
           Step("kbd", \hF0, 0),       \* 8. set scancode set 2
           Step("kbd", \h02, 0),
           Step("kbd", \hF0, 15),      \* 9. optional check of the set
           Step("kbd", \h00, 15),
           Step("readset", 0, 0),
           Step("kbd", \hF4, 0),       \* 10. enable scanning
           Step("install", 0, 0) >>    \* 11-12. IDT entry, unmask IRQ1

NoByte == [port |-> "none", byte |-> 0]

VARIABLES
  pc, status, sub, retry, config,  \* host: ps2kbd_init's locals
  inBuf, outq,                     \* the controller's two buffers
  ctrlConfig, expectCfg,           \* the controller's configuration
  scanning, set, expectParam,      \* the keyboard
  bootConfig, faults               \* firmware's configuration; faults met

host == <<pc, status, sub, retry, config>>
ctrl == <<ctrlConfig, expectCfg>>
kbd == <<scanning, set, expectParam>>
vars == <<host, inBuf, outq, ctrl, kbd, bootConfig, faults>>

Bit(x, k) == (x \div 2^k) % 2

\* Port 1's clock runs unless config bit 4 is set.
Clocked == Bit(ctrlConfig, 4) = 0

\* The byte in the input buffer will be taken by the controller or the
\* keyboard, and answered if it needs an answer.
AnswerPending == \/ inBuf.port = "cmd"
                 \/ inBuf.port = "data" /\ (expectCfg \/ Clocked)

Fault(kind) == /\ kind \in FaultKinds /\ faults < MaxFaults
               /\ faults' = faults + 1

Init ==
  /\ pc = 1 /\ status = "running" /\ sub = "write" /\ retry = 0 /\ config = 0
  /\ inBuf = NoByte
  /\ outq \in {<< >>, <<Scancode>>}
  /\ ctrlConfig \in BootConfigs /\ bootConfig = ctrlConfig
  /\ expectCfg = FALSE
  /\ scanning = TRUE /\ set = 2 /\ expectParam = FALSE
  /\ faults = 0

----------------------------------------------------------------------------
(* Host.                                                                   *)

Goto(k) == IF k = 0 THEN status' = "failed" /\ UNCHANGED pc
           ELSE pc' = k /\ UNCHANGED status

\* The current step fails: continue where the program says.
FailStep == Goto(Prog[pc].fail) /\ sub' = "write" /\ retry' = 0

NextStep == pc' = pc + 1 /\ UNCHANGED status /\ sub' = "write" /\ retry' = 0

\* The byte ps2_read_data returns: the head of the output buffer, or 0xFF
\* when ps2_wait_read_ready times out.
ReadByte == IF outq # << >> THEN Head(outq) ELSE TIMEOUT_BYTE

\* ps2_read_data's effect: take the head, or time out when the buffer is
\* empty; the timeout is early when an answer is still on its way.
ReadData ==
  \/ /\ outq # << >>
     /\ outq' = Tail(outq)
     /\ UNCHANGED faults
  \/ /\ outq = << >>
     /\ IF AnswerPending THEN Fault("timeout") ELSE UNCHANGED faults
     /\ UNCHANGED outq

\* ps2_wait_write_ready then outb: write when the input buffer is empty
\* and go on with Then; OnTimeout when it stays full.
WriteData(port, byte, Then, OnTimeout) ==
  \/ /\ inBuf = NoByte
     /\ inBuf' = [port |-> port, byte |-> byte]
     /\ UNCHANGED faults
     /\ Then
  \/ /\ inBuf # NoByte
     /\ IF AnswerPending THEN Fault("timeout") ELSE UNCHANGED faults
     /\ UNCHANGED inBuf
     /\ OnTimeout

\* Step 1: read and discard what the output buffer holds.
Flush ==
  /\ Prog[pc].op = "flush"
  /\ outq' = << >>
  /\ NextStep
  /\ UNCHANGED <<config, inBuf, faults>>

\* ps2_send_command: a controller command, no answer awaited.
CtrlCommand ==
  /\ Prog[pc].op = "ctrl"
  /\ WriteData("cmd", Prog[pc].byte, NextStep, FailStep)
  /\ UNCHANGED <<config, outq>>

\* Step 3's read, then step 4: set port 1 interrupts, clear translation.
ReadConfig ==
  /\ Prog[pc].op = "readcfg"
  /\ ReadData
  /\ config' = (ReadByte | 1) & \hBF
  /\ NextStep
  /\ UNCHANGED inBuf

\* Step 5's data byte, after ps2_wait_write_ready.
WriteConfig ==
  /\ Prog[pc].op = "writecfg"
  /\ WriteData("data", config, NextStep, FailStep)
  /\ UNCHANGED <<config, outq>>

\* Mutants: the loop runs while retry <= 3; the loop does not count.
RetryOffByOne == IF retry + 1 <= 3
                 THEN sub' = "write" /\ retry' = retry + 1 /\ UNCHANGED <<pc, status>>
                 ELSE FailStep
RetryUncounted == sub' = "write" /\ UNCHANGED <<pc, status, retry>>

\* `continue` in ps2_kbd_send_command's loop: the next attempt, or false
\* after the third.
Retry == IF retry + 1 < 3
         THEN sub' = "write" /\ retry' = retry + 1 /\ UNCHANGED <<pc, status>>
         ELSE FailStep

\* ps2_kbd_send_command, write half; a write timeout uses an attempt up.
KbdWrite ==
  /\ Prog[pc].op = "kbd" /\ sub = "write"
  /\ WriteData("data", Prog[pc].byte,
                sub' = "read" /\ UNCHANGED <<pc, status, retry>>, Retry)
  /\ UNCHANGED <<config, outq>>

\* Mutant: RESEND taken for success.
ClassifyResendOk(b) ==
  CASE b \in {ACK, RESEND} -> NextStep
    [] OTHER               -> FailStep

\* ps2_kbd_send_command, read half: ACK succeeds, RESEND tries again,
\* anything else (a timeout's 0xFF included) fails.
Classify(b) ==
  CASE b = ACK    -> NextStep
    [] b = RESEND -> Retry
    [] OTHER      -> FailStep

KbdRead ==
  /\ Prog[pc].op = "kbd" /\ sub = "read"
  /\ ReadData
  /\ Classify(ReadByte)
  /\ UNCHANGED <<config, inBuf>>

\* The self-test result after reset must be 0xAA.
SelfTest ==
  /\ Prog[pc].op = "selftest"
  /\ ReadData
  /\ IF ReadByte = SELF_TEST_OK THEN NextStep ELSE FailStep
  /\ UNCHANGED <<config, inBuf>>

\* Step 9's read of the current set: only printed.
ReadSet ==
  /\ Prog[pc].op = "readset"
  /\ ReadData
  /\ NextStep
  /\ UNCHANGED <<config, inBuf>>

\* Steps 11-12 and the successful return.
Install ==
  /\ Prog[pc].op = "install"
  /\ status' = "done"
  /\ UNCHANGED <<pc, sub, retry, config, inBuf, outq, faults>>

HostNext ==
  /\ status = "running"
  /\ \/ Flush \/ CtrlCommand \/ ReadConfig \/ WriteConfig
     \/ KbdWrite \/ KbdRead \/ SelfTest \/ ReadSet \/ Install
  /\ UNCHANGED <<ctrl, kbd, bootConfig>>

----------------------------------------------------------------------------
(* Controller and keyboard.                                                *)

\* The controller executes a command byte: 0xAE starts port 1's clock,
\* 0x20 answers the configuration, 0x60 awaits the new one.
CtrlTakeCommand ==
  /\ inBuf.port = "cmd"
  /\ CASE inBuf.byte = \hAE -> ctrlConfig' = ctrlConfig & \hEF /\ UNCHANGED <<expectCfg, outq>>
       [] inBuf.byte = \h20 -> outq' = Append(outq, ctrlConfig) /\ UNCHANGED ctrl
       [] inBuf.byte = \h60 -> expectCfg' = TRUE /\ UNCHANGED <<ctrlConfig, outq>>
  /\ inBuf' = NoByte

CtrlTakeConfig ==
  /\ inBuf.port = "data" /\ expectCfg
  /\ ctrlConfig' = inBuf.byte
  /\ expectCfg' = FALSE
  /\ inBuf' = NoByte
  /\ UNCHANGED outq

\* What the keyboard does with a byte it accepts.
Execute(b) ==
  IF expectParam
  THEN /\ expectParam' = FALSE
       /\ IF b = 0 THEN outq' = outq \o <<ACK, set>> /\ UNCHANGED set
          ELSE outq' = Append(outq, ACK) /\ set' = b
       /\ UNCHANGED scanning
  ELSE CASE b = \hF5 -> scanning' = FALSE /\ outq' = Append(outq, ACK) /\ UNCHANGED <<set, expectParam>>
         [] b = \hF4 -> scanning' = TRUE /\ outq' = Append(outq, ACK) /\ UNCHANGED <<set, expectParam>>
         [] b = \hFF -> /\ scanning' = TRUE /\ set' = 2 /\ expectParam' = FALSE
                        /\ outq' = outq \o <<ACK, SELF_TEST_OK>>
         [] b = \hF0 -> expectParam' = TRUE /\ outq' = Append(outq, ACK) /\ UNCHANGED <<scanning, set>>

\* A parameter the keyboard accepts: scancode sets 1-3, or 0 to query.
Valid(b) == IF expectParam THEN b \in 0..3 ELSE b \in {\hF5, \hF4, \hFF, \hF0}

\* The keyboard takes a data byte: it acknowledges and executes a valid
\* one, asks for any byte again, or reports an error and drops it.
KbdTake ==
  /\ inBuf.port = "data" /\ ~expectCfg /\ Clocked
  /\ inBuf' = NoByte
  /\ \/ Valid(inBuf.byte) /\ Execute(inBuf.byte) /\ UNCHANGED faults
     \/ outq' = Append(outq, RESEND) /\ UNCHANGED <<kbd, faults>>
     \/ /\ Fault("error")
        /\ outq' = Append(outq, KBD_ERROR)
        /\ expectParam' = FALSE
        /\ UNCHANGED <<scanning, set>>
  /\ UNCHANGED ctrl

\* A key pressed while the keyboard scans.
KeyPress ==
  /\ scanning /\ Clocked
  /\ Fault("keypress")
  /\ outq' = Append(outq, Scancode)
  /\ UNCHANGED <<inBuf, ctrl, kbd>>

DeviceNext ==
  /\ \/ CtrlTakeCommand /\ UNCHANGED <<kbd, faults>>
     \/ CtrlTakeConfig /\ UNCHANGED <<kbd, faults>>
     \/ KbdTake
  /\ UNCHANGED <<host, bootConfig>>

Next == HostNext \/ DeviceNext \/ (KeyPress /\ UNCHANGED <<host, bootConfig>>)

\* The boot thread runs init to its end, and the controller and keyboard
\* take every byte written to them; key presses are not assumed.
Fairness == WF_vars(HostNext) /\ WF_vars(DeviceNext)

Spec == Init /\ [][Next]_vars /\ Fairness

----------------------------------------------------------------------------
(* Properties.                                                             *)

TypeOK ==
  /\ pc \in 1..Len(Prog) /\ status \in {"running", "done", "failed"}
  /\ sub \in {"write", "read"} /\ retry \in 0..2
  /\ config \in 0..255 /\ ctrlConfig \in 0..255
  /\ inBuf \in {NoByte} \cup [port : {"cmd", "data"}, byte : 0..255]
  /\ outq \in Seq(0..255)
  /\ faults \in 0..MaxFaults

\* When ps2kbd_init reports success, the keyboard really is ready: it
\* scans, in scancode set 2, and the controller raises IRQ1 for port 1,
\* runs its clock and does not translate.
InitSuccessImpliesReady ==
  status = "done" =>
    /\ scanning /\ set = 2 /\ ~expectParam
    /\ Bit(ctrlConfig, 0) = 1 /\ Clocked /\ Bit(ctrlConfig, 6) = 0

\* Step 4's comment: init keeps the port 2 (mouse) settings, its
\* interrupt enable (bit 1) and clock disable (bit 5), as firmware left them.
ConfigPreservesPort2 ==
  /\ Bit(ctrlConfig, 1) = Bit(bootConfig, 1)
  /\ Bit(ctrlConfig, 5) = Bit(bootConfig, 5)

\* ps2kbd_init always returns, whatever the keyboard answers: every wait
\* has a timeout and RESEND is retried at most three times.
InitTerminates == <>(status # "running")

=============================================================================
