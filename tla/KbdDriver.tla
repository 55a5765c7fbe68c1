------------------------------ MODULE KbdDriver ------------------------------
(***************************************************************************)
(* The PS/2 keyboard from registration to the reader.  boot.c registers   *)
(* ps2kbd_driver with sys_driver_register (Driver.c), which adds it to    *)
(* driver_list and calls ps2kbd_init, then ps2kbd_enable.  ps2kbd_init's  *)
(* hardware sequence is PS2Kbd.tla, instantiated here; its prelude        *)
(* creates the event buffer and keyboardInputStreamList.  Once IRQ1 is    *)
(* installed, a byte in the controller's output buffer runs              *)
(* ps2kbd_handler, which takes it with inb(0x60) - a scancode, or, when  *)
(* the driver is registered again, an answer ps2kbd_init waits for - and  *)
(* whose layout handler (outside this repository) pushes an event into    *)
(* ps2_event_buffer.  main.c busy-waits on available() and reads with     *)
(* readChar until it reads 'q'; other kernel code may call the stream's   *)
(* readString/readBuffer and sys_driver_unregister/register.              *)
(*                                                                         *)
(* The Buffer and List types are abstracted: a buffer is a sequence of    *)
(* events (buffer_pop takes the head), a list of one kind of element is   *)
(* the number of times it is listed.  heap_alloc under list_create,       *)
(* list_add and buffer_create may fail.  readChar calls list_size on the  *)
(* Buffer*: list_size returns the Buffer's third word, whose meaning      *)
(* lies outside this repository, so it is a constant choice (sizeWord).   *)
(***************************************************************************)
EXTENDS Integers, SequencesExt

CONSTANTS BootConfigs, Scancode, FaultKinds, MaxFaults, \* as in PS2Kbd
          Keys,          \* [ascii, pressed, known] events a layout handler makes
          Quit,          \* the ascii main.c exits on ('q')
          Layouts,       \* values currentLayout may hold
          SizeWords,     \* subset of {"count", "zero", "nonzero"}
          OtherCalls,    \* subset of {"register", "unregister", "readString", "readBuffer"}
          Lengths,       \* maxLength/size arguments of readString/readBuffer
          MaxKeys, MaxCalls, MaxAllocFails

VARIABLES
  pc, status, sub, retry, config, inBuf, outq,     \* PS2Kbd
  ctrlConfig, expectCfg, scanning, set, expectParam, bootConfig, faults,
  drvPc,         \* where the registering thread is: idle, hw, enable
  booted,        \* boot.c's sys_driver_register has returned
  driverList,    \* driver_list # NULL
  listedDrv,     \* times ps2kbd_driver is in driver_list
  enabled,       \* ps2kbd_driver.enabled
  hasBuf, buf,   \* ps2_event_buffer # NULL, and its events
  streamList,    \* keyboardInputStreamList # NULL
  listedStream,  \* times ps2kbdInputStream is in it
  irq,           \* IRQ1 entry installed and unmasked
  layout, layer, sizeWord, \* outside state: currentLayout, abstraction layer
  mainPc,        \* main.c: wait (on available), read, exited
  nkeys, typed, got, cleared, \* key ids made, pressed ones, read, cleared
  calls, regs, allocFails

hw == <<pc, status, sub, retry, config, inBuf, outq, ctrlConfig, expectCfg,
        scanning, set, expectParam, bootConfig, faults>>
host == <<pc, status, sub, retry, config>>
drv == <<drvPc, booted, driverList, listedDrv, enabled, hasBuf, buf, streamList,
         listedStream, irq, layout, layer, sizeWord, mainPc, nkeys, typed, got,
         cleared, calls, regs, allocFails>>
vars == <<hw, drv>>

HW == INSTANCE PS2Kbd

KnownLayouts == {"LAYOUT_US_QWERTY", "LAYOUT_TR_QWERTY", "LAYOUT_TR_F"}

\* readChar returns only pressed keys with a known key code.
Readable(e) == e.key.pressed /\ e.key.known

Ids(s) == {s[i].id : i \in DOMAIN s}

AllocFail == allocFails < MaxAllocFails /\ allocFails' = allocFails + 1

Init ==
  /\ HW!Init
  /\ drvPc = "idle" /\ booted = FALSE
  /\ driverList = FALSE /\ listedDrv = 0 /\ enabled = FALSE
  /\ hasBuf = FALSE /\ buf = << >>
  /\ streamList = FALSE /\ listedStream = 0 /\ irq = FALSE
  /\ layout \in Layouts /\ layer \in BOOLEAN /\ sizeWord \in SizeWords
  /\ mainPc = "wait"
  /\ nkeys = 0 /\ typed = << >> /\ got = << >> /\ cleared = {}
  /\ calls = 0 /\ regs = 0 /\ allocFails = 0

----------------------------------------------------------------------------
(* Driver.c and ps2kbd_init/enable/disable.                                *)

\* The registering thread returns from sys_driver_register.
Return == drvPc' = "idle" /\ booted' = TRUE

\* sys_driver_register up to its call of init: create driver_list on
\* first use, then list_add; either heap_alloc may fail, and the call
\* returns.  The caller registers a driver that is not registered.
sys_driver_register ==
  /\ drvPc = "idle" /\ listedDrv = 0
  /\ \/ regs = 0
     \/ "register" \in OtherCalls /\ booted /\ calls < MaxCalls
  /\ regs' = regs + 1
  /\ calls' = IF regs = 0 THEN calls ELSE calls + 1
  /\ \/ ~driverList /\ AllocFail /\ Return
        /\ UNCHANGED <<driverList, listedDrv>>
     \/ driverList' = TRUE /\ AllocFail /\ Return /\ UNCHANGED listedDrv
     \/ /\ driverList' = TRUE /\ listedDrv' = 1 /\ drvPc' = "init"
        /\ UNCHANGED <<booted, allocFails>>
  /\ UNCHANGED <<hw, enabled, hasBuf, buf, streamList, listedStream, irq,
                 layout, layer, sizeWord, mainPc, nkeys, typed, got, cleared>>

\* ps2kbd_init before the hardware: without the keyboard abstraction
\* layer it returns; it replaces ps2_event_buffer by a new buffer (NULL
\* when buffer_create fails, and it returns) and creates
\* keyboardInputStreamList if there is none.  Then the PS2Kbd sequence
\* starts with fresh locals.
ps2kbd_init ==
  /\ drvPc = "init"
  /\ \/ ~layer /\ drvPc' = "enable" /\ UNCHANGED <<hasBuf, buf, streamList, allocFails>>
     \/ /\ layer /\ AllocFail
        /\ hasBuf' = FALSE /\ buf' = << >> /\ drvPc' = "enable"
        /\ UNCHANGED streamList
     \/ /\ layer /\ hasBuf' = TRUE /\ buf' = << >>
        /\ \/ streamList' = TRUE /\ UNCHANGED allocFails
           \/ ~streamList /\ AllocFail /\ UNCHANGED streamList
        /\ drvPc' = "hw"
  /\ IF drvPc' = "hw"
     THEN pc' = 1 /\ status' = "running" /\ sub' = "write" /\ retry' = 0 /\ config' = 0
     ELSE UNCHANGED host
  /\ UNCHANGED <<inBuf, outq, ctrlConfig, expectCfg, scanning, set, expectParam,
                 bootConfig, faults, booted, driverList, listedDrv, enabled,
                 listedStream, irq, layout, layer, sizeWord, mainPc, nkeys,
                 typed, got, cleared, calls, regs>>

\* A step of ps2kbd_init's hardware sequence.
InitHardware ==
  /\ drvPc = "hw"
  /\ HW!HostNext
  /\ UNCHANGED drv

\* ps2kbd_init returns: IRQ1 was installed (steps 11-12) only on success.
InitReturn ==
  /\ drvPc = "hw" /\ status # "running"
  /\ drvPc' = "enable"
  /\ irq' = (irq \/ status = "done")
  /\ UNCHANGED <<hw, booted, driverList, listedDrv, enabled, hasBuf, buf,
                 streamList, listedStream, layout, layer, sizeWord, mainPc,
                 nkeys, typed, got, cleared, calls, regs, allocFails>>

\* ps2kbd_enable, which sys_driver_register calls whatever init did: it
\* returns without a buffer, a stream list, or when already enabled;
\* otherwise it lists the stream, ignoring list_add's result, and sets
\* enabled.
ps2kbd_enable ==
  /\ drvPc = "enable"
  /\ IF hasBuf /\ streamList /\ ~enabled
     THEN /\ enabled' = TRUE
          /\ \/ listedStream' = listedStream + 1 /\ UNCHANGED allocFails
             \/ AllocFail /\ UNCHANGED listedStream
     ELSE UNCHANGED <<enabled, listedStream, allocFails>>
  /\ Return
  /\ UNCHANGED <<hw, driverList, listedDrv, hasBuf, buf, streamList, irq,
                 layout, layer, sizeWord, mainPc, nkeys, typed, got, cleared,
                 calls, regs>>

\* Mutant: disable leaves the stream in keyboardInputStreamList.
ps2kbd_disableKeepsStream ==
  /\ enabled' = FALSE
  /\ UNCHANGED listedStream
  /\ buf' = << >>
  /\ cleared' = cleared \cup Ids(buf)

\* ps2kbd_disable: clear enabled, unlist the stream, clear the buffer.
\* IRQ1 stays unmasked.
ps2kbd_disable ==
  /\ enabled' = FALSE
  /\ listedStream' = IF streamList /\ listedStream > 0 THEN listedStream - 1
                     ELSE listedStream
  /\ buf' = << >>
  /\ cleared' = cleared \cup Ids(buf)

\* sys_driver_unregister: nothing without driver_list; disable if
\* enabled; then list_remove.
sys_driver_unregister ==
  /\ "unregister" \in OtherCalls /\ booted /\ drvPc = "idle" /\ calls < MaxCalls
  /\ calls' = calls + 1
  /\ driverList
  /\ IF enabled THEN ps2kbd_disable
     ELSE UNCHANGED <<enabled, listedStream, buf, cleared>>
  /\ listedDrv' = IF listedDrv > 0 THEN listedDrv - 1 ELSE 0
  /\ UNCHANGED <<hw, drvPc, booted, driverList, hasBuf, streamList, irq,
                 layout, layer, sizeWord, mainPc, nkeys, typed, got, regs,
                 allocFails>>

----------------------------------------------------------------------------
(* The interrupt handler and the stream.                                   *)

\* A key pressed while the keyboard scans and its clock runs: the keyboard
\* sends the scancode when the controller's output buffer is free.  Key
\* presses during ps2kbd_init's hardware sequence are PS2Kbd's "keypress"
\* fault, checked there; here nobody types while it runs.
KeyPress ==
  /\ scanning /\ HW!Clocked /\ outq = << >> /\ nkeys < MaxKeys
  /\ drvPc # "hw"
  /\ outq' = <<Scancode>>
  /\ UNCHANGED <<host, inBuf, ctrlConfig, expectCfg, scanning, set, expectParam,
                 bootConfig, faults, drv>>

\* IRQ1 is raised while the output buffer holds a byte, the IRQ1 entry is
\* installed and unmasked (ps2kbd_disable leaves it so) and config bit 0
\* is set; whose byte it is, a scancode or an answer ps2kbd_init waits
\* for, does not matter.  ps2kbd_handler returns without a buffer;
\* otherwise inb(0x60) takes the byte and, for a layout it knows, the
\* layout handler pushes the event the byte decodes to.
ps2kbd_handler(k) ==
  /\ irq /\ HW!Bit(ctrlConfig, 0) = 1 /\ outq # << >> /\ nkeys < MaxKeys
  /\ hasBuf
  /\ outq' = Tail(outq)
  /\ IF layout \in KnownLayouts
     THEN /\ nkeys' = nkeys + 1
          /\ buf' = Append(buf, [id |-> nkeys + 1, key |-> k])
          /\ typed' = IF k.pressed /\ k.known THEN Append(typed, nkeys + 1) ELSE typed
     ELSE UNCHANGED <<nkeys, buf, typed>>
  /\ UNCHANGED <<host, inBuf, ctrlConfig, expectCfg, scanning, set, expectParam,
                 bootConfig, faults, drvPc, booted, driverList, listedDrv,
                 enabled, hasBuf, streamList, listedStream, irq, layout, layer,
                 sizeWord, mainPc, got, cleared, calls, regs, allocFails>>

\* Mutant: the emptiness test is `list_size(...) <= 1`.
SizeReadsZeroOffByOne ==
  CASE sizeWord = "count"   -> Len(buf) <= 1
    [] sizeWord = "zero"    -> TRUE
    [] sizeWord = "nonzero" -> FALSE

\* list_size(ps2_event_buffer) == 0, read through the Buffer's third word.
SizeReadsZero ==
  CASE sizeWord = "count"   -> buf = << >>
    [] sizeWord = "zero"    -> TRUE
    [] sizeWord = "nonzero" -> FALSE

\* The position readChar's do-while loop stops at: the first readable
\* event, or 0 when buffer_pop runs dry.
Hit == IF \E i \in DOMAIN buf : Readable(buf[i])
       THEN Min({i \in DOMAIN buf : Readable(buf[i])}) ELSE 0

\* ps2kbd_stream_readChar: -1 without a buffer or when list_size says 0;
\* otherwise it pops events until a readable one (returning 1 with its
\* ascii) or until the buffer is empty (-1).
ReadOk == hasBuf /\ ~SizeReadsZero /\ Hit # 0

BufAfterRead ==
  IF ~hasBuf \/ SizeReadsZero THEN buf
  ELSE IF Hit = 0 THEN << >> ELSE SubSeq(buf, Hit + 1, Len(buf))

\* ps2kbd_stream_available: buffer_count, 0 without a buffer.
Available == IF hasBuf THEN Len(buf) ELSE 0

\* main.c: spin while the keyboard layer's available() is 0.  The layer
\* reaches ps2kbd's stream only while the stream is listed.
MainWait ==
  /\ booted /\ mainPc = "wait"
  /\ listedStream > 0 /\ Available > 0
  /\ mainPc' = "read"
  /\ UNCHANGED <<hw, drvPc, booted, driverList, listedDrv, enabled, hasBuf, buf,
                 streamList, listedStream, irq, layout, layer, sizeWord, nkeys,
                 typed, got, cleared, calls, regs, allocFails>>

\* main.c: readChar; on success with 'q' leave the loop.
MainRead ==
  /\ mainPc = "read"
  /\ IF listedStream > 0
     THEN /\ buf' = BufAfterRead
          /\ got' = IF ReadOk THEN Append(got, buf[Hit].id) ELSE got
          /\ mainPc' = IF ReadOk /\ buf[Hit].key.ascii = Quit THEN "exited" ELSE "wait"
     ELSE mainPc' = "wait" /\ UNCHANGED <<buf, got>>
  /\ UNCHANGED <<hw, drvPc, booted, driverList, listedDrv, enabled, hasBuf,
                 streamList, listedStream, irq, layout, layer, sizeWord, nkeys,
                 typed, cleared, calls, regs, allocFails>>

\* ps2kbd_stream_readString: -1 for maxLength 0 or no buffer; otherwise
\* `while (length < maxLength - 1)` calls readChar, which returns 1 on
\* success, and breaks on `!= 0`: after one readChar the string is empty.
ps2kbd_stream_readString(n) ==
  /\ "readString" \in OtherCalls /\ booted /\ calls < MaxCalls
  /\ calls' = calls + 1
  /\ buf' = IF n > 1 /\ hasBuf THEN BufAfterRead ELSE buf
  /\ UNCHANGED <<hw, drvPc, booted, driverList, listedDrv, enabled, hasBuf,
                 streamList, listedStream, irq, layout, layer, sizeWord, mainPc,
                 nkeys, typed, got, cleared, regs, allocFails>>

\* ps2kbd_stream_readBuffer: -1 for size 0 or no buffer; otherwise the
\* same loop with `bytesRead < size`.
ps2kbd_stream_readBuffer(n) ==
  /\ "readBuffer" \in OtherCalls /\ booted /\ calls < MaxCalls
  /\ calls' = calls + 1
  /\ buf' = IF n > 0 /\ hasBuf THEN BufAfterRead ELSE buf
  /\ UNCHANGED <<hw, drvPc, booted, driverList, listedDrv, enabled, hasBuf,
                 streamList, listedStream, irq, layout, layer, sizeWord, mainPc,
                 nkeys, typed, got, cleared, regs, allocFails>>

----------------------------------------------------------------------------

Device == HW!DeviceNext /\ UNCHANGED drv

Boot == regs = 0 /\ sys_driver_register
Registering == \/ ps2kbd_init \/ InitHardware \/ InitReturn \/ ps2kbd_enable
Main == MainWait \/ MainRead

Next ==
  \/ sys_driver_register \/ Registering \/ Device \/ Main
  \/ sys_driver_unregister
  \/ KeyPress \/ \E k \in Keys : ps2kbd_handler(k)
  \/ \E n \in Lengths : ps2kbd_stream_readString(n) \/ ps2kbd_stream_readBuffer(n)

\* boot.c calls sys_driver_register and the registering thread runs to its
\* end; the controller and keyboard take every byte (as in PS2Kbd); main
\* spins on available() and reads.  Key presses and other callers are not
\* assumed to happen.
Fairness ==
  /\ WF_vars(Boot) /\ WF_vars(Registering) /\ WF_vars(Device) /\ WF_vars(Main)

Spec == Init /\ [][Next]_vars /\ Fairness

----------------------------------------------------------------------------
(* Properties.                                                             *)

TypeOK ==
  /\ HW!TypeOK
  /\ drvPc \in {"idle", "init", "hw", "enable"}
  /\ listedDrv \in 0..1 /\ listedStream \in 0..MaxCalls + 1
  /\ buf \in Seq([id : 1..MaxKeys, key : Keys])
  /\ mainPc \in {"wait", "read", "exited"}
  /\ typed \in Seq(1..MaxKeys) /\ got \in Seq(1..MaxKeys) /\ cleared \subseteq 1..MaxKeys
  /\ nkeys \in 0..MaxKeys /\ calls \in 0..MaxCalls /\ allocFails \in 0..MaxAllocFails

\* The hardware guarantees of ps2kbd_init hold in place, whatever runs
\* around it (PS2Kbd.tla states them).
InitSuccessImpliesReady == HW!InitSuccessImpliesReady

\* Across sys_driver_register, ps2kbd_enable, sys_driver_unregister and
\* ps2kbd_disable, the PS/2 stream is in keyboardInputStreamList at most
\* once and only while the driver is enabled, and an enabled driver is in
\* driver_list.
RegistryConsistent ==
  /\ listedStream <= (IF enabled THEN 1 ELSE 0)
  /\ enabled => listedDrv = 1

\* ps2kbd_init returns whatever the keyboard answers, so
\* sys_driver_register does.
InitReturns == drvPc = "hw" ~> drvPc # "hw"

QuitPending(i) ==
  \E j \in DOMAIN buf : buf[j].id = i /\ Readable(buf[j]) /\ buf[j].key.ascii = Quit

\* A pressed 'q' in the event buffer makes main.c leave its loop, unless
\* another reader takes it first or the stream is unlisted: main's
\* available()/readChar loop does not starve on the buffer.
QuitHonoured ==
  \A i \in 1..MaxKeys :
    QuitPending(i) ~> (mainPc = "exited" \/ i \notin Ids(buf) \/ listedStream = 0)

\* Every pressed, known key the handler put in the buffer is read by some
\* caller, still buffered, or discarded by ps2kbd_disable: no stream call
\* takes a key from the buffer without handing it over.
KeysDelivered == ToSet(typed) \subseteq ToSet(got) \cup cleared \cup Ids(buf)

=============================================================================
