------------------------------ MODULE PciConfig ------------------------------
(***************************************************************************)
(* The configuration-space accessors of pci.c applied to one function:    *)
(* the 16-bit read and read-modify-write of the command register that the *)
(* six command helpers make, and pci_get_bar_size's write-ones-and-restore *)
(* probe of a BAR.                                                         *)
(*                                                                         *)
(* The device is the other actor.  What it does with a config write is    *)
(* the PCI Local Bus rule, not code of this repository: the command       *)
(* register keeps the bits pci.h names (0..10); in the status register,   *)
(* the upper half of dword 0x04, the error bits 8 and 11..15 are          *)
(* write-1-to-clear and the rest is read-only; a BAR keeps the address     *)
(* bits its size decodes and reads its type bits back unchanged; the     *)
(* upper dword of a 64-bit BAR ("hi") keeps every bit; an               *)
(* unimplemented BAR reads 0.  The device may set a status error bit at   *)
(* any time (a master abort, a parity error), in particular between the   *)
(* config reads and writes of one helper.                                 *)
(*                                                                         *)
(* The dword at 0x04 is kept as its two 16-bit halves <<command, status>> *)
(* so that it stays within TLC's integers; pci_config_read16 and the       *)
(* merge of pci_config_write16 pick the half `(offset & 2) * 8` selects.   *)
(* BARs are BarBits wide instead of 32.                                    *)
(***************************************************************************)
EXTENDS Integers, Sequences, Bitwise

CONSTANTS BarBits,     \* width of a BAR in the model
          Bars,        \* per BAR 0..5: [kind, size, type, base] of the device;
                       \* kind "mem", "io", "hi" (upper dword) or "none"
          CmdInit,     \* the command register as firmware left it
          StatusInit,  \* the status register at boot, errors pending included
          ErrorBits,   \* the status error bits the device may raise
          MaxPciCalls  \* bound on the helper and sizing calls of a behaviour

PCI_COMMAND == 4
PCI_BAR_TYPE_IO == 1
PCI_BAR_MEM_TYPE_64 == 4
PCI_BAR_MEM_PREFETCH == 8
BarNums == 0..5

\* The command helpers, as the bits each one sets and clears
\* (PCI_COMMAND_IO | MEMORY | MASTER is 7, MASTER 4, INTX_DISABLE 1024).
Helpers == [enable_device |-> [set |-> 7, clr |-> 0],
            disable_device |-> [set |-> 0, clr |-> 7],
            enable_bus_mastering |-> [set |-> 4, clr |-> 0],
            disable_bus_mastering |-> [set |-> 0, clr |-> 4],
            enable_interrupts |-> [set |-> 0, clr |-> 1024],
            disable_interrupts |-> [set |-> 1024, clr |-> 0]]

\* Device side: the writable command bits, the write-1-to-clear status bits.
CommandWritable == 2047
StatusRW1C == 63744

Ones == 2^BarBits - 1
Clear(x, m) == x - (x & m)

VARIABLES cmd, status,  \* the command and status registers
          bar,          \* per BAR, the address bits it holds
          dev,          \* the pci_device_t fields read at scan: command, bar[]
          pc,           \* "idle", or where a helper is: "read", "write"
          helper,       \* the helper running, or last run
          command,      \* the helper's local `command`
          data,         \* pci_config_write16's local `data`, as two halves
          raised,       \* the error bits the device has signalled
          sized,        \* the argument and result of the last pci_get_bar_size
          pcalls,       \* calls made
          report        \* the BAR lines the last pci_print_device_info printed

pvars == <<cmd, status, bar, dev, pc, helper, command, data, raised, sized, pcalls, report>>

\* What the device returns for a read of the dword at 0x04 and of a BAR.
Dword4 == <<cmd, status>>
WMask(n) == CASE Bars[n].kind = "none" -> 0
             [] Bars[n].kind = "hi" -> Ones
             [] OTHER -> Ones - (Bars[n].size - 1)
ReadBar(b, n) == IF Bars[n].kind = "none" THEN 0 ELSE b[n] + Bars[n].type

\* What the device does with a write of the dword at 0x04 and of a BAR.
Write4(d) ==
  /\ cmd' = d[1] & CommandWritable
  /\ status' = Clear(status, d[2] & StatusRW1C)
WriteBar(b, n, v) == [b EXCEPT ![n] = v & WMask(n)]

\* pci_config_read16: the half of the dword that `offset & 2` selects.
pci_config_read16(d, off) == IF (off & 2) = 0 THEN d[1] ELSE d[2]

\* Mutant: the merge replaces the other half.
MergeOtherHalf(d, off, v) == IF (off & 2) = 0 THEN <<d[1], v>> ELSE <<v, d[2]>>

\* pci_config_write16's merge: clear the 16 bits at (offset & 2) * 8 of the
\* dword it read and put value there.
Merge16(d, off, v) == IF (off & 2) = 0 THEN <<v, d[2]>> ELSE <<d[1], v>>

NoSize == [num |-> -1, ret |-> 0]
NoReport == <<"none">>

\* pci_create_device reads the command register and the six BARs.
Init ==
  /\ cmd = CmdInit
  /\ status = StatusInit
  /\ bar = [n \in BarNums |-> Bars[n].base & WMask(n)]
  /\ dev = [command |-> pci_config_read16(<<CmdInit, StatusInit>>, PCI_COMMAND),
            bar |-> [n \in BarNums |-> ReadBar(bar, n)]]
  /\ pc = "idle"
  /\ helper = "none"
  /\ command = 0
  /\ data = <<0, 0>>
  /\ raised = {b \in ErrorBits : (StatusInit & b) # 0}
  /\ sized = NoSize
  /\ pcalls = 0
  /\ report = NoReport

\* A command helper's first line:
\* `command = pci_config_read16(..., PCI_COMMAND)` with its bits changed.
HelperRead(h) ==
  /\ pc = "idle" /\ pcalls < MaxPciCalls
  /\ command' = Clear(pci_config_read16(Dword4, PCI_COMMAND), Helpers[h].clr) | Helpers[h].set
  /\ helper' = h /\ pc' = "read" /\ pcalls' = pcalls + 1
  /\ UNCHANGED <<cmd, status, bar, dev, data, raised, sized, report>>

\* pci_config_write16: read the whole dword at offset & 0xFC and merge.
Write16Read ==
  /\ pc = "read"
  /\ data' = Merge16(Dword4, PCI_COMMAND, command)
  /\ pc' = "write"
  /\ UNCHANGED <<cmd, status, bar, dev, helper, command, raised, sized, pcalls, report>>

\* ... then write the merged dword back; the helper stores dev->command.
Write16Write ==
  /\ pc = "write"
  /\ Write4(data)
  /\ dev' = [dev EXCEPT !.command = command]
  /\ pc' = "idle"
  /\ UNCHANGED <<bar, helper, command, data, raised, sized, pcalls, report>>

\* `(~size) + 1` in BarBits bits.
Negate(x) == (Ones - x + 1) % (Ones + 1)

\* Mutant: the memory mask for every BAR.
BarSizeMemMask(original, size) == IF size = 0 THEN 0 ELSE Negate(size & (Ones - 15))

\* The size computation of pci_get_bar_size from the original value and
\* the value read back after writing all ones.
BarSize(original, size) ==
  IF size = 0 THEN 0
  ELSE IF (original & PCI_BAR_TYPE_IO) = 1 THEN Negate(size & (Ones - 3))
  ELSE Negate(size & (Ones - 15))

\* The body of pci_get_bar_size on the BARs b: read the BAR, write all
\* ones, read the size mask, write the original back; the BARs after it
\* and the value returned.
Probe(b, n) ==
  IF n >= 6 THEN <<b, 0>>
  ELSE LET original == ReadBar(b, n)
           ones     == WriteBar(b, n, Ones)
           size     == ReadBar(ones, n)
       IN <<WriteBar(ones, n, original), BarSize(original, size)>>

\* pci_get_bar_size as a call of its own.  No other code touches the BAR
\* meanwhile.
pci_get_bar_size(n) ==
  /\ pc = "idle" /\ pcalls < MaxPciCalls
  /\ pcalls' = pcalls + 1
  /\ bar' = Probe(bar, n)[1]
  /\ sized' = [num |-> n, ret |-> Probe(bar, n)[2]]
  /\ UNCHANGED <<cmd, status, dev, pc, helper, command, data, raised, report>>

\* The decoders of the cached dev->bar[] (n < 6 in every call made).
pci_get_bar_address(n) ==
  IF (dev.bar[n] & PCI_BAR_TYPE_IO) = 1 THEN dev.bar[n] & (Ones - 3) ELSE dev.bar[n] & (Ones - 15)
pci_bar_is_io(n) == (dev.bar[n] & 1) = PCI_BAR_TYPE_IO
pci_bar_is_64bit(n) == (dev.bar[n] & 1) = 0 /\ (dev.bar[n] & 6) = PCI_BAR_MEM_TYPE_64
pci_bar_is_prefetchable(n) == (dev.bar[n] & 1) = 0 /\ (dev.bar[n] & PCI_BAR_MEM_PREFETCH) # 0

RECURSIVE PrintBars(_, _)

\* Mutant: the loop does not skip the upper dword of a 64-bit BAR.
PrintBarsNoSkip(b, i) ==
  IF i >= 6 THEN <<b, << >>>>
  ELSE IF dev.bar[i] = 0 THEN PrintBars(b, i + 1)
  ELSE LET pr == Probe(b, i)
           line == [num |-> i, io |-> pci_bar_is_io(i), addr |-> pci_get_bar_address(i),
                    size |-> pr[2], is64 |-> ~pci_bar_is_io(i) /\ pci_bar_is_64bit(i),
                    pref |-> ~pci_bar_is_io(i) /\ pci_bar_is_prefetchable(i)]
           rest == PrintBars(pr[1], i + 1)
       IN <<rest[1], <<line>> \o rest[2]>>

\* The BAR loop of pci_print_device_info from BAR i on the BARs b: a BAR
\* that reads non-zero is printed with its address, the size a probe of
\* the device returns and, for memory, its width and prefetchability; the
\* BAR after a 64-bit one is skipped.  The BARs after it, and the lines.
PrintBars(b, i) ==
  IF i >= 6 THEN <<b, << >>>>
  ELSE IF dev.bar[i] = 0 THEN PrintBars(b, i + 1)
  ELSE LET pr == Probe(b, i)
           mem64 == ~pci_bar_is_io(i) /\ pci_bar_is_64bit(i)
           line == [num |-> i, io |-> pci_bar_is_io(i), addr |-> pci_get_bar_address(i),
                    size |-> pr[2], is64 |-> mem64,
                    pref |-> ~pci_bar_is_io(i) /\ pci_bar_is_prefetchable(i)]
           rest == PrintBars(pr[1], IF mem64 THEN i + 2 ELSE i + 1)
       IN <<rest[1], <<line>> \o rest[2]>>

\* pci_print_device_info of a normal-header device; the kprintf text is
\* left out, its BAR lines are kept.
pci_print_device_info ==
  /\ pc = "idle" /\ pcalls < MaxPciCalls
  /\ pcalls' = pcalls + 1
  /\ bar' = PrintBars(bar, 0)[1]
  /\ report' = PrintBars(bar, 0)[2]
  /\ UNCHANGED <<cmd, status, dev, pc, helper, command, data, raised, sized>>

\* The device signals an error: it sets a status error bit.
Raise ==
  /\ \E b \in ErrorBits : status' = status | b /\ raised' = raised \cup {b}
  /\ UNCHANGED <<cmd, bar, dev, pc, helper, command, data, sized, pcalls, report>>

Next ==
  \/ \E h \in DOMAIN Helpers : HelperRead(h)
  \/ Write16Read
  \/ Write16Write
  \/ \E n \in 0..6 : pci_get_bar_size(n)
  \/ pci_print_device_info
  \/ Raise

Spec == Init /\ [][Next]_pvars

-----------------------------------------------------------------------------
TypeOK ==
  /\ cmd \in 0..65535 /\ status \in 0..65535 /\ command \in 0..65535
  /\ bar \in [BarNums -> 0..Ones]
  /\ pc \in {"idle", "read", "write"}
  /\ helper \in DOMAIN Helpers \cup {"none"}
  /\ data \in (0..65535) \X (0..65535)
  /\ raised \subseteq ErrorBits
  /\ pcalls \in 0..MaxPciCalls
  /\ report = NoReport \/ report \in Seq([num : BarNums, io : BOOLEAN, addr : 0..Ones,
                                         size : 0..Ones + 1, is64 : BOOLEAN, pref : BOOLEAN])

\* After a command helper returns, the command register holds what the
\* helper read with its bits set or cleared, and dev->command agrees with
\* it: the read-modify-write of pci_config_write16 put the value in the
\* command half of the dword, with device errors arriving in between.
CommandWriteExact ==
  pc = "idle" /\ helper # "none" =>
    /\ cmd = command
    /\ dev.command = cmd

\* pci_get_bar_size leaves every BAR reading what pci_create_device cached
\* in dev->bar, and the size it returned is the size the BAR decodes (0 for
\* an unimplemented BAR and for a BAR number of 6 or more).  The upper
\* dword of a 64-bit BAR has no size of its own: nothing is claimed of it.
BarSizingExact ==
  /\ \A n \in BarNums : ReadBar(bar, n) = dev.bar[n]
  /\ sized # NoSize /\ (sized.num >= 6 \/ Bars[sized.num].kind # "hi") =>
       sized.ret = IF sized.num >= 6 \/ Bars[sized.num].kind = "none" THEN 0
                   ELSE Bars[sized.num].size

\* The BARs a device decodes, in order: implemented ones that are not the
\* upper dword of a 64-bit BAR, with what a driver must know of each.
ExpectedReport ==
  LET shown == SelectSeq([i \in 1..6 |-> i - 1],
                         LAMBDA n : Bars[n].kind \in {"mem", "io"})
      entry(n) == [num |-> n, io |-> Bars[n].kind = "io", addr |-> Bars[n].base,
                   size |-> Bars[n].size,
                   is64 |-> Bars[n].kind = "mem" /\ (Bars[n].type & 6) = 4,
                   pref |-> Bars[n].kind = "mem" /\ (Bars[n].type & 8) # 0]
  IN [k \in 1..Len(shown) |-> entry(shown[k])]

\* pci_print_device_info prints one line per BAR the device decodes, and
\* no line for the upper dword of a 64-bit BAR or an unimplemented one,
\* each with its base address (the low dword's), the size its probe of
\* the live device returned, and its type; the probes leave the BARs as
\* they were (BarSizingExact).
BarReportExact == report # NoReport => report = ExpectedReport

\* No code of pci.c acknowledges a device error, so an error bit the device
\* set stays set: a helper changes the command register and leaves the
\* status register alone.
StatusErrorsKept == \A b \in raised : (status & b) # 0
=============================================================================
