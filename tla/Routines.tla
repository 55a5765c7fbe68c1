------------------------------ MODULE Routines ------------------------------
(***************************************************************************)
(* The kernel's parts that share no state with one another, side by      *)
(* side: memory.c (Mem), convert.c (Convert), multiboot2_parse            *)
(* (Multiboot2), gfx.c (Gfx), the UART with kprintf (Uart) and the x86    *)
(* set-up of intel86/ (Intel86), and pci.c's config-space accessors      *)
(* (PciConfig).  Each behaviour exercises one of them: one call of Mem or *)
(* Convert, the parse, PCI helper and BAR-sizing calls with device        *)
(* errors in between, gfx_init followed by an                             *)
(* optional gfx_set_font and one drawing call, a session of UART writes   *)
(* from main and the keyboard handler, or a few PIC, IDT and paging       *)
(* calls.  Inputs come from each module's constants, and the properties   *)
(* are each module's own.                                                  *)
(***************************************************************************)
CONSTANTS WordSize, Addr, Mems, Ptrs, Lens, Ints, Patterns, Alignments, PtrWidth,
          IntWidth, LongLongWidth, IntArgs, LongLongArgs, UIntArgs, ULongLongArgs,
          PtrArgs, Bases, Layouts,
          Infos,
          FbTags, FbLen, Color, Points, Rects, Radii, CopySizes, Texts, Fonts, GlyphStride,
          FifoDepth, Chars, Msgs, HandlerMsg, MaxCalls, MaxIrqs,
          PicIds, PicInit, IdtSize, Gates, IsrDefault, Entries, PageSize, TableBase, MaxSetup,
          BarBits, Bars, CmdInit, StatusInit, ErrorBits, MaxPciCalls

VARIABLES pre, mem, call, ret,   \* Mem
          conv, out, idx, count, \* Convert
          info, mb2, walk,       \* Multiboot2
          fbtag, screen, font, fb, gpre, gcall, phase, \* Gfx
          initialized, fcr, fifo, line, ctx, accepted, calls, irqs, \* Uart
          imr, idt, pd, pt, paging, lastPic, installed, setups,    \* Intel86
          cmd, status, bar, dev, pc, helper, command, data, raised, sized, pcalls, report \* PciConfig

M == INSTANCE Mem
CV == INSTANCE Convert
MB == INSTANCE Multiboot2
G == INSTANCE Gfx
U == INSTANCE Uart
X == INSTANCE Intel86
P == INSTANCE PciConfig

mvars == <<pre, mem, call, ret>>
cvars == <<conv, out, idx, count>>
mbvars == <<info, mb2, walk>>
gvars == <<fbtag, screen, font, fb, gpre, gcall, phase>>
uvars == <<initialized, fcr, fifo, line, ctx, accepted, calls, irqs>>
xvars == <<imr, idt, pd, pt, paging, lastPic, installed, setups>>
pvars == <<cmd, status, bar, dev, pc, helper, command, data, raised, sized, pcalls, report>>
vars == <<mvars, cvars, mbvars, gvars, uvars, xvars, pvars>>

Init == M!Init /\ CV!Init /\ MB!Init /\ G!Init /\ U!Init /\ X!Init /\ P!Init

\* No routine of Mem, Convert or Multiboot2 has been called.
Idle == call.op = "none" /\ conv.op = "none" /\ walk = "idle"

\* The UART, the x86 set-up and the PCI accessors have not been called,
\* and the device has raised no error.
UQuiet == calls = 0 /\ irqs = 0
XQuiet == setups = 0
PQuiet == pcalls = 0 /\ status = StatusInit

Next ==
  \/ /\ Idle /\ phase = "boot" /\ UQuiet /\ XQuiet /\ PQuiet
     /\ \/ M!Next /\ UNCHANGED <<cvars, mbvars, gvars, uvars, xvars, pvars>>
        \/ CV!Next /\ UNCHANGED <<mvars, mbvars, gvars, uvars, xvars, pvars>>
        \/ MB!multiboot2_parse /\ UNCHANGED <<mvars, cvars, gvars, uvars, xvars, pvars>>
  \/ Idle /\ UQuiet /\ XQuiet /\ PQuiet /\ G!Next /\ UNCHANGED <<mvars, cvars, mbvars, uvars, xvars, pvars>>
  \/ Idle /\ phase = "boot" /\ XQuiet /\ PQuiet /\ U!Next
     /\ UNCHANGED <<mvars, cvars, mbvars, gvars, xvars, pvars>>
  \/ Idle /\ phase = "boot" /\ UQuiet /\ PQuiet /\ X!Next
     /\ UNCHANGED <<mvars, cvars, mbvars, gvars, uvars, pvars>>
  \/ Idle /\ phase = "boot" /\ UQuiet /\ XQuiet /\ P!Next
     /\ UNCHANGED <<mvars, cvars, mbvars, gvars, uvars, xvars>>

\* The UART's steps, as steps of the whole (the others are not running then).
UStep(c) == Idle /\ phase = "boot" /\ XQuiet /\ PQuiet /\ U!Step(c)
            /\ UNCHANGED <<mvars, cvars, mbvars, gvars, xvars, pvars>>
UTransmit == Idle /\ phase = "boot" /\ XQuiet /\ PQuiet /\ U!Transmit
             /\ UNCHANGED <<mvars, cvars, mbvars, gvars, xvars, pvars>>

\* Only the UART's liveness is stated: the CPU keeps running the context
\* that holds it and the 16550 keeps shifting bytes out.
Spec == Init /\ [][Next]_vars /\ WF_vars(UTransmit) /\ \A c \in U!Ctxs : WF_vars(UStep(c))

-----------------------------------------------------------------------------
\* Every variable of the four modules keeps its type.
TypeOK == M!TypeOK /\ CV!TypeOK /\ MB!TypeOK /\ G!TypeOK /\ U!TypeOK /\ X!TypeOK /\ P!TypeOK

\* memmove, fast_memmove and safe_memmove copy correctly whatever the overlap.
MoveCorrect == M!MoveCorrect

\* memcpy, fast_memcpy, memalign_copy, safe_memcpy, memccpy and memswap
\* copy exactly what they promise on disjoint regions, for every alignment.
CopyCorrect == M!CopyCorrect

\* memset, fast_memset, secure_zero and the pattern fill/check write and
\* compare the bytes they promise.
FillCorrect == M!FillCorrect

\* memcmp, memchr and memrchr find the first / last matching byte.
SearchCorrect == M!SearchCorrect

\* is_aligned, align_ptr and is_valid_memory_range in uintptr_t arithmetic.
AddressCorrect == M!AddressCorrect

\* The integer conversions of convert.c write the base-b representation.
ConversionCorrect == CV!ConversionCorrect

\* numDigits and numDigitsUnsigned count what the conversions write.
NumDigitsCorrect == CV!NumDigitsCorrect

\* multiboot2_parse stops at END and keeps the first tag of each type.
ParseRecordsFirst == MB!ParseRecordsFirst

\* No drawing call changes a byte outside the screen's pixels.
PaintInsideScreen == G!PaintInsideScreen

\* No store of gfx_draw_pixel reaches past the framebuffer's end.
StoresInsideFramebuffer == G!StoresInsideFramebuffer

\* Pixel, rectangle, clear and 8x8 text calls colour exactly their pixels.
DrawExact == G!DrawExact

\* Lines stay in their box from their start; circles stay on their ring.
ShapesOnTarget == G!ShapesOnTarget

\* Every char uart0_write_char accepted, from main or from the keyboard
\* handler that interrupts it between poll and write, reaches the 16550 in
\* order with '\n' sent as LF CR, and nothing is lost or repeated.
OutputFaithful == U!OutputFaithful

\* Every UART write call returns: its poll loops end.
CallsReturn == U!CallsReturn

\* Each IRQ line is masked exactly when the last pic_mask / pic_unmask
\* naming it (or the firmware) masked it.
PicMaskTracksCalls == X!PicMaskTracksCalls

\* Each IDT gate decodes to the handler address last installed there.
IdtGatesHoldBase == X!IdtGatesHoldBase

\* After intel86_paging_init, every virtual address maps to itself.
PagingIdentity == X!PagingIdentity

\* A PCI command helper leaves the command register, and dev->command,
\* at the value it computed, device errors arriving meanwhile.
CommandWriteExact == P!CommandWriteExact

\* pci_get_bar_size restores every BAR and returns its decode size.
BarSizingExact == P!BarSizingExact

\* pci_print_device_info prints exactly the BARs the device decodes.
BarReportExact == P!BarReportExact
=============================================================================
