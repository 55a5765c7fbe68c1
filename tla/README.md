# TLA+ models of AtomOS

AtomOS is a small i386 kernel. This directory holds TLA+ models of its parts
that have state and control worth checking: the kernel heap, the byte
routines of `memory.c`, the integer conversions of `convert.c`, the
Multiboot2 tag walk, the graphics routines of `gfx.c`, the COM1 UART and
kprintf, the PIC masks, IDT and identity paging, the linked list, PCI
enumeration, driver matching and configuration-space access, and the PS/2 keyboard from the controller
handshake to the reader in `main.c`. Each module translates the C functions it names; `PROJECT.json`
maps every definition to the lines it models and lists the runs, mutants,
findings and hazards.

## Inventory

| Component | Source | Modules | Status |
|---|---|---|---|
| Kernel heap | `memory/heap.c`, `include/memory/heap.h` | `Heap`, `MCHeapListPCI`, `MCHeap` | modelled |
| memory.c: byte routines, kmalloc/kfree | `memory/memory.c` | `Mem`, composed in `Routines` (kmalloc/kfree as `Heap` alloc/free) | modelled |
| Boot | `boot/boot.c` | `HeapCreate` in `Heap`, the registration in `KbdDriver` | partly |
| Linked list | `list.c`, `include/list.h` | `List`, `ListSpec`, `MCHeapListPCI`, `MCList` | modelled |
| Driver registry | `driver/Driver.c` | `KbdDriver` | modelled |
| PS/2 keyboard | `driver/ps2kbd/ps2kbd.c` | `PS2Kbd` (init handshake), `KbdDriver` (the rest) | modelled |
| Kernel main | `main.c` | the reader process of `KbdDriver` | partly |
| PCI | `pci/pci.c`, `include/pci/pci.h` | `PCI` with the machines of `PCIMachines`, composed in `MCHeapListPCI` and in `MCPCI` (enumeration, drivers); `PciConfig`, `MCPciConfig`, composed in `Routines` (config access, command helpers, BAR sizing and printing) | partly |
| Multiboot2 | `boot/multiboot2.c` | `Multiboot2`, composed in `Routines` | modelled |
| Number/string conversion | `convert.c` | `Convert`, composed in `Routines` | partly (no ftoa/dtoa) |
| Graphics | `graphics/gfx.c` | `Gfx`, composed in `Routines` | modelled |
| UART and print | `io/uart.c`, `print.c` | `Uart`, composed in `Routines` | modelled |
| x86 paging, IDT, PIC | `intel86/paging.c`, `idt.c`, `pic.c` | `Intel86`, composed in `Routines` | modelled |
| Font data | `graphics/font.c` | none (constants) | not modelled |

How the parts interact: lists, PCI devices and key events live on the kernel
heap. `boot.c` creates the heap, scans PCI, and registers the keyboard
driver. Before the heap, `multiboot2_parse` records the loader's tags;
`__kernelHeap_setup` needs `mb2_mmap` and `gfx_init` builds `screen_buffer`
from `mb2_framebuffer`, on which `main.c` draws its text. Driver.c keeps
drivers in a `List`. The keyboard's IRQ handler fills
an event buffer, and `main.c` drains it through the keyboard stream. Both
the handler and main print through `currentOutputStream`, the UART, so the
handler's printf can land between two port accesses of main's. PCI drivers
reach their device through the config-space accessors of `pci.c`.

## Modules

**Heap** (`Heap.tla`). This models the header chain, not the bytes.
- `blocks` maps each reachable header address to `[size, next, free, magic]`.
- `heap` is `heap_t`.
- `size_t` and pointers are `Width` bits, and every sum goes through `Wrap`.
- `AllocOp`, `FreeOp`, `ReallocOp`, `CallocOp` and `AllocAlignedOp` each
  translate a whole C function: early returns, best-fit scans (as
  `RECURSIVE` walks), split, coalescing and counter updates.
- The actions apply these to callers' requests. `live` records who holds
  which allocation. `HeapFreeStray` frees a pointer nobody holds.
  `HeapDoubleFree`, used only in `SpecDoubleFree`, frees one its owner gave
  up.

**List and ListSpec.** `List.tla` models `list.c` over node addresses.
- `list` is the header (NULL or `[head, tail, size]`).
- `next` and `data` are the node fields, and `held` is the set of nodes
  allocated and not freed.
- `heap_alloc` is abstracted to its contract: a fresh node, or NULL at any
  time.
- `ListSpec.tla` is the promise without pointers: a sequence, 0-based indices,
  and 0/-1 results. `List` implements it through
  `INSTANCE ListSpec WITH exists <- list # NULL, seq <- Contents`.
- `call` is a history variable naming the call of each step, so a step is
  matched against the same call in the abstract list.

**PS2Kbd** (`PS2Kbd.tla`). This models `ps2kbd_init`'s handshake byte by byte.
- The host runs the init sequence as a program table `Prog`. Each entry is a
  call with the step that a failure continues at.
- The 8042's input buffer is one byte (`inBuf`), and its output buffer is a
  FIFO (`outq`).
- The controller executes 0xAE/0x20/0x60. The keyboard acknowledges, asks for
  a resend, or reports an error, and has a parameter state for 0xF0.
- `ps2_kbd_send_command`'s three attempts, the RESEND retry and the 0xFF a
  timeout returns are all kept.
- Faults are budgeted by `MaxFaults`. Their kinds are `FaultKinds`: keyboard
  errors, early timeouts that race a late answer, and key presses during
  init.

**KbdDriver** (`KbdDriver.tla`). This composes the keyboard from
registration to the reader, and instantiates `PS2Kbd` for the hardware.
- The registering thread (`drvPc`) runs `sys_driver_register`: it creates
  `driver_list` lazily and calls `list_add`. Then it runs `ps2kbd_init`'s
  prelude: the abstraction-layer check, creating the event buffer and the
  stream list. Next come `PS2Kbd`'s host steps (`InitHardware`), then
  `InitReturn`, which installs IRQ1 only on success. Last comes
  `ps2kbd_enable`, which `sys_driver_register` calls whatever init did.
- `KeyPress` is the keyboard sending a scancode while it scans and the
  output buffer is free. Nobody types during `ps2kbd_init`'s hardware
  sequence here; PS2Kbd's "keypress" fault covers that case.
- `ps2kbd_handler(k)` is IRQ1. It runs while a byte is in the output
  buffer, IRQ1 is installed and config bit 0 is set. Without a buffer it
  returns. Otherwise `inb(0x60)` takes the byte, and with a known layout
  the handler appends an event `[id, key]`. The byte may be an answer that
  a second `ps2kbd_init` waits for: `ps2kbd_disable` leaves IRQ1 unmasked.
- `main.c` is the process `mainPc`. It waits while `available()` is 0, then
  runs `readChar`, and leaves on a pressed 'q'.
- Other kernel code may call `sys_driver_unregister`, register again,
  `readString` and `readBuffer` (`OtherCalls`).
- `readChar` is atomic. An interrupt inside its loop only appends behind the
  events it pops, so it has the effect of an interrupt before or after.
- Abstractions:
  - The Buffer type and the layout handlers are not in the repository. A
    buffer is a sequence, and a list that holds one kind of element is a
    count.
  - `readChar` calls `list_size` on a `Buffer*`, so it reads the Buffer's
    third word. `sizeWord` chooses what that word is.
  - Every heap allocation may fail, up to `MaxAllocFails` times.
- History variables: `typed` holds the ids of pressed, known keys buffered,
  `got` the ids `main` read, and `cleared` those `ps2kbd_disable` discarded.

**PCI** (`PCI.tla`). This models `pci_init`'s recursive scan as an explicit
call stack of frames.
- The frames are bus, device (with its function loop), function (create
  then match, with a cursor over the drivers) and register.
- The topology is a constant chosen at Init. An empty slot reads vendor
  0xFFFF, and a bridge (class 6, subclass 4) pushes its secondary bus.
- The fallback scan of buses 1..3 runs when bus 0 yields nothing.
- `kmalloc` of a device may fail.
- Probe succeeds or fails nondeterministically.
- `pci_register_driver` matches the listed devices, and
  `pci_unregister_driver` calls remove and unlinks the driver.
- History variables: `offered`, `claims` and `lastRemove`.

**Mem** (`Mem.tla`). This models the pure routines of `memory.c` (memcpy,
memmove, memset, memcmp, memchr, memrchr, memccpy, memswap, the fast_* and
aligned variants, align_ptr, the pattern and safe_* routines) as operators
over a byte store.
- Their word and byte loops are `RECURSIVE` operators.
- A word store reads the whole source unit, then writes it, as a 4- or
  8-byte load and store does.
- Each behaviour is one call from one memory, compared with reference
  definitions (the bytes a move must produce, the first/last match, the
  lexicographic comparison).

**Convert** (`Convert.tla`). The integer conversions of `convert.c`.
- A character is its byte; a buffer is the bytes written before the NUL.
- `DigitLoop` is the do-while `digits[value % base]; value /= base`, with
  C's truncating `/` and `%` (`CDiv`, `CMod`); `Swap` is `reverseString`'s
  loop; `SignedToA` is itoa/ltoa/lltoa (negation only in base 10, through
  the type's two's-complement `Wrap`), `UnsignedToA` utoa/ultoa, `ulltoa`
  the cast to unsigned long, `ptoa` the `& 0xF` / `>> 4` loop, and
  `numDigits` / `numDigitsUnsigned` the counting loops.
- A negative index into `digits` reads a byte from a layout of `.rodata`
  chosen among `Layouts`; the indices read are kept in `idx`.
- `ftoa` and `dtoa` are not modelled (floating point).

**Multiboot2** (`Multiboot2.tla`). `multiboot2_parse` as the `RECURSIVE`
operator `Walk`: read the header at the current offset, keep the first tag
of each recorded type (`Keep`), skip EFI_BS, VBE and unknown types, advance
by `(size + 7) & ~7`, stop at END. The information is a sequence of
`[type, size]` headers that the loader lays out at 8-byte-padded offsets
(`Start`); an offset with no header there ends the walk as `"lost"`.

**Gfx** (`Gfx.tla`). `gfx_init` (no tag, NULL address, empty size, failed
kmalloc), `gfx_set_font`, and every drawing call: pixel, line, rect, fill,
char, text, clear, circle and copy. Each drawing routine is the sequence of
`draw_pixel` calls its loops make, and `draw_pixel` is the bounds check,
the offset through `mb2_framebuffer`'s pitch, the `fb_end` check and the
32-bit little-endian store into `fb`. `gfx_copy` reads the source as memory
is at each step. Fonts are constants indexed as `draw_char` indexes them
(`c * 8 + y`, scaled as `GlyphStride`).

**Uart** (`Uart.tla`). `uart.c`'s COM1 driver and `print.c`'s kprintf,
written from two contexts: main and the keyboard IRQ handler, which
printfs a line on every interrupt and runs to completion between any two
of main's port accesses.
- The 16550 is the other actor: a transmit FIFO of `FifoDepth` bytes when
  the FCR enables it, else one holding register; a byte written while it is
  full is lost; `Transmit` shifts the oldest byte out.
- `Call` starts one of main's calls (open, close, exists, write_char,
  write_string, write_buffer, print, printf, kprintf) with its NULL and
  closed-port refusals; `Step(c)` is one port access of context c: the
  LSR poll, the data write, and for a newline the second poll and the CR.
- vprintf is outside the repository: a printf's argument is the text it
  formats.
- History: `accepted[c]` holds the chars a write_char accepted, `line`
  the bytes on the wire tagged with their writer.

**Intel86** (`Intel86.tla`). `pic_mask`/`pic_unmask` (read the IMR, change
one bit, write 8 bits back; ids 8..15 on PIC2), `intel86_idt_set_entry` and
`intel86_idt_init` (the 32-bit handler split into two 16-bit halves), and
`intel86_paging_init` (every directory and table entry present, rw, user,
frame `i * 1024 + j`), with the tables shrunk to `Entries` entries and a
two-level walk `Translate` that reads them back as the CPU does.

**PciConfig** (`PciConfig.tla`). The config accessors applied to one
function, against a device that obeys the PCI bus rules (not repository
code): command bits 0..10 writable, status error bits write-1-to-clear,
a BAR keeps the address bits its size decodes, and the device may raise a
status error at any time (`Raise`).
- `Init` is `pci_create_device`'s reads of the command register and BARs.
- A command helper is three steps: `HelperRead(h)` (read16 and change the
  bits), `Write16Read` (pci_config_write16 reads dword 0x04 and merges the
  16 bits in) and `Write16Write` (writes the dword, stores dev->command), so
  a device error can land between them.
- `pci_get_bar_size(n)` is the early return for n >= 6 and `Probe`: the
  write of ones, the read back, the restore and `BarSize`'s mask and
  negation.
- `pci_print_device_info` keeps its BAR loop (`PrintBars`, `RECURSIVE`):
  for each BAR that reads non-zero, the decoders of the cached value
  (`pci_get_bar_address`, `pci_bar_is_io`, `_64bit`, `_prefetchable`),
  a `Probe` of the live device, and the skip of the dword after a 64-bit
  BAR. The kprintf text is left out; `report` keeps the BAR lines.
- The device has a 64-bit BAR whose upper dword ("hi") holds every
  address bit it is written.
- The dword at 0x04 is kept as two 16-bit halves and BARs are `BarBits`
  wide, to stay within TLC's integers.

**Routines** (`Routines.tla`). Instances of `Mem`, `Convert`, `Multiboot2`,
`Gfx`, `Uart`, `Intel86` and `PciConfig` side by side. None shares state
with another, so a behaviour exercises one of them, guarded so the others
stay at their initial state: one call of Mem or Convert, the parse,
gfx_init then an optional set_font and one drawing call, a run of UART
calls and interrupts, a run of x86 set-up calls, or a run of PCI helpers
and sizing calls.

**MCHeapListPCI** (`MCHeapListPCI.tla`). `Heap`, `List` and `PCI` side by
side with the bounds below; each steps only while the other two are at
their initial state, so a behaviour exercises one of them. `PCIMachines`
holds the machines and drivers that both it and `MCPCI` use.

## Runs

| Run | Module / cfg | Expect | What it shows |
|---|---|---|---|
| heap_list_pci | MCHeapListPCI / MCHeapListPCI.cfg | pass | heap: `TypeOK`; `ChainWellFormed` (sentinels, contiguous tiling, NULL end); `NoAdjacentFree`; `FreeCounterExact` (counter = sum of free sizes); `Ownership` (each live allocation has its own used block, big enough). list: `ListWellFormed` (chain, size, tail and allocated nodes agree); `ListRefinesSpec`. PCI: `EnumerationExact` (without allocation failures, the list is exactly the reachable present functions, each once); `DriverListExact`; `ProbeOffered` (every registered matching driver with a probe was offered each device) |
| heap_double_free | MCHeap / MCHeapDoubleFree.cfg | violation | free A, alloc B at A, free A again frees B's block |
| heap_aligned | MCHeap / MCHeapAligned.cfg | violation | `heap_alloc_aligned(4, 8)` returns an unaligned 116 |
| list_destroy_null | MCList / MCListDestroyNull.cfg | violation | `list_destroy_with_data(l, NULL)` frees the header and leaks every node |
| kbd_core | MCKbdDriver / MCKbdDriver.cfg | pass | see below |
| kbd_read_string | MCKbdDriver / MCKbdDriverReadString.cfg | violation | `readString` pops a pressed key and returns an empty string (`KeysDelivered`) |
| ps2_false_success | MCPS2Kbd / MCPS2KbdFalseSuccess.cfg | violation | a late ACK after an early timeout makes init report success with the keyboard stuck awaiting a parameter |
| ps2_config_clobber | MCPS2Kbd / MCPS2KbdConfig.cfg | violation | a key press read as the configuration byte changes port 2's bits |
| pci_remove_other | MCPCI / MCPCIRemoveOnlyOwn.cfg | violation | unregistering a driver calls its remove on a device another driver claimed |
| routines | MCRoutines / MCRoutines.cfg | pass | see below |
| pci_status_clear | MCPciConfig / MCPciConfig.cfg | violation | `pci_enable_device` clears the master-abort error the device had pending (`StatusErrorsKept`) |
| gfx_fb24_overrun | MCRoutines / MCRoutinesFb24.cfg | violation | on a 4 x 2 screen at 24 bpp with pitch 12, `gfx_clear` writes byte 24, one past `height * pitch` (`StoresInsideFramebuffer`) |

kbd_core checks these properties:
- `InitSuccessImpliesReady`: on success, the keyboard scans in set 2 and the
  controller raises IRQ1, clocks port 1 and does not translate. This holds
  also when the driver is registered again and IRQ1 takes the
  configuration byte or an ACK meant for the second `ps2kbd_init`.
- `RegistryConsistent`: the stream is listed at most once and only while the
  driver is enabled, and an enabled driver is registered.
- `InitReturns`: liveness.
- `QuitHonoured`: liveness. A buffered 'q' ends main's loop unless another
  caller takes it or the stream is unlisted.

routines checks each routine against a reference definition:
- `MoveCorrect`, `CopyCorrect`, `FillCorrect`, `SearchCorrect`,
  `AddressCorrect`: memory.c, for every overlap and alignment.
- `ConversionCorrect`: the conversions write the base-b representation
  (`Repr`, a recursive definition by division), the empty string for a bad
  base, and `0x` plus hex for ptoa; ulltoa for values that fit a long.
- `NumDigitsCorrect`: the counters equal the length of the representation,
  LLONG_MIN included (its negation wraps, but truncating division still
  counts its digits).
- `ParseRecordsFirst`: the walk stops at END and each `mb2_*` is the first
  tag of its type before END.
- `PaintInsideScreen`: no drawing call changes a byte outside the screen's
  pixels (row padding and past the end included).
- `DrawExact`: pixel, fill, rect, clear and 8x8 text colour exactly the
  reference pixels, clipped.
- `ShapesOnTarget`: a line starts at its start and stays in its box; a
  circle stays within one pixel of its radius and has its axis points.
- `OutputFaithful`: every char a write_char accepted, in main and in the
  handler, reached the transmitter once, in order, with LF expanded to
  LF CR, however the handler interrupted main's poll-then-write.
- `CallsReturn` (liveness): every write call of either context returns.
- `PicMaskTracksCalls`: each IRQ line is masked exactly when the last
  pic_mask/pic_unmask naming it (or the firmware) masked it.
- `IdtGatesHoldBase`: every gate decodes to the handler last installed.
- `PagingIdentity`: after paging_init every address translates to itself.
- `CommandWriteExact`: after a command helper, the command register and
  dev->command hold the helper's value, device errors in between included.
- `BarSizingExact`: pci_get_bar_size restores every BAR and returns the
  size the BAR decodes (0 for unimplemented BARs and numbers >= 6).
- `BarReportExact`: pci_print_device_info prints one line per BAR the
  device decodes, with its address, probed size and type, and none for
  the upper dword of the 64-bit BAR.

Every property of a passing run has a mutant in `PROJECT.json`: a plausible
bug in the mapped code that TLC finds violating it.

### Bounds

- **MCHeapListPCI, heap (and MCHeap).** i386 scaled down: Width 8, word 4, header 16, heap [64, 192)
  (six headers at most). Requests {1, 8, 24}, resizes {0, 4, 40},
  calloc(2, 3), and aligned(4, 8) and (4, 3). These reach split and
  whole-block use, exhaustion, coalescing both ways, every realloc path, and
  a non-power-of-two alignment.
- **MCHeapListPCI, list (and MCList).** Three nodes and two data (a datum can be stored twice).
  Indices go up to one past the longest list.
- **MCPS2Kbd.** Two firmware configurations (0x45, 0x67). The violation runs
  allow one early timeout or one key press.
- **MCKbdDriver.** The same configurations, with up to two keyboard errors.
  - Four kinds of key: 'q' and 'a' pressed, 'a' released, and a pressed key
    with no code. Two key presses.
  - A known and an unknown layout. A third word that is the count or a
    nonzero constant.
  - Two other calls (so unregister then register again is reached),
    lengths 0..2, and one heap failure.
  - Two keys are enough for a skipped release followed by a readable key,
    and for a 'q' behind another key. Two handler events also cover the
    handler taking an init answer on re-registration and then a key.
- **MCHeapListPCI, PCI (and MCPCI).** Buses 0..2, two device slots, two functions.
  - Three topologies: bridged (a bridge to bus 1, a multi-function host, and
    a ghost function on a single-function device), flat with a gap (NIC on
    bus 0, disk on bus 2), and empty.
  - Two drivers with overlapping vendor and device tables.
- **MCRoutines, memory.c.** Addresses 4..35, two initial memories, and lengths around the
  word sizes {0, 1, 3, 4, 5, 8, 9, 12, 13}. Both aligned and unaligned
  pointers, including NULL. Fill values with high bits (261, -255).
  - The pointer width is 8 for align_ptr, so its wrap is visible.
- **MCRoutines, convert.c.** int and long are 8 bits and long long 16, so
  INT_MIN, LLONG_MIN and the largest values are among the inputs. Values
  with one and several digits, and bases 0, 1, 2, 8, 10, 16, 36 and 37.
  Two `.rodata` layouts before `digits`: NUL padding and letters.
- **MCRoutines, multiboot2.c.** Four informations: string tags with sizes
  that are not multiples of 8, duplicate memory maps and framebuffers, EFI_BS,
  VBE, an unknown type, a tag after END, and END alone.
- **MCRoutines, gfx.c.** A 3 x 2 screen at 32 bpp, packed (pitch 12) or
  padded (pitch 16), and a tag with a NULL address. Points on, beside and
  past every edge; rectangles crossing the left and right edges; radii 0..2;
  two copy sizes; texts with '\n', '\r' and a char above 127. The fonts are
  2 x 1 (8x8) and 2 x 2 (8x16) cells, so a glyph's bits and rows show.
- **MCRoutines, uart.c.** A 16-byte FIFO, chars 'a' and LF, strings "" and
  "a\n", a handler line "h\n", three calls of main and two interrupts:
  enough for an interrupt between a poll and its write, between LF and CR,
  and for close discarding queued bytes.
- **MCRoutines, intel86/.** PIC ids 0, 1, 7, 8, 9, 15 and 16 (both PICs,
  their edges, one past) from masks 0xB8/0x8E; gates at vector 32 and the
  out-of-range 256 with bases above and below 2^16; 4-entry tables of
  16-byte pages at 64; three calls.
- **MCRoutines and MCPciConfig, pci.c.** 16-bit BARs: a 4 KiB memory BAR,
  an 8-byte I/O BAR, a 256-byte 64-bit prefetchable BAR whose upper
  dword reads 1 (so the print loop's skip matters), and two unimplemented
  ones; bar numbers 0..6; status 0x2010 (a received master abort pending),
  error bits 0x2000 and 0x8000; three calls, enough for a helper with an
  error raised between its read and its write, and two helpers in a row.
- **MCRoutinesFb24.** The routines bounds with one framebuffer tag: 4 x 2
  at 24 bpp, pitch 12, the pitch a 24-bpp mode with no row padding has.

### Fairness

- **Heap, List, Mem, Convert, Multiboot2, Gfx, Intel86, PCI and
  PciConfig.** These are called synchronously by single-threaded code. Their properties are safety properties, so no
  fairness is assumed.
- **PS2Kbd and KbdDriver.** Four fairness assumptions:
  - The boot thread runs `sys_driver_register` to its end (weak fairness of
    the registering steps). Nothing else runs on it.
  - The controller and keyboard take every byte written to them, which is
    hardware.
  - `main.c` spins on `available()` and reads, in a loop that never blocks.
  - Key presses and other callers are not assumed to happen.
- **Uart.** Weak fairness of `Transmit` (the 16550 drains its FIFO at the
  line rate, hardware) and of each context's steps (a call that has begun
  keeps running: main is not descheduled forever, and the handler runs to
  completion). Calls and interrupts are not assumed to happen.
- **Deadlock.** `CHECK_DEADLOCK FALSE` is set where the system really stops.
  `main` can exit, init can finish, and the key and call budgets run out.

## Findings

Each finding but the free-counter one has a violation run; the free-counter finding is a passing invariant that contradicts the spec. `PROJECT.json` has the source lines.

- **ps2kbd.c:318.** `readString` breaks when `readChar(&c) != 0`, but
  `readChar` returns 1 on success, so every call loses a key. `readBuffer`
  (line 341) has the same test.
- **heap.c:436.** `heap_alloc_aligned` returns the raw, unaligned pointer.
- **heap.c:165.** `heap_free` finds blocks by address, so a second free of a
  reused address frees the new owner's block.
- **list.c:176.** `list_destroy_with_data(l, NULL)` leaks every node.
- **ps2kbd.c:428.** A late ACK is taken as the answer to the next command.
- **ps2kbd.c:128.** The configuration byte read back is not checked.
- **pci.c:365.** `pci_unregister_driver` calls `remove` on other drivers'
  devices.
- **gfx.c:76.** `gfx_draw_pixel` steps by `bpp / 8` but stores 32 bits and
  checks only the first byte against `fb_end`: at 24 bpp without row
  padding the bottom-right pixel writes one byte past the framebuffer.
- **pci.c:50.** `pci_config_write16` of the command register reads and
  writes back the whole dword 0x04, status half included; the status
  error bits are write-1-to-clear, so every command helper acknowledges the
  device's pending errors, which no code reads.
- **Free counter (heap.c:114).** The spec says the free counter drifts on a
  split. The code subtracts exactly the allocated block, and
  `FreeCounterExact` holds.

Reachable in kbd_core but not stated as a run (see `hazards`):
- `sys_driver_register` enables the keyboard even when `ps2kbd_init` failed,
  so the stream is listed but no IRQ is installed.
- `ps2kbd_enable` ignores a failed `list_add`.
- Registering again replaces the event buffer and loses its keys.
- On re-registration IRQ1 can take the configuration byte; init then
  writes back 0xFF-derived bits, which changes port 2 (what
  ps2_config_clobber shows for a key press).

Met while modelling, listed as hazards with no violation run (all twelve
runs are in use):
- `ulltoa` prints values of 2^32 and more modulo 2^32 (convert.c:183).
- itoa/ltoa/lltoa negate only in base 10: in another base a negative value
  indexes `digits` below 0 and prints `.rodata` bytes without a sign, as
  does INT_MIN in base 10 (convert.c:64). `ConversionCorrect` leaves these
  inputs out.
- At 24 bpp, `gfx_draw_pixel`'s 32-bit store also overwrites the first
  byte of the next pixel (gfx.c:76); the byte past the framebuffer is the
  gfx_fb24_overrun finding.
- `gfx_draw_line` can miss its end point, e.g. (0,0) to (1,3) (gfx.c:95).
- `gfx_copy` reads its source without the pitch, and in increasing order
  even when the destination overlaps below or to the right (gfx.c:263).
- `gfx_draw_rect` with width 0 draws two columns (x and x - 1), and with
  the 8x16 font `gfx_draw_char` reads rows with the 8x8 stride, drawing
  halves of two glyphs. The inputs avoid both: no caller passes them.

## Not modelled

- Payload bytes of the heap (the memcpy in realloc, the memset in calloc),
  and therefore stale headers inside payloads.
- Heap operations split into steps under the keyboard interrupt. KbdDriver
  treats buffer operations as atomic.
- `peek`, `open`, `close` and `flush` of the keyboard stream: peek reads
  without changing state, and the other three are empty.
- The layout handlers and Buffer, which are outside the repository.
- Multiboot2 informations that break the specification (a size-0 tag loops
  forever, a missing END walks off the end): a conforming loader never
  produces them.
- `ftoa` and `dtoa`: float and double arithmetic has no TLC values.
- 24-bpp framebuffers in the passing run: `PaintInsideScreen` and
  `DrawExact` are stated for 32 bpp; 24 bpp has its violation run.
- The port I/O under the PCI config accessors (`pci_make_address`, outl,
  inl): a config read or write is one access to the device. The PCI
  lookups with no caller (`pci_get_device`, `pci_get_device_by_class`,
  `pci_get_all_devices`, `pci_bar_is_memory`), `pci_print_all_devices`
  (the list walk around the modelled print), the name tables and the
  kprintf text (formatting), and the MSI stubs (no state).
- I/O BARs whose upper bits are hardwired to 0, for which pci_get_bar_size
  returns a wrong size (listed as a hazard): the model's BARs are 16 bits.
- vprintf and `currentOutputStream`'s type, which are outside the
  repository; a printf's argument is its formatted text.
- The font tables of `font.c` are data, taken as constants.
- Ordering of LF and CR under interrupts (uart.c:130) is reachable in the
  routines run and listed as a hazard; no run slot is left for it.
