------------------------------- MODULE Intel86 -------------------------------
(***************************************************************************)
(* The x86 set-up of intel86/: the 8259 masks (pic.c), the IDT's gates    *)
(* (idt.c) and the identity page tables (paging.c).                       *)
(*                                                                         *)
(* pic.c reads a PIC's interrupt mask register and writes it back with    *)
(* one bit changed; an outb keeps the low 8 bits.  idt.c splits a 32-bit  *)
(* handler address into two 16-bit halves.  paging.c fills the page       *)
(* directory and its tables; the model shrinks the 1024-entry tables to   *)
(* Entries entries of 4 bytes, so that a table still fills exactly one    *)
(* page of PageSize bytes (1024 * 4 = 4096), and the 20-bit frame fields  *)
(* to FrameBits, the bits of a page number.  The CPU's two-level walk     *)
(* reads them back.  The IDT and the tables live in .bss: zero before     *)
(* their init.                                                             *)
(***************************************************************************)
EXTENDS Integers, Bitwise

CONSTANTS PicIds,      \* the ids passed to pic_mask / pic_unmask
          PicInit,     \* the masks the firmware leaves in PIC1 and PIC2
          IdtSize,     \* IDT_SIZE
          Gates,       \* [index, base] passed to intel86_idt_set_entry
          IsrDefault,  \* the address of intel86_isr_default
          Entries,     \* entries of a page table and of the directory
          PageSize,    \* bytes of a page: Entries * 4
          TableBase,   \* the page-aligned address of intel86_page_table
          MaxSetup     \* bound on the calls of one behaviour

ASSUME PageSize = Entries * 4 /\ TableBase % PageSize = 0

FrameBits == LET RECURSIVE Log(_) Log(n) == IF n <= 1 THEN 0 ELSE 1 + Log(n \div 2)
             IN Log(Entries * Entries)

VARIABLES imr,       \* the mask registers of PIC1 and PIC2
          idt,       \* intel86_idt
          pd, pt,    \* intel86_page_directory, intel86_page_table
          paging,    \* CR0.PG
          lastPic,   \* per IRQ line, the last of mask / unmask it was left by
          installed, \* per vector, the base last passed for it
          setups     \* calls made

xvars == <<imr, idt, pd, pt, paging, lastPic, installed, setups>>

Lines == 0..15
Vectors == 0..IdtSize - 1
NoGate == [offset_low |-> 0, offset_high |-> 0, selector |-> 0, type_attr |-> 0]
NoEntry == [present |-> 0, rw |-> 0, user |-> 0, frame |-> 0]

MaskedIn(m, l) == IF l < 8 THEN (m[1] \div 2^l) % 2 = 1 ELSE (m[2] \div 2^(l - 8)) % 2 = 1

Init ==
  /\ imr = PicInit
  /\ lastPic = [l \in Lines |-> IF MaskedIn(imr, l) THEN "mask" ELSE "unmask"]
  /\ idt = [v \in Vectors |-> NoGate]
  /\ installed = [v \in Vectors |-> 0]
  /\ pd = [i \in 0..Entries - 1 |-> NoEntry]
  /\ pt = [i \in 0..Entries - 1 |-> [j \in 0..Entries - 1 |-> NoEntry]]
  /\ paging = FALSE
  /\ setups = 0

\* `mask | (1 << id)` and `mask & ~(1 << id)`, stored by an 8-bit outb.
SetBit(m, b) == (m | b) % 256
ClearBit(m, b) == m - (m & b)
Update(op, m, b) == IF op = "mask" THEN SetBit(m, b) ELSE ClearBit(m, b)

\* Mutant: PIC2's id is used without `id -= 8`.
PicWriteUnadjusted(op, id) ==
  IF id >= 16 THEN imr
  ELSE IF id < 8 THEN [imr EXCEPT ![1] = Update(op, @, 2^id)]
  ELSE [imr EXCEPT ![2] = Update(op, @, 2^id) % 256]

\* pic_mask / pic_unmask: ids of 16 and above are ignored, 0..7 are PIC1's
\* bits, 8..15 PIC2's after `id -= 8`.
PicWrite(op, id) ==
  IF id >= 16 THEN imr
  ELSE IF id < 8 THEN [imr EXCEPT ![1] = Update(op, @, 2^id)]
  ELSE [imr EXCEPT ![2] = Update(op, @, 2^(id - 8))]

pic_call ==
  /\ \E op \in {"mask", "unmask"}, id \in PicIds :
       /\ imr' = PicWrite(op, id)
       /\ lastPic' = IF id < 16 THEN [lastPic EXCEPT ![id] = op] ELSE lastPic
  /\ UNCHANGED <<idt, pd, pt, paging, installed>>

\* Mutant: the high half is masked to 8 bits.
GateHigh8(base, selector, type_attr) ==
  [offset_low |-> base & 65535, offset_high |-> shiftR(base, 16) & 255,
   selector |-> selector, type_attr |-> type_attr]

\* The fields intel86_idt_set_entry stores for a gate.
Gate(base, selector, type_attr) ==
  [offset_low |-> base & 65535, offset_high |-> shiftR(base, 16) & 65535,
   selector |-> selector, type_attr |-> type_attr]

\* intel86_idt_set_entry, as boot.c and ps2kbd_init call it (selector 0x08,
\* type 0x8E): an index past the table is ignored.
intel86_idt_set_entry ==
  /\ \E g \in Gates :
       IF g.index >= IdtSize THEN UNCHANGED <<idt, installed>>
       ELSE /\ idt' = [idt EXCEPT ![g.index] = Gate(g.base, 8, 142)]
            /\ installed' = [installed EXCEPT ![g.index] = g.base]
  /\ UNCHANGED <<imr, pd, pt, paging, lastPic>>

\* intel86_idt_init: every gate to intel86_isr_default, selector 0x08,
\* type 0x8E; then lidt.
intel86_idt_init ==
  /\ idt' = [v \in Vectors |-> Gate(IsrDefault, 8, 142)]
  /\ installed' = [v \in Vectors |-> IsrDefault]
  /\ UNCHANGED <<imr, pd, pt, paging, lastPic>>

\* Mutant: the frame numbers swap the table and entry indices.
PteFrameSwapped(i, j) == (j * Entries + i) % 2^FrameBits

\* `intel86_page_table[i][j].frame = (i * 1024 + j)`, in a FrameBits field.
PteFrame(i, j) == (i * Entries + j) % 2^FrameBits

\* intel86_paging_init: every entry present, rw and user; the directory's
\* entry i holds the address of table i >> 12; then CR3 and CR0.PG.
intel86_paging_init ==
  /\ pt' = [i \in 0..Entries - 1 |-> [j \in 0..Entries - 1 |->
              [present |-> 1, rw |-> 1, user |-> 1, frame |-> PteFrame(i, j)]]]
  /\ pd' = [i \in 0..Entries - 1 |->
              [present |-> 1, rw |-> 1, user |-> 1,
               frame |-> ((TableBase + i * PageSize) \div PageSize) % 2^FrameBits]]
  /\ paging' = TRUE
  /\ UNCHANGED <<imr, idt, lastPic, installed>>

Next ==
  /\ setups < MaxSetup
  /\ setups' = setups + 1
  /\ \/ pic_call
     \/ intel86_idt_set_entry
     \/ intel86_idt_init
     \/ paging = FALSE /\ intel86_paging_init

Spec == Init /\ [][Next]_xvars

-----------------------------------------------------------------------------
Entry == [present : {0, 1}, rw : {0, 1}, user : {0, 1}, frame : 0..2^FrameBits - 1]

TypeOK ==
  /\ imr \in [{1, 2} -> 0..255]
  /\ idt \in [Vectors -> [offset_low : 0..65535, offset_high : 0..65535,
                          selector : {0, 8}, type_attr : {0, 142}]]
  /\ pd \in [0..Entries - 1 -> Entry]
  /\ pt \in [0..Entries - 1 -> [0..Entries - 1 -> Entry]]
  /\ paging \in BOOLEAN
  /\ lastPic \in [Lines -> {"mask", "unmask"}]
  /\ setups \in 0..MaxSetup

\* After any sequence of pic_mask and pic_unmask calls, from any masks the
\* firmware left, each of the 16 IRQ lines is masked exactly when the last
\* call naming it (or else the firmware) masked it: a call changes its own
\* line's bit and no other, on the right PIC, and an id of 16 or more
\* changes nothing.
PicMaskTracksCalls == \A l \in Lines : MaskedIn(imr, l) <=> lastPic[l] = "mask"

\* Every gate of the IDT decodes (offset_high << 16 | offset_low) to the
\* handler address last installed at its vector, with the kernel code
\* selector and a 32-bit interrupt-gate type; out-of-range vectors left the
\* table alone.
IdtGatesHoldBase ==
  \A v \in Vectors :
    \/ idt[v] = NoGate /\ installed[v] = 0
    \/ /\ idt[v].offset_high * 65536 + idt[v].offset_low = installed[v]
       /\ idt[v].selector = 8 /\ idt[v].type_attr = 142

\* The CPU's walk of a virtual address: directory entry, then the table the
\* entry's frame points to, then the page; "fault" when an entry is absent,
\* not writable from user mode, or points outside intel86_page_table.
Translate(va) ==
  LET pde == pd[va \div (Entries * PageSize)]
      table == pde.frame * PageSize
      ti == (table - TableBase) \div PageSize
      pte == pt[ti][(va \div PageSize) % Entries]
  IN IF pde.present = 0 \/ pde.rw = 0 \/ pde.user = 0
        \/ table < TableBase \/ ti >= Entries \/ table % PageSize # 0 THEN "fault"
     ELSE IF pte.present = 0 \/ pte.rw = 0 \/ pte.user = 0 THEN "fault"
     ELSE pte.frame * PageSize + (va % PageSize)

\* Once intel86_paging_init has set CR0.PG, every virtual address of the
\* space translates, through the directory and the tables, to itself with
\* write and user access: the identity map the kernel relies on, since its
\* pointers are physical addresses.
PagingIdentity ==
  paging => \A va \in 0..Entries * Entries * PageSize - 1 : Translate(va) = va
=============================================================================
