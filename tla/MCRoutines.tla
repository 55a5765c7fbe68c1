----------------------------- MODULE MCRoutines -----------------------------
EXTENDS Routines, Integers, TLC



(* memory.c: 32 bytes at addresses 4..35 with two contents: every byte     *)
(* distinct (a copy that takes a byte from the wrong place shows), and the *)
(* values 0, 1, 2 repeating (searches and comparisons find matches and     *)
(* ties).  Pointers at word-aligned and unaligned addresses close enough   *)
(* to overlap, lengths that exercise every branch of the word and 8/4-byte *)
(* loops (0, below a word, one word, 8, 8 + 1, 8 + 4, 8 + 4 + 1), ints     *)
(* whose unsigned char conversions differ from them, and an 8-bit          *)
(* uintptr_t for the address helpers, so that the top of the address      *)
(* space is in reach.                                                      *)
MCAddr == 4..35
MCMems == {[a \in MCAddr |-> a], [a \in MCAddr |-> a % 3]}
MCPtrs == {0, 4, 5, 8, 12, 13, 20}
MCLens == {0, 1, 3, 4, 5, 8, 9, 12, 13}
MCInts == {2, 261, -255}
MCPatterns == {\h04030201, \h41}
MCAlignments == {0, 3, 4, 8}

(* convert.c: 8-bit int and long and 16-bit long long (the same uintptr_t  *)
(* as above): the most negative values, the largest ones and values with   *)
(* one and several digits in every base are in reach.  Bases below 2 and  *)
(* above 36, 2, 8, 10, 16 and 36.  Two layouts of the bytes before         *)
(* digits[]: NUL padding and the tail of another string.                   *)
MCIntArgs == {0, 7, 35, 100, 127, -1, -10, -128}
MCLongLongArgs == {0, 9, 32767, -5, -1000, -32768}
MCUIntArgs == {0, 36, 255}
MCULongLongArgs == {0, 255, 256, 65535}
MCPtrArgs == {0, 10, 160, 255}
MCBases == {0, 1, 2, 8, 10, 16, 36, 37}
MCLayouts == {[k \in 1..35 |-> 0], [k \in 1..35 |-> 97 + (k % 26)]}

(* multiboot2.c: informations laid out as a loader does: string tags whose *)
(* sizes are not multiples of 8, two memory maps, EFI boot services, a VBE *)
(* tag, a type the kernel does not know, a tag after END, and one with     *)
(* only END.                                                               *)
T(t, s) == [type |-> t, size |-> s]
MCInfos ==
  { << T(1, 13), T(2, 20), T(6, 40), T(8, 38), T(0, 8) >>,
    << T(6, 16), T(6, 24), T(18, 16), T(7, 9), T(1, 9), T(0, 8), T(8, 16) >>,
    << T(22, 12), T(21, 12), T(8, 31), T(8, 32), T(0, 8) >>,
    << T(0, 8) >> }
(* gfx.c: a 3 x 2 screen at 32 bpp, packed (pitch 12) or with a padded row        *)
(* (pitch 16), one tag with a NULL address; 36 bytes hold the larger one  *)
(* and the four bytes a store past it would reach.  The colour's bytes    *)
(* differ from every initial byte of the pixels it is stored over.        *)
MCFbTags ==
  { [addr |-> 4096, width |-> 3, height |-> 2, bpp |-> 32, pitch |-> 12],
    [addr |-> 4096, width |-> 3, height |-> 2, bpp |-> 32, pitch |-> 16],
    [addr |-> 0, width |-> 3, height |-> 2, bpp |-> 32, pitch |-> 12] }
(* A 4 x 2 screen at 24 bpp whose rows need no padding (pitch = 4 * 3).   *)
MCFbTags24 == { [addr |-> 4096, width |-> 4, height |-> 2, bpp |-> 24, pitch |-> 12] }
MCPoints == {<<0, 0>>, <<1, 0>>, <<2, 1>>, <<3, 0>>, <<-1, 1>>, <<1, -1>>, <<0, 2>>}
MCRects == {[x |-> -1, y |-> 0, w |-> 2, h |-> 2], [x |-> 1, y |-> 0, w |-> 3, h |-> 1],
            [x |-> 0, y |-> 0, w |-> 3, h |-> 2]}
MCRadii == {0, 1, 2}
MCCopySizes == {[w |-> 2, h |-> 1], [w |-> 1, h |-> 2]}
(* 'A' (65), 'B' (66), '\n', '\r' and a char above 127 (signed: -56).     *)
MCTexts == {<<65, 10, 66>>, <<66, 13, 65>>, <<-56, 65>>}
(* Fonts scaled to 2 x 1 (8x8) and 2 x 2 (8x16) cells: byte c * height + y *)
(* of a table is row y of glyph c; 'A' is 01, 'B' 10 in the 8x8 font.     *)
Table(h, rows) == [i \in 0..128 * h - 1 |-> IF i \div h \in DOMAIN rows THEN rows[i \div h][(i % h) + 1] ELSE 0]
MCFonts ==
  [f \in {"8x8", "8x16"} |->
     IF f = "8x8" THEN [width |-> 2, height |-> 1, table |-> Table(1, 65 :> <<1>> @@ 66 :> <<2>>)]
     ELSE [width |-> 2, height |-> 2, table |-> Table(2, 65 :> <<3, 1>> @@ 66 :> <<2, 3>>)]]
(* uart.c: a 16550 with its 16-byte FIFO.  main writes 'a' (97) and '\n', *)
(* the empty string, "a\n" and NULL through every entry point, in three  *)
(* calls; the keyboard handler interrupts twice with "h\n" (104, 10):    *)
(* enough for an interrupt between main's poll and write, between its LF *)
(* and CR, and after a close.                                             *)
MCMsgs == {<< >>, <<97, 10>>}
MCHandlerMsg == <<104, 10>>

(* intel86/: ids on both PICs, at their edges and one past them; the     *)
(* firmware's usual masks 0xB8 and 0x8E, with set and clear bits on both  *)
(* PICs; gates at the boot timer's vector and one   *)
(* past the table, with addresses whose high half exceeds 8 bits; the    *)
(* page tables scaled to 4 entries of 4 bytes, placed at 64.              *)
MCPicInit == [p \in {1, 2} |-> IF p = 1 THEN 184 ELSE 142]
MCGates == {[index |-> i, base |-> b] : i \in {32, 256}, b \in {1074795060, 1056768}}
(* pci.c: the function of MCPciConfig (a 4 KiB memory BAR, an 8-byte I/O *)
(* BAR, a 256-byte 64-bit prefetchable BAR placed above the 16-bit space  *)
(* (its upper dword 1), two unimplemented), 16-bit BARs.                  *)
MCBars == [n \in 0..5 |->
             CASE n = 0 -> [kind |-> "mem", size |-> 4096, type |-> 0, base |-> 57344]
               [] n = 1 -> [kind |-> "io", size |-> 8, type |-> 1, base |-> 49160]
               [] n = 2 -> [kind |-> "mem", size |-> 256, type |-> 12, base |-> 53248]
               [] n = 3 -> [kind |-> "hi", size |-> 0, type |-> 0, base |-> 1]
               [] OTHER -> [kind |-> "none", size |-> 0, type |-> 0, base |-> 0]]
MCErrorBits == {8192, 32768}
=============================================================================
