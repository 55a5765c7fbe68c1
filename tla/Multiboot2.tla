------------------------------ MODULE Multiboot2 ------------------------------
(***************************************************************************)
(* multiboot2.c: multiboot2_parse walks the boot information the loader   *)
(* left at mb2_tagptr and keeps a pointer to the first tag of each type   *)
(* it knows.  The information is a sequence of tag headers [type, size];  *)
(* the loader places tag k at offset 8 + the sizes of the tags before it, *)
(* each rounded up to 8 (the Multiboot2 layout), and pointers are offsets *)
(* from mb2_tagptr (NULL = 0).  The walk is translated from the loop:     *)
(* it reads the header at the current offset and advances by              *)
(* (size + 7) & ~7; an offset where the loader put no header (inside a    *)
(* tag, or past the last one) ends the walk as "lost", since what is read *)
(* there is payload or memory after the information.                       *)
(***************************************************************************)
EXTENDS Integers, Sequences

CONSTANTS Infos  \* the boot informations a loader can hand over

NULL == 0

\* MULTIBOOT_TAG_TYPE_* of multiboot2.h.
END == 0
VBE == 7
EFI_BS == 18
\* The types with a mb2_* pointer: every type of 1..21 but VBE and EFI_BS.
Recorded == (1..21) \ {VBE, EFI_BS}

VARIABLES info,    \* the information at mb2_tagptr
          mb2,     \* mb2_cmdline, mb2_mmap, ... by tag type
          walk     \* "idle" before the parse, then how its loop ended

mbvars == <<info, mb2, walk>>

\* The loader's padding of a tag to the next 8-byte boundary.
Pad8(s) == ((s + 7) \div 8) * 8

\* Offset of tag k: after total_size and reserved, and the tags before it.
RECURSIVE Start(_, _)
Start(inf, k) == IF k = 1 THEN 8 ELSE Start(inf, k - 1) + Pad8(inf[k - 1].size)

\* The tag whose header the loader put at offset off, if any.
TagsAt(inf, off) == {k \in 1..Len(inf) : Start(inf, k) = off}

\* Mutant: the advance forgets the alignment.
AdvanceUnaligned(s) == s

\* `(size + 7) & ~7`
Advance(s) == (s + 7) - ((s + 7) % 8)

\* The switch: the first tag of a known type is kept (`if (!mb2_X)`),
\* EFI_BS, VBE and unknown types are skipped.
Keep(p, t, off) == IF t \in Recorded /\ p[t] = NULL THEN [p EXCEPT ![t] = off] ELSE p

\* `while (tag->type != END) { switch ...; tag += (tag->size + 7) & ~7; }`
\* fuel bounds the walk by the number of headers, so that it ends.
RECURSIVE Walk(_, _, _, _)
Walk(inf, off, p, fuel) ==
  IF TagsAt(inf, off) = {} \/ fuel = 0 THEN [ptrs |-> p, status |-> "lost"]
  ELSE LET tag == inf[CHOOSE k \in TagsAt(inf, off) : TRUE]
       IN IF tag.type = END THEN [ptrs |-> p, status |-> "end"]
          ELSE Walk(inf, off + Advance(tag.size), Keep(p, tag.type, off), fuel - 1)

NoTags == [t \in Recorded |-> NULL]

Init ==
  /\ info = << >>
  /\ mb2 = NoTags
  /\ walk = "idle"

\* multiboot2_parse, called once by boot.c on the information the loader
\* handed over: tag = mb2_tagptr + 8.
multiboot2_parse ==
  /\ walk = "idle"
  /\ \E inf \in Infos :
       LET r == Walk(inf, 8, mb2, Len(inf))
       IN info' = inf /\ mb2' = r.ptrs /\ walk' = r.status

Spec == Init /\ [][multiboot2_parse]_mbvars

-----------------------------------------------------------------------------
TypeOK ==
  /\ info \in Infos \cup {<< >>}
  /\ mb2 \in [Recorded -> Nat]
  /\ walk \in {"idle", "end", "lost"}

\* The index of the first END tag: the loader's information ends there.
EndAt(inf) == CHOOSE k \in 1..Len(inf) : inf[k].type = END /\ \A j \in 1..k - 1 : inf[j].type # END

\* After multiboot2_parse, the walk has stopped at the END tag, and every
\* mb2_* pointer is the first tag of its type before END (NULL if there is
\* none), whatever the tag sizes, duplicates, skipped types and tags after
\* END: what boot.c (mb2_mmap) and gfx_init (mb2_framebuffer) rely on.
ParseRecordsFirst ==
  walk # "idle" =>
    /\ walk = "end"
    /\ \A t \in Recorded :
         LET ks == {k \in 1..EndAt(info) - 1 : info[k].type = t}
         IN mb2[t] = IF ks = {} THEN NULL
                     ELSE Start(info, CHOOSE k \in ks : \A j \in ks : k <= j)
=============================================================================
