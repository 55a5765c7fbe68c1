------------------------------- MODULE MCHeap -------------------------------
(***************************************************************************)
(* Model values for Heap: an i386 heap_block_t (4-byte size_t and          *)
(* pointers, 16-byte header) in a 128-byte region, with size_t narrowed to *)
(* 8 bits so that its wrap-around is in reach.                             *)
(***************************************************************************)
EXTENDS Heap

MCWidth == 8
MCWordSize == 4
MCHeaderSize == 16
MCHeapStart == 64
MCHeapEnd == 192

\* Request sizes that exercise rounding, split and no-split, shrink and grow.
MCAllocSizes == {1, 8, 24}
MCResizeSizes == {0, 4, 40}
MCCallocArgs == {<<2, 3>>}
MCAlignedArgs == {<<4, 8>>, <<4, 3>>}
\* A pointer below the region and one inside the head sentinel's header.
MCForeignPtrs == {32, MCHeapStart + 4}

=============================================================================
