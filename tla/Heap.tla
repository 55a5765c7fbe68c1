-------------------------------- MODULE Heap --------------------------------
(***************************************************************************)
(* The kernel heap allocator of src/src/memory/heap.c: one heap region     *)
(* (heap_t) whose memory is a singly linked chain of block headers         *)
(* (heap_block_t), a head sentinel, variable blocks, and a tail sentinel.  *)
(*                                                                         *)
(* Memory is modelled at the level of block headers: `blocks` maps the     *)
(* address of every header reachable from heap->start to its fields.  A    *)
(* header that is merged into a neighbour stays in RAM in the code, but no *)
(* code path reads it again (every read follows a `next` link or is the    *)
(* header of a live pointer), so the model drops it.  Payload bytes are    *)
(* not modelled.  size_t and pointers are Width bits wide and all their    *)
(* arithmetic wraps modulo 2^Width, as it does on the target.              *)
(*                                                                         *)
(* `live` is the clients' view: every pointer a caller of the allocator    *)
(* currently holds, with the size it asked for and the alignment it asked  *)
(* for (1 for the plain allocators).  `dangling` holds the pointers that  *)
(* callers have given up (by heap_free or by a heap_realloc that moved or  *)
(* freed the block); a caller may still hold a stale copy of one.          *)
(***************************************************************************)
EXTENDS Integers, SequencesExt

CONSTANTS
  Width,        \* bits of size_t and of a pointer
  WordSize,     \* sizeof(void*)
  HeaderSize,   \* sizeof(heap_block_t)
  HeapStart,    \* the start argument of heap_create (end of the kernel image)
  HeapEnd,      \* the end argument of heap_create
  AllocSizes,   \* sizes passed to heap_alloc / kmalloc
  ResizeSizes,  \* new sizes passed to heap_realloc
  CallocArgs,   \* <<num, size>> pairs passed to heap_calloc
  AlignedArgs,  \* <<size, alignment>> pairs passed to heap_alloc_aligned
  StrayPtrs,    \* pointers passed to heap_free that the caller does not own
  KeepStale     \* whether callers keep stale copies of pointers they gave up

Modulus == 2 ^ Width
SizeMax == Modulus - 1
Wrap(x) == x % Modulus
NULL == 0

ASSUME /\ WordSize > 0 /\ HeaderSize > 0
       /\ 0 <= HeapStart /\ HeapStart <= HeapEnd /\ HeapEnd <= SizeMax

\* Upper bound on the number of headers a chain walk can visit.
MaxBlocks == (HeapEnd - HeapStart) \div HeaderSize + 1

Header == [size : 0..SizeMax, next : 0..SizeMax, free : BOOLEAN, magic : BOOLEAN]
\* What a read of a header slot that holds no header returns: bytes that do
\* not carry HEAP_MAGIC.
Garbage == [size |-> 0, next |-> NULL, free |-> FALSE, magic |-> FALSE]

VARIABLES heap, blocks, live, dangling
vars == <<heap, blocks, live, dangling>>

(***************************************************************************)
(* Helpers of heap.c.                                                      *)
(***************************************************************************)
\* Mutant: the rounding without the `& ~(sizeof(void*) - 1)` mask.
align_size_unmasked(s) == Wrap(s + WordSize - 1)

align_size(s) == LET t == Wrap(s + WordSize - 1) IN t - (t % WordSize)

align_address(a, al) == LET t == Wrap(a + al - 1) IN t - (t % al)

Hdr(m, a) == IF a \in DOMAIN m THEN m[a] ELSE Garbage

is_valid_block(m, a) == a # NULL /\ Hdr(m, a).magic

Drop(m, S) == Restrict(m, DOMAIN m \ S)

\* The headers `while (current && current < heap->end)` visits from a,
\* ending after the first header whose magic is wrong.
RECURSIVE Walk(_, _, _, _)
Walk(m, a, e, k) ==
  IF a = NULL \/ a >= e \/ k = 0 THEN << >>
  ELSE IF ~is_valid_block(m, a) THEN << a >>
  ELSE << a >> \o Walk(m, m[a].next, e, k - 1)

Chain(h, m) == Walk(m, h.start, h.end, MaxBlocks)

Corrupt(h, m) == LET ch == Chain(h, m) IN \E i \in DOMAIN ch : ~is_valid_block(m, ch[i])

\* The owner lookup of heap_free and heap_realloc: the first non-free block
\* of the chain whose data area [b + header, b + size) contains p.
Lookup(h, m, p) ==
  LET ch   == Chain(h, m)
      hits == {i \in DOMAIN ch : /\ is_valid_block(m, ch[i])
                                 /\ ~m[ch[i]].free
                                 /\ Wrap(ch[i] + HeaderSize) <= p
                                 /\ p < Wrap(ch[i] + m[ch[i]].size)}
  IN IF hits = {} THEN NULL ELSE ch[Min(hits)]

\* Mutant: the split forgets `best_block->size = total_size`.
SplitKeepsSize(m, b, total) ==
  (Wrap(b + total) :> [size |-> Wrap(m[b].size - total), free |-> TRUE,
                       magic |-> TRUE, next |-> m[b].next])
  @@ [m EXCEPT ![b].next = Wrap(b + total)]

\* Carve a free block at b + total out of block b (the split of heap_alloc
\* and heap_realloc); the caller has checked that it fits.
Split(m, b, total) ==
  (Wrap(b + total) :> [size |-> Wrap(m[b].size - total), free |-> TRUE,
                       magic |-> TRUE, next |-> m[b].next])
  @@ [m EXCEPT ![b].size = total, ![b].next = Wrap(b + total)]

CanSplit(h, m, b, total) ==
  /\ m[b].size >= Wrap(total + HeaderSize + WordSize)
  /\ Wrap(Wrap(b + total) + HeaderSize) <= h.end

\* Mutant: forward coalescing without the `block->next->free` test.
MergeNextAny(m, b) ==
  LET n == m[b].next
  IN IF n # NULL /\ is_valid_block(m, n)
     THEN Drop([m EXCEPT ![b].size = Wrap(@ + m[n].size), ![b].next = m[n].next], {n})
     ELSE m

\* Merge block b with its successor when that one is free and valid.
MergeNext(m, b) ==
  LET n == m[b].next
  IN IF n # NULL /\ Hdr(m, n).free /\ is_valid_block(m, n)
     THEN Drop([m EXCEPT ![b].size = Wrap(@ + m[n].size), ![b].next = m[n].next], {n})
     ELSE m

(***************************************************************************)
(* heap_alloc: best fit, split, post-check.  Returns the new heap, memory  *)
(* and the returned pointer.                                               *)
(***************************************************************************)
AllocOp(h, m, req) ==
  LET size  == align_size(req)
      total == Wrap(size + HeaderSize)
      ch    == Chain(h, m)
      fits  == {i \in DOMAIN ch : is_valid_block(m, ch[i]) /\ m[ch[i]].free
                                  /\ m[ch[i]].size >= total}
      fail  == [heap |-> h, mem |-> m, ptr |-> NULL]
  IN IF req = 0 \/ Corrupt(h, m) \/ fits = {} THEN fail
     ELSE
     LET bi    == CHOOSE i \in fits : \A j \in fits : m[ch[j]].size > m[ch[i]].size \/ j >= i
         b     == ch[bi]
         split == CanSplit(h, m, b, total)
         m1    == [(IF split THEN Split(m, b, total) ELSE m) EXCEPT ![b].free = FALSE]
         free1 == Wrap(h.free - (IF split THEN total ELSE m[b].size))
         data  == Wrap(b + HeaderSize)
     IN IF Wrap(data + size) <= h.end
        THEN [heap |-> [h EXCEPT !.free = free1], mem |-> m1, ptr |-> data]
        ELSE [heap |-> [h EXCEPT !.free = Wrap(free1 + m1[b].size)],
              mem  |-> [m1 EXCEPT ![b].free = TRUE], ptr |-> NULL]

(***************************************************************************)
(* heap_free: owner lookup, mark free, coalesce forward, then find the     *)
(* predecessor by a second walk and coalesce backward.                     *)
(***************************************************************************)
\* `while (prev && prev->next && prev->next != block) prev = prev->next;`
RECURSIVE PrevOf(_, _, _, _)
PrevOf(m, a, b, k) ==
  IF a = NULL \/ Hdr(m, a).next = NULL \/ Hdr(m, a).next = b \/ k = 0 THEN a
  ELSE PrevOf(m, Hdr(m, a).next, b, k - 1)

\* Mutant: heap_free without the backward coalescing.
FreeOpForwardOnly(h, m, p) ==
  LET b == Lookup(h, m, p)
  IN IF p = NULL \/ p < h.start \/ p >= h.end \/ b = NULL
     THEN [heap |-> h, mem |-> m]
     ELSE [heap |-> [h EXCEPT !.free = Wrap(@ + m[b].size)],
           mem  |-> MergeNext([m EXCEPT ![b].free = TRUE], b)]

FreeOp(h, m, p) ==
  LET b == Lookup(h, m, p)
  IN IF p = NULL \/ p < h.start \/ p >= h.end \/ b = NULL
     THEN [heap |-> h, mem |-> m]
     ELSE
     LET m1 == MergeNext([m EXCEPT ![b].free = TRUE], b)
         pv == PrevOf(m1, h.start, b, MaxBlocks)
         m2 == IF /\ pv # NULL /\ Hdr(m1, pv).next = b
                  /\ Hdr(m1, pv).free /\ is_valid_block(m1, pv)
               THEN Drop([m1 EXCEPT ![pv].size = Wrap(@ + m1[b].size),
                                    ![pv].next = m1[b].next], {b})
               ELSE m1
     IN [heap |-> [h EXCEPT !.free = Wrap(@ + m[b].size)], mem |-> m2]

(***************************************************************************)
(* heap_realloc.                                                           *)
(***************************************************************************)
\* The forward scan of the grow path: absorb following free blocks until
\* the accumulated size reaches rt.  Returns the size reached and the last
\* block scanned.
RECURSIVE GrowScan(_, _, _, _, _, _, _)
GrowScan(m, nx, avail, last, rt, e, k) ==
  IF nx # NULL /\ Hdr(m, nx).free /\ is_valid_block(m, nx) /\ nx < e /\ k > 0
  THEN LET a2 == Wrap(avail + m[nx].size)
       IN IF a2 >= rt THEN [avail |-> a2, last |-> nx]
          ELSE GrowScan(m, m[nx].next, a2, nx, rt, e, k - 1)
  ELSE [avail |-> avail, last |-> last]

\* The merge loop of the grow path: the blocks from cur up to stop.
RECURSIVE Absorbed(_, _, _, _)
Absorbed(m, cur, stop, k) ==
  IF cur # NULL /\ Hdr(m, cur).free /\ is_valid_block(m, cur) /\ cur # stop /\ k > 0
  THEN << cur >> \o Absorbed(m, m[cur].next, stop, k - 1)
  ELSE << >>

SumSizes(m, s) == Wrap(FoldLeft(LAMBDA acc, a : acc + m[a].size, 0, s))

\* The header lookup of heap_realloc: the fast path at ptr - header, else
\* the owner lookup of heap_free.
ReallocBlock(h, m, p) ==
  LET pb == Wrap(p - HeaderSize)
  IN IF /\ pb >= h.start /\ Wrap(pb + HeaderSize) <= h.end
        /\ is_valid_block(m, pb) /\ ~m[pb].free
        /\ p >= Wrap(pb + HeaderSize) /\ p < Wrap(pb + m[pb].size)
     THEN pb ELSE Lookup(h, m, p)

\* Mutant: the shrink split without `heap->free += new_free_block->size`.
ShrinkOpNoCredit(h, m, b, rt, old, an) ==
  IF Wrap(old - an) >= HeaderSize + WordSize /\ Wrap(Wrap(b + rt) + HeaderSize) <= h.end
  THEN [heap |-> h, mem |-> MergeNext(Split(m, b, rt), Wrap(b + rt))]
  ELSE [heap |-> h, mem |-> m]

ShrinkOp(h, m, b, rt, old, an) ==
  IF Wrap(old - an) >= HeaderSize + WordSize /\ Wrap(Wrap(b + rt) + HeaderSize) <= h.end
  THEN LET m1 == Split(m, b, rt)
       IN [heap |-> [h EXCEPT !.free = Wrap(@ + m1[Wrap(b + rt)].size)],
           mem  |-> MergeNext(m1, Wrap(b + rt))]
  ELSE [heap |-> h, mem |-> m]

GrowInPlaceOp(h, m, b, rt, last) ==
  LET stop  == m[last].next
      abs   == Absorbed(m, m[b].next, stop, MaxBlocks)
      m1    == Drop([m EXCEPT ![b].size = Wrap(@ + SumSizes(m, abs)), ![b].next = stop],
                    ToSet(abs))
      free1 == Wrap(h.free - SumSizes(m, abs))
  IN IF CanSplit(h, m1, b, rt)
     THEN LET m2 == Split(m1, b, rt)
          IN [heap |-> [h EXCEPT !.free = Wrap(free1 + m2[Wrap(b + rt)].size)], mem |-> m2]
     ELSE [heap |-> [h EXCEPT !.free = free1], mem |-> m1]

ReallocOp(h, m, p, n) ==
  LET fail == [heap |-> h, mem |-> m, ptr |-> NULL]
      b    == ReallocBlock(h, m, p)
  IN IF p = NULL THEN AllocOp(h, m, n)
     ELSE IF n = 0 THEN FreeOp(h, m, p) @@ [ptr |-> NULL]
     ELSE IF p < h.start \/ p >= h.end \/ b = NULL THEN fail
     ELSE
     LET old == Wrap(m[b].size - HeaderSize)
         an  == align_size(n)
         rt  == Wrap(an + HeaderSize)
         g   == GrowScan(m, m[b].next, m[b].size, b, rt, h.end, MaxBlocks)
         r   == AllocOp(h, m, n)
     IN IF an <= old THEN ShrinkOp(h, m, b, rt, old, an) @@ [ptr |-> p]
        ELSE IF g.avail >= rt THEN GrowInPlaceOp(h, m, b, rt, g.last) @@ [ptr |-> p]
        ELSE IF r.ptr = NULL THEN fail
        ELSE FreeOp(r.heap, r.mem, p) @@ [ptr |-> r.ptr]

(***************************************************************************)
(* heap_calloc and heap_alloc_aligned.                                     *)
(***************************************************************************)
CallocOp(h, m, num, size) ==
  IF num = 0 \/ size = 0 \/ num > SizeMax \div size
  THEN [heap |-> h, mem |-> m, ptr |-> NULL]
  ELSE AllocOp(h, m, num * size)

IsPowerOfTwo(x) == \E k \in 0..Width : 2 ^ k = x

AllocAlignedOp(h, m, size, al) ==
  LET r       == AllocOp(h, m, Wrap(size + al + HeaderSize))
      aligned == align_address(r.ptr, al)
  IN IF size = 0 \/ al = 0 \/ ~IsPowerOfTwo(al) \/ r.ptr = NULL
     THEN [heap |-> h, mem |-> m, ptr |-> NULL]
     ELSE IF Wrap(aligned + size) <= r.heap.end /\ aligned >= r.heap.start
     THEN r
     ELSE FreeOp(r.heap, r.mem, r.ptr) @@ [ptr |-> NULL]

(***************************************************************************)
(* The state machine.                                                      *)
(***************************************************************************)
\* kernel_heap is a zero-initialised global.
Init ==
  /\ heap = [start |-> NULL, end |-> NULL, size |-> 0, free |-> 0]
  /\ blocks = << >>
  /\ live = {}
  /\ dangling = {}

\* heap_create, called once by __kernelHeap_setup; its precondition checks
\* fail silently, i.e. the step does not happen.
HeapCreate ==
  LET size == HeapEnd - HeapStart
      fb   == HeapStart + HeaderSize
      eb   == HeapEnd - HeaderSize
  IN /\ heap.start = NULL
     /\ HeapStart # NULL /\ HeapEnd # NULL /\ HeapStart < HeapEnd
     /\ size >= HeaderSize * 2
     /\ heap' = [start |-> HeapStart, end |-> HeapEnd, size |-> size,
                 free |-> size - HeaderSize * 2]
     /\ blocks' = (HeapStart :> [size |-> HeaderSize, next |-> fb, free |-> FALSE, magic |-> TRUE])
                  @@ (fb :> [size |-> size - HeaderSize * 2, next |-> eb, free |-> TRUE, magic |-> TRUE])
                  @@ (eb :> [size |-> HeaderSize, next |-> NULL, free |-> FALSE, magic |-> TRUE])
     /\ UNCHANGED <<live, dangling>>

\* Record the pointers a caller gives up, when callers keep stale copies.
GiveUp(P) == IF KeepStale THEN dangling \cup P ELSE dangling

Allocation(p, req, al) == [ptr |-> p, req |-> req, align |-> al]

\* Apply the result r of an operation: the caller gives up the pointers in
\* gone and holds the returned pointer, if any.
Apply(r, gone, req, al) ==
  /\ heap' = r.heap
  /\ blocks' = r.mem
  /\ live' = (live \ gone) \cup (IF r.ptr = NULL THEN {} ELSE {Allocation(r.ptr, req, al)})
  /\ dangling' = GiveUp({g.ptr : g \in gone} \ {r.ptr, NULL})

\* heap_alloc, and kmalloc which forwards to it.
HeapAlloc ==
  \E req \in AllocSizes : Apply(AllocOp(heap, blocks, req), {}, req, 1)

\* heap_free (kfree) of a pointer the caller holds, which it gives up.
HeapFree ==
  \E e \in live :
     /\ heap' = FreeOp(heap, blocks, e.ptr).heap
     /\ blocks' = FreeOp(heap, blocks, e.ptr).mem
     /\ live' = live \ {e}
     /\ dangling' = GiveUp({e.ptr})

\* heap_free of a pointer the caller does not hold: foreign, or freed before.
\* Every other caller keeps what it holds.
HeapFreeStray ==
  \E p \in StrayPtrs :
     /\ heap' = FreeOp(heap, blocks, p).heap
     /\ blocks' = FreeOp(heap, blocks, p).mem
     /\ UNCHANGED <<live, dangling>>

\* A caller frees a pointer it gave up before: a double free.  Only the
\* specification SpecDoubleFree lets callers do this.
HeapDoubleFree ==
  \E p \in dangling :
     /\ heap' = FreeOp(heap, blocks, p).heap
     /\ blocks' = FreeOp(heap, blocks, p).mem
     /\ UNCHANGED <<live, dangling>>

\* heap_realloc on a held pointer or on NULL.
HeapRealloc ==
  \E e \in live \cup {Allocation(NULL, 0, 1)}, n \in ResizeSizes :
     LET r == ReallocOp(heap, blocks, e.ptr, n)
     IN Apply(r, IF r.ptr # NULL \/ n = 0 THEN {e} ELSE {}, n, 1)

HeapCalloc ==
  \E a \in CallocArgs : Apply(CallocOp(heap, blocks, a[1], a[2]), {}, a[1] * a[2], 1)

HeapAllocAligned ==
  \E a \in AlignedArgs : Apply(AllocAlignedOp(heap, blocks, a[1], a[2]), {}, a[1], a[2])

\* heap_destroy resets the bookkeeping; pointers into the heap die with it.
HeapDestroy ==
  /\ heap.start # NULL
  /\ heap' = [start |-> NULL, end |-> NULL, size |-> 0, free |-> 0]
  /\ live' = {}
  /\ UNCHANGED <<blocks, dangling>>

Next ==
  \/ HeapCreate
  \/ HeapAlloc
  \/ HeapFree
  \/ HeapFreeStray
  \/ HeapRealloc
  \/ HeapCalloc
  \/ HeapAllocAligned
  \/ HeapDestroy

Spec == Init /\ [][Next]_vars

SpecDoubleFree == Init /\ [][Next \/ HeapDoubleFree]_vars

(***************************************************************************)
(* Properties.  All of them speak of a created heap: heap_create has run   *)
(* and heap_destroy has not.                                               *)
(***************************************************************************)
Created == heap.start # NULL

Blocks == Chain(heap, blocks)

\* The allocation records the clients hold, and the blocks the heap has
\* handed out (non-free blocks of the chain other than the sentinels).
Owned == {a \in ToSet(Blocks) : ~blocks[a].free} \ {heap.start, heap.end - HeaderSize}

\* Type invariant; every header lies inside the region at a word-aligned
\* offset from its start, which is what align_size is there to ensure.
TypeOK ==
  /\ heap \in [start : 0..SizeMax, end : 0..SizeMax, size : 0..SizeMax, free : 0..SizeMax]
  /\ \A a \in DOMAIN blocks : /\ blocks[a] \in Header
                              /\ a \in HeapStart..(HeapEnd - HeaderSize)
                              /\ (a - HeapStart) % WordSize = 0
  /\ live \subseteq [ptr : 1..SizeMax, req : 0..SizeMax, align : 1..SizeMax]
  /\ dangling \subseteq 1..SizeMax

\* The chain that heap_alloc, heap_free and heap_realloc walk runs from the
\* head sentinel at heap->start to the tail sentinel at heap->end - header,
\* every header is valid, every `next` link is the address right after its
\* block (blocks tile the region with no gap and no overlap), and both
\* sentinels stay non-free blocks of one header.  Every split, merge and
\* in-place growth of heap.c must rewrite size and next consistently.
ChainWellFormed ==
  Created =>
    LET ch == Blocks
        n  == Len(ch)
    IN /\ n >= 3
       /\ ch[1] = heap.start /\ ch[n] = heap.end - HeaderSize
       /\ \A i \in DOMAIN ch : is_valid_block(blocks, ch[i])
       /\ \A i \in {1, n} : ~blocks[ch[i]].free /\ blocks[ch[i]].size = HeaderSize
       /\ \A i \in 1..(n - 1) : /\ blocks[ch[i]].next = ch[i + 1]
                                /\ ch[i + 1] = ch[i] + blocks[ch[i]].size
       /\ blocks[ch[n]].next = NULL

\* Coalescing is complete (spec section 3): after every heap_free,
\* heap_realloc and heap_alloc_aligned, no two neighbouring blocks of the
\* chain are both free.
NoAdjacentFree ==
  Created =>
    \A i \in 1..(Len(Blocks) - 1) : ~(blocks[Blocks[i]].free /\ blocks[Blocks[i + 1]].free)

\* heap->free, which heap_alloc, heap_free and heap_realloc adjust on every
\* split, merge and absorption, equals the total size of the free blocks
\* of the chain.
FreeCounterExact ==
  Created =>
    heap.free = MapThenSumSet(LAMBDA a : blocks[a].size,
                              {a \in ToSet(Blocks) : blocks[a].free})

\* The allocator and its callers agree on ownership: every pointer a caller
\* holds is the data area of a distinct non-free block whose data area is
\* at least as large as the size the caller asked for, and every block the
\* heap has handed out is held by exactly one caller (nothing leaks).  This
\* is P1 (no overlap), P2 (bounds) and, with NoAdjacentFree, P3.
Ownership ==
  Created =>
    /\ \A e \in live : /\ e.ptr - HeaderSize \in Owned
                       /\ e.req <= blocks[e.ptr - HeaderSize].size - HeaderSize
    /\ \A a \in Owned : Cardinality({e \in live : e.ptr = a + HeaderSize}) = 1

\* P5: every pointer heap_alloc_aligned returns is a multiple of the
\* requested alignment.
AlignedContract ==
  \A e \in live : e.ptr % e.align = 0

=============================================================================
