--------------------------------- MODULE Mem ---------------------------------
(***************************************************************************)
(* memory.c: the kernel's byte and word routines.  A memory is a function *)
(* from the addresses Addr to byte values; every routine is an operator    *)
(* translated from its loops (the word-sized fast paths included, a word  *)
(* store being one read of the whole source word followed by one write),  *)
(* and every step of the specification is one call, on a memory from Mems *)
(* and with arguments from small sets, recording the memory before (`pre`) *)
(* and after (`mem`) and the return value.  The properties compare each   *)
(* call with a reference definition of what the routine promises.  Calls   *)
(* stay inside the modelled memory: reaching outside it is the caller's    *)
(* undefined behaviour.                                                    *)
(***************************************************************************)
EXTENDS Integers, Sequences, FiniteSetsExt, Bitwise

CONSTANTS WordSize,   \* sizeof(void*): 4 on i386
          Addr,       \* the modelled addresses, an interval not containing 0
          Mems,       \* the memory contents a call can find
          Ptrs,       \* the pointer arguments callers pass (NULL = 0 included)
          Lens,       \* the byte counts callers pass
          Ints,       \* the int arguments of memset, memchr, memccpy, memrchr
          Patterns,   \* the uint32 patterns of memory_pattern_fill/check
          Alignments, \* the alignments passed to memalign_copy, is_aligned, align_ptr
          PtrWidth    \* bits of uintptr_t (32 on i386; a few bits suffice here)

NULL == 0

VARIABLES pre, mem, call, ret

vars == <<pre, mem, call, ret>>

\* (unsigned char)c
UChar(c) == c % 256

\* IS_WORD_ALIGNED
WordAligned(p) == p % WordSize = 0

\* One store of a w-byte unit read whole from s to d.
Store(m, d, s, w) == [a \in DOMAIN m |-> IF d <= a /\ a < d + w THEN m[s + a - d] ELSE m[a]]

\* `while (n--) *d++ = *s++;`
RECURSIVE CopyUp(_, _, _, _)
CopyUp(m, d, s, n) == IF n = 0 THEN m ELSE CopyUp([m EXCEPT ![d] = m[s]], d + 1, s + 1, n - 1)

\* `while (words--) *wd++ = *ws++;` with units of w bytes.
RECURSIVE CopyUnits(_, _, _, _, _)
CopyUnits(m, d, s, k, w) ==
  IF k = 0 THEN m ELSE CopyUnits(Store(m, d, s, w), d + w, s + w, k - 1, w)

\* memmove's `while (n--) *d-- = *s--;` from the last byte down.
RECURSIVE CopyDown(_, _, _, _)
CopyDown(m, d, s, n) ==
  IF n = 0 THEN m ELSE CopyDown([m EXCEPT ![d + n - 1] = m[s + n - 1]], d, s, n - 1)

\* Writing the bytes of the sequence bs at p, first to last.
Put(m, p, bs) == [a \in DOMAIN m |-> IF p <= a /\ a < p + Len(bs) THEN bs[a - p + 1] ELSE m[a]]

\* Little-endian bytes of an unsigned value of w bytes.
RECURSIVE LEBytes(_, _)
LEBytes(v, w) == IF w = 0 THEN << >> ELSE <<v % 256>> \o LEBytes(v \div 256, w - 1)

memcpy(m, d, s, n) ==
  IF d = NULL \/ s = NULL \/ n = 0 THEN m
  ELSE IF WordAligned(d) /\ WordAligned(s) /\ n >= WordSize
  THEN LET k == n \div WordSize
       IN CopyUp(CopyUnits(m, d, s, k, WordSize), d + k * WordSize, s + k * WordSize,
                 n % WordSize)
  ELSE CopyUp(m, d, s, n)

\* Mutant: the forward copy is taken whenever dest lies after src.
memmoveWrongSide(m, d, s, n) ==
  IF d = NULL \/ s = NULL \/ n = 0 THEN m
  ELSE IF d > s \/ d >= s + n THEN memcpy(m, d, s, n)
  ELSE CopyDown(m, d, s, n)

memmove(m, d, s, n) ==
  IF d = NULL \/ s = NULL \/ n = 0 THEN m
  ELSE IF d < s \/ d >= s + n THEN memcpy(m, d, s, n)
  ELSE CopyDown(m, d, s, n)

\* `word_pattern = (word_pattern << 8) | uc`, WordSize times, as bytes.
RECURSIVE ShiftIn(_, _, _)
ShiftIn(bs, b, k) == IF k = 0 THEN bs ELSE ShiftIn(<<b>> \o SubSeq(bs, 1, Len(bs) - 1), b, k - 1)

RECURSIVE FillUnits(_, _, _, _)
FillUnits(m, p, bs, k) == IF k = 0 THEN m ELSE FillUnits(Put(m, p, bs), p + Len(bs), bs, k - 1)

\* Mutant: c is stored without the conversion to unsigned char.
memsetNoUChar(m, p, c, n) ==
  IF p = NULL \/ n = 0 THEN m
  ELSE IF WordAligned(p) /\ n >= WordSize
       THEN LET k == n \div WordSize
                pattern == ShiftIn([i \in 1..WordSize |-> 0], c, WordSize)
            IN Put(FillUnits(m, p, pattern, k), p + k * WordSize,
                   [i \in 1..n % WordSize |-> c])
       ELSE Put(m, p, [i \in 1..n |-> c])

memset(m, p, c, n) ==
  IF p = NULL \/ n = 0 THEN m
  ELSE LET uc == UChar(c) IN
       IF WordAligned(p) /\ n >= WordSize
       THEN LET k == n \div WordSize
                pattern == ShiftIn([i \in 1..WordSize |-> 0], uc, WordSize)
            IN Put(FillUnits(m, p, pattern, k), p + k * WordSize,
                   [i \in 1..n % WordSize |-> uc])
       ELSE Put(m, p, [i \in 1..n |-> uc])

RECURSIVE Cmp(_, _, _, _)
Cmp(m, p1, p2, n) ==
  IF n = 0 THEN 0 ELSE IF m[p1] # m[p2] THEN m[p1] - m[p2] ELSE Cmp(m, p1 + 1, p2 + 1, n - 1)

memcmp(m, s1, s2, n) == IF s1 = NULL \/ s2 = NULL \/ n = 0 THEN 0 ELSE Cmp(m, s1, s2, n)

RECURSIVE FindUp(_, _, _, _)
FindUp(m, p, uc, n) == IF n = 0 THEN NULL ELSE IF m[p] = uc THEN p ELSE FindUp(m, p + 1, uc, n - 1)

RECURSIVE FindDown(_, _, _, _)
FindDown(m, p, uc, n) == IF n = 0 THEN NULL ELSE IF m[p] = uc THEN p ELSE FindDown(m, p - 1, uc, n - 1)

\* Mutant: the backward scan starts one byte past the region.
memrchrPastEnd(m, s, c, n) == IF s = NULL \/ n = 0 THEN NULL ELSE FindDown(m, s + n, UChar(c), n)

memchr(m, s, c, n) == IF s = NULL \/ n = 0 THEN NULL ELSE FindUp(m, s, UChar(c), n)

memrchr(m, s, c, n) == IF s = NULL \/ n = 0 THEN NULL ELSE FindDown(m, s + n - 1, UChar(c), n)

\* `*d = *s; if (*s == uc) return d + 1;`: the test reads src after the
\* store to dest.  Yields <<memory, return value>>.
RECURSIVE CcpyLoop(_, _, _, _, _)
CcpyLoop(m, d, s, uc, n) ==
  IF n = 0 THEN <<m, NULL>>
  ELSE LET m2 == [m EXCEPT ![d] = m[s]]
       IN IF m2[s] = uc THEN <<m2, d + 1>> ELSE CcpyLoop(m2, d + 1, s + 1, uc, n - 1)

memccpy(m, d, s, c, n) ==
  IF d = NULL \/ s = NULL \/ n = 0 THEN <<m, NULL>> ELSE CcpyLoop(m, d, s, UChar(c), n)

RECURSIVE SwapLoop(_, _, _, _)
SwapLoop(m, a, b, n) ==
  IF n = 0 THEN m ELSE SwapLoop([m EXCEPT ![a] = m[b], ![b] = m[a]], a + 1, b + 1, n - 1)

memswap(m, a, b, n) == IF a = NULL \/ b = NULL \/ n = 0 \/ a = b THEN m ELSE SwapLoop(m, a, b, n)

\* Mutant: the 4-byte step is skipped, and its bytes with it.
fast_memcpyNoHalf(m, d, s, n) ==
  IF d = NULL \/ s = NULL \/ n = 0 THEN m
  ELSE IF WordAligned(d) /\ WordAligned(s) /\ n >= 8
  THEN LET k == n \div 8  r == n % 8
           m1 == CopyUnits(m, d, s, k, 8)
       IN IF r >= 4 THEN CopyUp(m1, d + 8 * k + 4, s + 8 * k + 4, r - 4)
          ELSE CopyUp(m1, d + 8 * k, s + 8 * k, r)
  ELSE memcpy(m, d, s, n)

\* uint64_t copies while 8 bytes remain, one uint32_t copy if 4 do, then bytes.
fast_memcpy(m, d, s, n) ==
  IF d = NULL \/ s = NULL \/ n = 0 THEN m
  ELSE IF WordAligned(d) /\ WordAligned(s) /\ n >= 8
  THEN LET k == n \div 8  r == n % 8
           m1 == CopyUnits(m, d, s, k, 8)
       IN IF r >= 4 THEN CopyUp(Store(m1, d + 8 * k, s + 8 * k, 4), d + 8 * k + 4, s + 8 * k + 4, r - 4)
          ELSE CopyUp(m1, d + 8 * k, s + 8 * k, r)
  ELSE memcpy(m, d, s, n)

\* `pattern |= pattern << 8 * k` on the little-endian bytes of a uint64_t.
OrShift(bs, k) == [i \in 1..8 |-> bs[i] | (IF i > k THEN bs[i - k] ELSE 0)]

\* Mutant: the pattern is widened to 32 bits only (`pattern << 32` left out).
fast_memsetHalfPattern(m, p, c, n) ==
  IF p = NULL \/ n = 0 THEN m
  ELSE IF WordAligned(p) /\ n >= 8
  THEN LET k == n \div 8
           pattern == OrShift(OrShift(LEBytes(UChar(c), 8), 1), 2)
       IN Put(FillUnits(m, p, pattern, k), p + 8 * k, [i \in 1..n % 8 |-> UChar(c)])
  ELSE memset(m, p, c, n)

fast_memset(m, p, c, n) ==
  IF p = NULL \/ n = 0 THEN m
  ELSE IF WordAligned(p) /\ n >= 8
  THEN LET k == n \div 8
           pattern == OrShift(OrShift(OrShift(LEBytes(UChar(c), 8), 1), 2), 4)
       IN Put(FillUnits(m, p, pattern, k), p + 8 * k, [i \in 1..n % 8 |-> UChar(c)])
  ELSE memset(m, p, c, n)

fast_memmove(m, d, s, n) ==
  IF d + n <= s \/ s + n <= d THEN fast_memcpy(m, d, s, n) ELSE memmove(m, d, s, n)

is_aligned(p, al) ==
  IF al = 0 \/ (al & (al - 1)) # 0 THEN FALSE ELSE (p & (al - 1)) = 0

memalign_copy(m, d, s, n, al) ==
  IF ~is_aligned(d, al) \/ ~is_aligned(s, al) THEN memcpy(m, d, s, n) ELSE fast_memcpy(m, d, s, n)

\* Mutant: alignment - 1 is not added, so the pointer is rounded down.
align_ptrDown(p, al) ==
  IF al = 0 \/ (al & (al - 1)) # 0 THEN p
  ELSE LET x == p % 2^PtrWidth IN x - (x & (al - 1))

\* (addr + alignment - 1) & ~(alignment - 1) in uintptr_t.
align_ptr(p, al) ==
  IF al = 0 \/ (al & (al - 1)) # 0 THEN p
  ELSE LET x == (p + al - 1) % 2^PtrWidth IN x - (x & (al - 1))

is_valid_memory_range(p, size) ==
  IF p = NULL \/ size = 0 THEN FALSE
  ELSE LET end == (p + size - 1) % 2^PtrWidth IN ~(end < p)

\* Whole uint32_t stores of the pattern, then its first (lowest) bytes.
memory_pattern_fill(m, p, size, pattern) ==
  IF p = NULL \/ size = 0 THEN m
  ELSE LET words == size \div 4  bytes == LEBytes(pattern, 4)
       IN Put(FillUnits(m, p, bytes, words), p + 4 * words, SubSeq(bytes, 1, size % 4))

Bytes(m, p, n) == [i \in 1..n |-> m[p + i - 1]]

memory_pattern_check(m, p, size, pattern) ==
  IF p = NULL \/ size = 0 THEN FALSE
  ELSE LET words == size \div 4  bytes == LEBytes(pattern, 4)
       IN /\ \A k \in 0..words - 1 : Bytes(m, p + 4 * k, 4) = bytes
          /\ Bytes(m, p + 4 * words, size % 4) = SubSeq(bytes, 1, size % 4)

secure_zero(m, p, size) == IF p = NULL \/ size = 0 THEN m ELSE Put(m, p, [i \in 1..size |-> 0])

\* safe_memcpy and safe_memmove: <<memory, return value>>.
safe_memcpy(m, d, dsz, s, ssz) ==
  IF d = NULL \/ s = NULL \/ dsz = 0 \/ ssz = 0 THEN <<m, -1>>
  ELSE <<memcpy(m, d, s, Min({ssz, dsz})), IF ssz <= dsz THEN 0 ELSE 1>>

safe_memmove(m, d, dsz, s, ssz) ==
  IF d = NULL \/ s = NULL \/ dsz = 0 \/ ssz = 0 THEN <<m, -1>>
  ELSE <<memmove(m, d, s, Min({ssz, dsz})), IF ssz <= dsz THEN 0 ELSE 1>>

(***************************************************************************)
(* Calls.  A call's region [p, p + n) lies in Addr unless p is NULL or n  *)
(* is 0; `x` is the routine's extra argument (c, pattern, alignment, or   *)
(* dest_size), 0 when it has none.                                        *)
(***************************************************************************)
Fits(p, n) == p = NULL \/ n = 0 \/ (p \in Addr /\ p + n - 1 \in Addr)

Did(m0, op, d, s, n, x, m2, r) ==
  /\ pre' = m0
  /\ mem' = m2
  /\ ret' = r
  /\ call' = [op |-> op, d |-> d, s |-> s, n |-> n, x |-> x]

\* A two-pointer routine with no extra argument: dest, src, n.
Pair(op, Result(_, _, _, _), Return(_, _, _)) ==
  \E m0 \in Mems, d, s \in Ptrs, n \in Lens :
    /\ Fits(d, n) /\ Fits(s, n)
    /\ Did(m0, op, d, s, n, 0, Result(m0, d, s, n), Return(d, s, n))

Dest(d, s, n) == d
Zero(d, s, n) == 0

Init ==
  /\ pre \in Mems
  /\ mem = pre
  /\ call = [op |-> "none", d |-> NULL, s |-> NULL, n |-> 0, x |-> 0]
  /\ ret = 0

CallMemcpy == Pair("memcpy", memcpy, Dest)
CallMemmove == Pair("memmove", memmove, Dest)
CallFastMemcpy == Pair("fast_memcpy", fast_memcpy, Dest)
CallFastMemmove == Pair("fast_memmove", fast_memmove, Dest)
CallMemswap == Pair("memswap", memswap, Zero)
CallMemcmp ==
  \E m0 \in Mems, a, b \in Ptrs, n \in Lens :
    Fits(a, n) /\ Fits(b, n) /\ Did(m0, "memcmp", a, b, n, 0, m0, memcmp(m0, a, b, n))

CallMemalignCopy ==
  \E m0 \in Mems, d, s \in Ptrs, n \in Lens, al \in Alignments :
    /\ Fits(d, n) /\ Fits(s, n)
    /\ Did(m0, "memalign_copy", d, s, n, al, memalign_copy(m0, d, s, n, al), d)

CallMemccpy ==
  \E m0 \in Mems, d, s \in Ptrs, n \in Lens, c \in Ints :
    LET out == memccpy(m0, d, s, c, n)
    IN Fits(d, n) /\ Fits(s, n) /\ Did(m0, "memccpy", d, s, n, c, out[1], out[2])

\* The routines on one region with an int argument.
CallOnRegion ==
  \E m0 \in Mems, p \in Ptrs, n \in Lens, c \in Ints :
    /\ Fits(p, n)
    /\ \/ Did(m0, "memset", p, NULL, n, c, memset(m0, p, c, n), p)
       \/ Did(m0, "fast_memset", p, NULL, n, c, fast_memset(m0, p, c, n), p)
       \/ Did(m0, "memchr", p, NULL, n, c, m0, memchr(m0, p, c, n))
       \/ Did(m0, "memrchr", p, NULL, n, c, m0, memrchr(m0, p, c, n))
       \/ Did(m0, "secure_zero", p, NULL, n, 0, secure_zero(m0, p, n), 0)

CallPattern ==
  \E m0 \in Mems, p \in Ptrs, n \in Lens, v \in Patterns :
    /\ Fits(p, n)
    /\ \/ Did(m0, "memory_pattern_fill", p, NULL, n, v, memory_pattern_fill(m0, p, n, v), 0)
       \/ Did(m0, "memory_pattern_check", p, NULL, n, v, m0, memory_pattern_check(m0, p, n, v))

\* safe_memcpy/safe_memmove(dest, dest_size, src, src_size): `n` is
\* src_size and `x` dest_size.
CallSafe ==
  \E m0 \in Mems, d, s \in Ptrs, dsz, ssz \in Lens :
    /\ Fits(d, dsz) /\ Fits(s, ssz)
    /\ \/ LET out == safe_memcpy(m0, d, dsz, s, ssz)
          IN Did(m0, "safe_memcpy", d, s, ssz, dsz, out[1], out[2])
       \/ LET out == safe_memmove(m0, d, dsz, s, ssz)
          IN Did(m0, "safe_memmove", d, s, ssz, dsz, out[1], out[2])

\* The address helpers, on any pointer value.
CallAddress ==
  \E p \in 0..2^PtrWidth - 1, al \in Alignments, n \in Lens :
    /\ pre' = pre /\ mem' = pre
    /\ \/ call' = [op |-> "is_aligned", d |-> p, s |-> NULL, n |-> 0, x |-> al]
          /\ ret' = is_aligned(p, al)
       \/ call' = [op |-> "align_ptr", d |-> p, s |-> NULL, n |-> 0, x |-> al]
          /\ ret' = align_ptr(p, al)
       \/ call' = [op |-> "is_valid_memory_range", d |-> p, s |-> NULL, n |-> n, x |-> 0]
          /\ ret' = is_valid_memory_range(p, n)

\* A behaviour is one call: the routines keep no state between calls, so
\* every call starts from one of the memories in Mems.
Next ==
  /\ call.op = "none"
  /\ \/ CallMemcpy \/ CallMemmove \/ CallFastMemcpy \/ CallFastMemmove \/ CallMemswap
     \/ CallMemcmp \/ CallMemalignCopy \/ CallMemccpy \/ CallOnRegion \/ CallPattern
     \/ CallSafe \/ CallAddress

Spec == Init /\ [][Next]_vars

(***************************************************************************)
(* Properties: each call against what the routine promises.               *)
(***************************************************************************)
Byte == 0..255

TypeOK ==
  /\ pre \in Mems
  /\ mem \in [Addr -> Byte]
  /\ call.op \in {"none", "memcpy", "memmove", "fast_memcpy", "fast_memmove",
                  "memswap", "memcmp", "memalign_copy", "memccpy", "memset",
                  "fast_memset", "memchr", "memrchr", "secure_zero",
                  "memory_pattern_fill", "memory_pattern_check", "safe_memcpy",
                  "safe_memmove", "is_aligned", "align_ptr", "is_valid_memory_range"}

\* dest's n bytes become src's n bytes as they were before the call, and
\* no other byte changes.
Copied(d, s, n) ==
  IF d = NULL \/ s = NULL \/ n = 0 THEN mem = pre ELSE mem = Put(pre, d, Bytes(pre, s, n))

Disjoint(d, s, n) == d + n <= s \/ s + n <= d

SafeResult(d, dsz, s, ssz) ==
  IF d = NULL \/ s = NULL \/ dsz = 0 \/ ssz = 0 THEN mem = pre /\ ret = -1
  ELSE Copied(d, s, Min({ssz, dsz})) /\ ret = IF ssz <= dsz THEN 0 ELSE 1

\* memmove, fast_memmove and safe_memmove copy correctly whatever the
\* overlap: memmove copies forward, through memcpy's word loop, when dest
\* starts before src, and backward otherwise; fast_memmove picks
\* fast_memcpy's 8/4/1-byte copies only for disjoint regions.
MoveCorrect ==
  LET c == call IN
  /\ c.op \in {"memmove", "fast_memmove"} => Copied(c.d, c.s, c.n) /\ ret = c.d
  /\ c.op = "safe_memmove" => SafeResult(c.d, c.x, c.s, c.n)

\* memcpy, fast_memcpy, memalign_copy and safe_memcpy on disjoint regions
\* copy exactly n bytes through their word, 8-byte, 4-byte and byte loops,
\* for every alignment of dest and src; memccpy copies up to and including
\* the first byte equal to (unsigned char)c and returns the byte after it
\* in dest, or NULL; memswap exchanges the two regions.
CopyCorrect ==
  LET c == call  k == {i \in 0..c.n - 1 : pre[c.s + i] = UChar(c.x)} IN
  /\ c.op \in {"memcpy", "fast_memcpy", "memalign_copy"} /\ Disjoint(c.d, c.s, c.n)
       => Copied(c.d, c.s, c.n)
  /\ c.op = "safe_memcpy" /\ Disjoint(c.d, c.s, Min({c.n, c.x})) => SafeResult(c.d, c.x, c.s, c.n)
  /\ c.op = "memccpy" /\ Disjoint(c.d, c.s, c.n) =>
       IF c.d = NULL \/ c.s = NULL \/ c.n = 0 THEN mem = pre /\ ret = NULL
       ELSE IF k = {} THEN Copied(c.d, c.s, c.n) /\ ret = NULL
       ELSE Copied(c.d, c.s, Min(k) + 1) /\ ret = c.d + Min(k) + 1
  /\ c.op = "memswap" /\ Disjoint(c.d, c.s, c.n) /\ c.d # NULL /\ c.s # NULL =>
       mem = Put(Put(pre, c.d, Bytes(pre, c.s, c.n)), c.s, Bytes(pre, c.d, c.n))

\* memset and fast_memset store (unsigned char)c in each of the n bytes
\* (the word pattern built by shifting holds that byte in every lane),
\* secure_zero stores 0, memory_pattern_fill repeats the pattern's
\* little-endian bytes, and memory_pattern_check accepts exactly a region
\* that memory_pattern_fill would have written.  No byte outside changes.
FillCorrect ==
  LET c == call
      filled(bs) == IF c.d = NULL \/ c.n = 0 THEN pre ELSE Put(pre, c.d, bs)
      pattern == [i \in 1..c.n |-> LEBytes(c.x, 4)[((i - 1) % 4) + 1]]
  IN /\ c.op \in {"memset", "fast_memset"} => mem = filled([i \in 1..c.n |-> UChar(c.x)])
     /\ c.op = "secure_zero" => mem = filled([i \in 1..c.n |-> 0])
     /\ c.op = "memory_pattern_fill" => mem = filled(pattern)
     /\ c.op = "memory_pattern_check" =>
          ret = (c.d # NULL /\ c.n # 0 /\ Bytes(pre, c.d, c.n) = pattern)

\* memchr and memrchr return the first and the last address of the region
\* holding (unsigned char)c, or NULL; memcmp's sign is that of the first
\* differing pair of unsigned bytes, and 0 when there is none.
SearchCorrect ==
  LET c == call
      hits == {a \in Addr : c.d # NULL /\ c.d <= a /\ a < c.d + c.n /\ pre[a] = UChar(c.x)}
      diff == {i \in 0..c.n - 1 : pre[c.d + i] # pre[c.s + i]}
  IN /\ c.op = "memchr" => ret = IF hits = {} THEN NULL ELSE Min(hits)
     /\ c.op = "memrchr" => ret = IF hits = {} THEN NULL ELSE Max(hits)
     /\ c.op = "memcmp" =>
          IF c.d = NULL \/ c.s = NULL \/ diff = {} THEN ret = 0
          ELSE LET i == Min(diff) IN
               (ret < 0 <=> pre[c.d + i] < pre[c.s + i]) /\ ret # 0

\* is_aligned holds exactly for a power-of-two alignment dividing p;
\* align_ptr returns the least multiple of a power-of-two alignment not
\* below p whenever the address space has one, NULL when it has none (the
\* sum wraps past the top of uintptr_t), and p for any other alignment; is_valid_memory_range accepts exactly the non-empty ranges
\* from a non-NULL p that do not run past the top of the address space.
AddressCorrect ==
  LET c == call  p == c.d  al == c.x
      pow2 == al \in {2^i : i \in 0..PtrWidth}
      up == {q \in p..2^PtrWidth - 1 : q % al = 0}
  IN /\ c.op = "is_aligned" => ret = (pow2 /\ p % al = 0)
     /\ c.op = "align_ptr" =>
          ret = IF ~pow2 THEN p ELSE IF up = {} THEN NULL ELSE Min(up)
     /\ c.op = "is_valid_memory_range" =>
          ret = (p # NULL /\ c.n > 0 /\ p + c.n <= 2^PtrWidth)

=============================================================================
