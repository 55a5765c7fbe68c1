------------------------------- MODULE Convert -------------------------------
(***************************************************************************)
(* convert.c: the integer-to-string routines and the digit counters.      *)
(* A character is its byte value; a buffer is the sequence of bytes a     *)
(* routine writes before its terminating NUL.  Every routine is an        *)
(* operator translated from its loop, with C's truncating / and %, and    *)
(* with the integer widths as constants: a value is two's complement of   *)
(* its type's width, so -INT_MIN wraps as the i386 build's neg does.  A   *)
(* read of digits[k] with k < 0 (value % base of a negative value) takes   *)
(* the byte the build placed k bytes before the array, from a layout of   *)
(* .rodata chosen among Layouts.  Every step of the specification is one  *)
(* call, recorded with what it wrote and the digits[] indices it read;    *)
(* the properties compare it with reference definitions.                  *)
(***************************************************************************)
EXTENDS Integers, Sequences, Bitwise

CONSTANTS IntWidth,      \* bits of int and of long (both 32 on i386)
          LongLongWidth, \* bits of long long
          PtrWidth,      \* bits of uintptr_t
          IntArgs,       \* the int / long values callers pass
          LongLongArgs,  \* the long long values callers pass
          UIntArgs,      \* the unsigned int / unsigned long values
          ULongLongArgs, \* the unsigned long long values
          PtrArgs,       \* the pointers passed to ptoa
          Bases,         \* the bases callers pass, out-of-range ones included
          Layouts        \* byte k of a layout: the byte at digits[-k]

LongWidth == IntWidth

VARIABLES conv,  \* the call: routine, value and base
          out,   \* the bytes written before the NUL
          idx,   \* the digits[] indices the loop read, in order
          count  \* what numDigits / numDigitsUnsigned returned

cvars == <<conv, out, idx, count>>

Minus == 45  \* '-'
ASCIIx == 120 \* 'x'

\* digits[k] for 0 <= k < 36: "0123456789abcdefghijklmnopqrstuvwxyz"
Digit(k) == IF k < 10 THEN 48 + k ELSE 87 + k

\* digits[k] for any k the loop computes: below 0 it is a byte of .rodata.
Char(lay, k) == IF k >= 0 THEN Digit(k) ELSE lay[-k]

\* C's / and % on signed operands truncate toward zero.
CDiv(a, b) == IF a >= 0 THEN a \div b ELSE -((-a) \div b)
CMod(a, b) == a - b * CDiv(a, b)

\* The w-bit two's complement value of the integer v.
Wrap(v, w) == ((v + 2^(w - 1)) % 2^w) - 2^(w - 1)

\* reverseString: swap str[start] and str[end] while start < end.
RECURSIVE Swap(_, _, _)
Swap(s, start, end) ==
  IF start < end
  THEN Swap([s EXCEPT ![start + 1] = s[end + 1], ![end + 1] = s[start + 1]], start + 1, end - 1)
  ELSE s

reverseString(s, length) == Swap(s, 0, length - 1)

\* Mutant: the conversion loop written as a while loop.
RECURSIVE DigitLoopWhile(_, _)
DigitLoopWhile(v, b) ==
  IF v = 0 THEN << >> ELSE <<CMod(v, b)>> \o DigitLoopWhile(CDiv(v, b), b)

\* `do { ptr[i++] = digits[value % base]; value /= base; } while (value != 0);`
\* as the sequence of indices value % base, least significant first.
RECURSIVE DigitLoop(_, _)
DigitLoop(v, b) ==
  <<CMod(v, b)>> \o (IF CDiv(v, b) = 0 THEN << >> ELSE DigitLoop(CDiv(v, b), b))

BadBase(b) == b < 2 \/ b > 36

\* The buffer written from the loop's indices ks and an optional '-',
\* then reversed in place.
Emit(lay, ks, sign) ==
  LET body == [i \in 1..Len(ks) |-> Char(lay, ks[i])] \o sign
  IN reverseString(body, Len(body))

\* itoa, ltoa and lltoa: a value of w bits; only base 10 negates a
\* negative value and appends '-'.
SignedToA(lay, v, b, w) ==
  IF BadBase(b) THEN [out |-> << >>, idx |-> << >>]
  ELSE LET neg == v < 0 /\ b = 10
           ks == DigitLoop(IF neg THEN Wrap(-v, w) ELSE v, b)
       IN [out |-> Emit(lay, ks, IF neg THEN <<Minus>> ELSE << >>), idx |-> ks]

\* utoa and ultoa.
UnsignedToA(lay, v, b) ==
  IF BadBase(b) THEN [out |-> << >>, idx |-> << >>]
  ELSE LET ks == DigitLoop(v, b) IN [out |-> Emit(lay, ks, << >>), idx |-> ks]

\* ulltoa passes (unsigned long)value to ultoa.
ulltoa(lay, v, b) == UnsignedToA(lay, v % 2^LongWidth, b)

\* ptoa: "0x", then `digits[value & 0xF]; value >>= 4` while value != 0,
\* or '0' for NULL, reversed after the prefix.
RECURSIVE HexLoop(_)
HexLoop(v) == IF v = 0 THEN << >> ELSE <<v & 15>> \o HexLoop(shiftR(v, 4))

ptoa(lay, p) ==
  LET ks == IF p = 0 THEN <<0>> ELSE HexLoop(p)
  IN [out |-> <<48, ASCIIx>> \o Emit(lay, ks, << >>), idx |-> ks]

\* Mutant: the counting loop stops at the first non-positive value.
RECURSIVE CountPositive(_, _)
CountPositive(v, b) == IF v > 0 THEN 1 + CountPositive(v \div b, b) ELSE 0

NumDigitsPositiveLoop(v, b) ==
  IF v = 0 THEN 1
  ELSE IF v < 0 THEN 1 + CountPositive(Wrap(-v, LongLongWidth), b)
  ELSE CountPositive(v, b)

\* `while (value != 0) { value /= base; count++; }`
RECURSIVE CountLoop(_, _)
CountLoop(v, b) == IF v # 0 THEN 1 + CountLoop(CDiv(v, b), b) ELSE 0

\* numDigits: one more for the sign, and value = -value in long long.
numDigits(v, b) ==
  IF v = 0 THEN 1
  ELSE IF v < 0 THEN 1 + CountLoop(Wrap(-v, LongLongWidth), b)
  ELSE CountLoop(v, b)

numDigitsUnsigned(v, b) == IF v = 0 THEN 1 ELSE CountLoop(v, b)

-----------------------------------------------------------------------------
(***************************************************************************)
(* One call per behaviour.                                                 *)
(***************************************************************************)
NoCall == [op |-> "none", v |-> 0, b |-> 0]

Init ==
  /\ conv = NoCall
  /\ out = << >>
  /\ idx = << >>
  /\ count = 0

Wrote(op, v, b, r) ==
  /\ conv' = [op |-> op, v |-> v, b |-> b]
  /\ out' = r.out
  /\ idx' = r.idx
  /\ count' = 0

CallSigned ==
  \E lay \in Layouts, b \in Bases :
    \/ \E v \in IntArgs : Wrote("itoa", v, b, SignedToA(lay, v, b, IntWidth))
    \/ \E v \in IntArgs : Wrote("ltoa", v, b, SignedToA(lay, v, b, LongWidth))
    \/ \E v \in LongLongArgs : Wrote("lltoa", v, b, SignedToA(lay, v, b, LongLongWidth))

CallUnsigned ==
  \E lay \in Layouts, b \in Bases :
    \/ \E v \in UIntArgs : Wrote("utoa", v, b, UnsignedToA(lay, v, b))
    \/ \E v \in UIntArgs : Wrote("ultoa", v, b, UnsignedToA(lay, v, b))
    \/ \E v \in ULongLongArgs : Wrote("ulltoa", v, b, ulltoa(lay, v, b))

CallPtoa ==
  \E lay \in Layouts, p \in PtrArgs : Wrote("ptoa", p, 16, ptoa(lay, p))

\* numDigits divides by base and loops forever for base 1: callers pass
\* a base of 2..36.
CallNumDigits ==
  \E b \in Bases \ {x \in Bases : BadBase(x)} :
    /\ out' = << >> /\ idx' = << >>
    /\ \/ \E v \in LongLongArgs :
            conv' = [op |-> "numDigits", v |-> v, b |-> b] /\ count' = numDigits(v, b)
       \/ \E v \in ULongLongArgs :
            conv' = [op |-> "numDigitsUnsigned", v |-> v, b |-> b]
            /\ count' = numDigitsUnsigned(v, b)

Next == conv.op = "none" /\ (CallSigned \/ CallUnsigned \/ CallPtoa \/ CallNumDigits)

Spec == Init /\ [][Next]_cvars

-----------------------------------------------------------------------------
(***************************************************************************)
(* Properties: each call against what the routine promises.               *)
(***************************************************************************)
\* The base-b digits of n >= 0, most significant first.
RECURSIVE Repr(_, _)
Repr(n, b) == IF n < b THEN <<Digit(n)>> ELSE Repr(n \div b, b) \o <<Digit(n % b)>>

SignedRepr(v, b) == IF v < 0 THEN <<Minus>> \o Repr(-v, b) ELSE Repr(v, b)

SignedOps == {"itoa", "ltoa", "lltoa"}
ToAOps == SignedOps \cup {"utoa", "ultoa", "ulltoa"}

Width(op) == IF op = "lltoa" THEN LongLongWidth ELSE IntWidth

TypeOK ==
  /\ conv.op \in {"none", "ptoa", "numDigits", "numDigitsUnsigned"} \cup ToAOps
  /\ out \in Seq(Int)
  /\ idx \in Seq(-35..35)
  /\ count \in Nat

\* itoa, ltoa, lltoa, utoa, ultoa and ptoa write the base-b representation
\* of their value (with '-' for a negative value in base 10), through the
\* do-while loop, the sign and reverseString's swaps, and the empty string
\* for a base outside 2..36; ulltoa does so for values that fit in an
\* unsigned long.  A negative value in another base, and INT_MIN /
\* LLONG_MIN in base 10, are left out: for them the loop indexes digits[]
\* with a negative value % base, outside the array.
ConversionCorrect ==
  LET c == conv IN
  /\ c.op \in ToAOps /\ BadBase(c.b) => out = << >>
  /\ c.op \in SignedOps /\ ~BadBase(c.b)
     /\ (c.v >= 0 \/ (c.b = 10 /\ c.v # -2^(Width(c.op) - 1)))
       => out = SignedRepr(c.v, c.b)
  /\ c.op \in {"utoa", "ultoa"} /\ ~BadBase(c.b) => out = Repr(c.v, c.b)
  /\ c.op = "ulltoa" /\ ~BadBase(c.b) /\ c.v < 2^LongWidth => out = Repr(c.v, c.b)
  /\ c.op = "ptoa" => out = <<48, ASCIIx>> \o Repr(c.v, 16)

\* numDigits counts the characters lltoa writes in base 10 and the sign
\* with the digits in every base, LLONG_MIN included although -value wraps;
\* numDigitsUnsigned counts the digits of its value.
NumDigitsCorrect ==
  /\ conv.op = "numDigits" => count = Len(SignedRepr(conv.v, conv.b))
  /\ conv.op = "numDigitsUnsigned" => count = Len(Repr(conv.v, conv.b))

=============================================================================
