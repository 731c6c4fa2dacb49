------------------------------ MODULE Numbers ------------------------------
(* The integers of the runtime (runtime/src/value): the operators on two     *)
(* ints, with their range checks, and the positions of a slice.  An int is   *)
(* the cell <<"int", n>>; a float is an exact fraction; a panic is the cell  *)
(* <<"panic", why>>.                                                         *)
EXTENDS Integers

CONSTANTS Bits32, Bits64   \* the widths of i32 and i64
Max32 == 2^(Bits32 - 1) - 1
Max64 == 2^(Bits64 - 1) - 1
ASSUME WidthsDiffer ==
    /\ Bits32 \in Nat /\ Bits64 \in Nat
    /\ 1 < Bits32 /\ Bits32 < Bits64
    /\ Max32 \in Nat /\ Max64 \in Nat /\ Max32 < Max64
    /\ \A e \in 0..Bits64 - 1 : 2^e > 0

VInt(n)   == <<"int", n>>
VFloat(q) == <<"float", q>>
Bad(why)  == <<"panic", why>>

Fits(n, max) == -max - 1 <= n /\ n <= max
InI32(n) == Fits(n, Max32)
InI64(n) == Fits(n, Max64)
Wrap64(n) == ((n + Max64 + 1) % (2 * (Max64 + 1))) - Max64 - 1

Abs(n) == IF n < 0 THEN -n ELSE n
Sgn(n) == IF n < 0 THEN -1 ELSE IF n = 0 THEN 0 ELSE 1
Gcd(a, b) == LET G[p \in Nat, q \in Nat] == IF q = 0 THEN p ELSE G[q, p % q] IN G[a, b]
Frac(n, d) ==
    IF d = 0 THEN <<Sgn(n), 0>>
    ELSE LET g == Gcd(Abs(n), Abs(d)) IN <<(Sgn(d) * n) \div g, Abs(d) \div g>>
Quot(a, b) == Sgn(a) * Sgn(b) * (Abs(a) \div Abs(b))
Rem(a, b)  == a - b * Quot(a, b)

\* pow of integers with the exponent taken as u32: a negative one is huge.
PowI(a, n) ==
    IF a = 1 \/ n = 0 THEN 1
    ELSE IF a = 0 THEN 0
    ELSE IF a = -1 THEN (IF n % 2 = 0 THEN 1 ELSE -1)
    ELSE IF n < 0 \/ n > Bits64 THEN 2^Bits64 ELSE a^n

\* o.strict and o.debug are the run's strict_range_check and debug_mode.
Check64(o) == o.debug \/ ~o.strict
IntChecked(o, a, b, n) ==
    IF o.strict /\ ~(InI32(a) /\ InI32(b) /\ InI32(n)) THEN Bad("i32 overflow")
    ELSE IF Check64(o) /\ ~InI64(n) THEN Bad("i64 overflow")
    ELSE VInt(n)
\* The i64 check of a power refuses an exponent beyond i32, too.
PowChecked(o, a, b) ==
    IF InI32(b) THEN IntChecked(o, a, b, PowI(a, b))
    ELSE Bad(IF o.strict THEN "i32 overflow" ELSE "i64 overflow")
\* checked_shl and checked_shr look at the distance alone.
ShiftChecked(o, a, b, n) ==
    IF o.strict /\ ~(InI32(a) /\ b \in 0..Bits32 - 1) THEN Bad("i32 overflow")
    ELSE IF Check64(o) /\ ~(InI32(b) /\ b \in 0..Bits64 - 1) THEN Bad("i64 overflow")
    ELSE VInt(Wrap64(n))

Bit(n, i) == (n \div 2^i) % 2
BitByBit(F(_, _), a, b) ==
    LET Sum[i \in 0..Bits64] == IF i = 0 THEN 0 ELSE Sum[i - 1] + F(Bit(a, i - 1), Bit(b, i - 1)) * 2^(i - 1)
    IN Wrap64(Sum[Bits64])
BitAnd(a, b) == BitByBit(LAMBDA x, y : x * y, a, b)
BitOr(a, b)  == BitByBit(LAMBDA x, y : x + y - x * y, a, b)
BitXor(a, b) == BitByBit(LAMBDA x, y : (x + y) % 2, a, b)

\* / and % of i64 panic on zero and on MIN by -1.
Undivided(a, b) == b = 0 \/ (b = -1 /\ a = -Max64 - 1)

NumberOps == {"+", "-", "*", "/", "%", "**", "//"}
IntOps    == NumberOps \cup {"<<", ">>", "&", "^", "|"}

\* The remainder of the machine.
TruncMod(a, b) == Rem(a, b)
\* bin_mod and bin_floor_div correct the machine's division toward zero.
FloorMod(a, b) == LET t == Rem(a, b) IN IF (a < 0) # (b < 0) /\ t # 0 THEN t + b ELSE t
FloorDiv(a, b) == IF (a < 0) # (b < 0) /\ Rem(a, b) # 0 THEN Quot(a, b) - 1 ELSE Quot(a, b)
\* bin_add ... bin_bit_or on two ints.
IntBin(op, a, b, o) ==
    CASE op = "+"  -> IntChecked(o, a, b, a + b)
      [] op = "-"  -> IntChecked(o, a, b, a - b)
      [] op = "*"  -> IntChecked(o, a, b, a * b)
      [] op = "**" -> PowChecked(o, a, b)
      [] op = "/"  -> VFloat(Frac(a, b))
      [] op = "%"  -> IF Undivided(a, b) THEN Bad("division") ELSE VInt(FloorMod(a, b))
      [] op = "//" -> IF Undivided(a, b) THEN Bad("division") ELSE VInt(FloorDiv(a, b))
      [] op = "<<" -> ShiftChecked(o, a, b, a * 2^(b % Bits64))
      [] op = ">>" -> ShiftChecked(o, a, b, a \div 2^(b % Bits64))
      [] op = "&"  -> VInt(BitAnd(a, b))
      [] op = "^"  -> VInt(BitXor(a, b))
      [] op = "|"  -> VInt(BitOr(a, b))

\* q and r are quotient and remainder of a by b, the remainder with b's sign.
DivMod(a, b, q, r) == q * b + r = a /\ (r # 0 => (r < 0) = (b < 0)) /\ Abs(r) < Abs(b)

-----------------------------------------------------------------------------
(* slice_unpack and slice_adjust_indices: start, stop and step are cells;    *)
(* what is no int counts as left out.                                        *)

\* A stop beyond the end that misses the last element.
SliceShort(n, i, step) == IF i >= n THEN n - 1 ELSE IF i < 0 THEN i + n ELSE i
SliceAdjust(n, i, step) ==
    CASE i < 0 -> IF i + n < 0 THEN (IF step < 0 THEN -1 ELSE 0) ELSE i + n
      [] i >= n -> IF step < 0 THEN n - 1 ELSE n
      [] OTHER -> i
SliceStep(step) == IF step[1] = "int" THEN step[2] ELSE 1
SliceFrom(n, start, st) ==
    SliceAdjust(n, IF start[1] = "int" THEN start[2] ELSE IF st < 0 THEN Max64 ELSE 0, st)
SliceTo(n, stop, st) ==
    SliceAdjust(n, IF stop[1] = "int" THEN stop[2] ELSE IF st < 0 THEN -Max64 - 1 ELSE Max64, st)
SliceLen(i, j, st) ==
    CASE st < 0 /\ j < i -> (i - j - 1) \div (-st) + 1
      [] st > 0 /\ i < j -> (j - i - 1) \div st + 1
      [] OTHER -> 0
\* The positions, from 1, that the loop of list_slice visits.
SliceIndices(n, start, stop, step) ==
    LET st == SliceStep(step)
        i  == SliceFrom(n, start, st)
    IN [m \in 1..SliceLen(i, SliceTo(n, stop, st), st) |-> i + (m - 1) * st + 1]
=============================================================================
