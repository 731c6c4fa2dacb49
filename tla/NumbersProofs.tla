--------------------------- MODULE NumbersProofs ---------------------------
(* Theorems about Numbers, for every width of the integers. *)
EXTENDS Numbers, TLAPS

\* Negation, where the operand is zero.
LEMMA Negated ==
  ASSUME NEW n \in Int
  PROVE  -n \in Int /\ (n = 0 => -n = 0)
  <1>1. -n = 0 - n
    OBVIOUS
  <1>2. n = 0 => 0 - n = 0
    OBVIOUS
  <1> QED BY <1>1, <1>2

----------------------------------------------------------------------------
(* Division. *)

\* The machine's division of naturals.
LEMMA NatDivision ==
  ASSUME NEW a \in Nat, NEW b \in Nat \ {0}
  PROVE  /\ a \div b \in Nat /\ a % b \in 0..(b - 1)
         /\ a = b * (a \div b) + (a % b)
         /\ a \div b <= a
         /\ b > 1 /\ a > 0 => a \div b < a
  <1>a. a % b \in 0..(b - 1)
    OBVIOUS
  <1>b. a = b * (a \div b) + (a % b)
    OBVIOUS
  <1>c. a \div b \in Nat
    OBVIOUS
  <1>1. a \div b \in Nat /\ a % b \in 0..(b - 1) /\ a = b * (a \div b) + (a % b)
    BY <1>a, <1>b, <1>c
  <1>2. PICK q \in Nat : q = a \div b
    BY <1>1
  <1>3. b * q <= a
    BY <1>1, <1>2
  <1>4. q <= b * q
    OBVIOUS
  <1>5. b > 1 /\ q > 0 => q < b * q
    OBVIOUS
  <1> QED BY <1>1, <1>2, <1>3, <1>4, <1>5

\* Division toward zero, by the signs of the operands: |a| = |b| * q + r.
LEMMA TruncDivision ==
  ASSUME NEW a \in Int, NEW b \in Int \ {0}
  PROVE  \E q \in Nat, r \in Nat :
            /\ r < Abs(b) /\ Abs(a) = Abs(b) * q + r
            /\ q <= Abs(a) /\ (Abs(b) > 1 /\ a # 0 => q < Abs(a))
            /\ Quot(a, b) = (IF (a < 0) # (b < 0) THEN -q ELSE q)
            /\ Rem(a, b) = (IF a < 0 THEN -r ELSE r)
  <1>1. Abs(a) \in Nat /\ Abs(b) \in Nat \ {0}
    BY DEF Abs
  <1>p. PICK A \in Nat : A = Abs(a)
    BY <1>1
  <1>d. PICK B \in Nat \ {0} : B = Abs(b)
    BY <1>1
  <1>n. /\ A \div B \in Nat /\ A % B \in 0..(B - 1)
        /\ A = B * (A \div B) + (A % B)
        /\ A \div B <= A
        /\ B > 1 /\ A > 0 => A \div B < A
    BY NatDivision
  <1>2. PICK q \in Nat : q = A \div B
    BY <1>n
  <1>3. PICK r \in Nat : r = A % B
    BY <1>n
  <1>4. /\ r < Abs(b) /\ Abs(a) = Abs(b) * q + r
        /\ q <= Abs(a) /\ (Abs(b) > 1 /\ Abs(a) > 0 => q < Abs(a))
    <2>1. r < B /\ A = B * q + r /\ q <= A /\ (B > 1 /\ A > 0 => q < A)
      BY <1>2, <1>3, <1>n
    <2> QED BY <2>1, <1>p, <1>d
  <1>5. a # 0 => Abs(a) > 0
    BY DEF Abs
  <1>6. a = 0 => q = 0
    BY <1>4 DEF Abs
  <1>7. Quot(a, b) = Sgn(a) * Sgn(b) * q
    BY <1>2, <1>p, <1>d DEF Quot
  <1>8. Quot(a, b) = (IF (a < 0) # (b < 0) THEN -q ELSE q)
    <2>1. CASE a = 0
      <3>1. Sgn(a) = 0 /\ q = 0 /\ Sgn(b) \in Int /\ q \in Int
        BY <1>6, <2>1 DEF Sgn
      <3>2. Quot(a, b) = 0
        BY <1>7, <3>1
      <3>3. -q = 0
        BY <3>1, Negated, Zenon
      <3> QED BY <3>1, <3>2, <3>3
    <2>2. CASE a # 0
      BY <1>7, <2>2 DEF Sgn
    <2> QED BY <2>1, <2>2
  <1>9. Rem(a, b) = (IF a < 0 THEN -r ELSE r)
    <2>1. PICK Q \in Int : Q = Quot(a, b)
      BY <1>8
    <2>2. Rem(a, b) = a - b * Q
      BY <2>1 DEF Rem
    <2>3. CASE a < 0 /\ b < 0
      <3>1. Q = q /\ -a = (-b) * q + r
        BY <1>4, <1>8, <2>1, <2>3 DEF Abs
      <3>2. (-b) * q = -(b * q)
        OBVIOUS
      <3> QED BY <2>2, <2>3, <3>1, <3>2
    <2>4. CASE a < 0 /\ ~(b < 0)
      <3>1. Q = -q /\ -a = b * q + r
        BY <1>4, <1>8, <2>1, <2>4 DEF Abs
      <3>2. b * (-q) = -(b * q)
        OBVIOUS
      <3> QED BY <2>2, <2>4, <3>1, <3>2
    <2>5. CASE ~(a < 0) /\ b < 0
      <3>1. Q = -q /\ a = (-b) * q + r
        BY <1>4, <1>8, <2>1, <2>5 DEF Abs
      <3>2. (-b) * q = -(b * q) /\ b * (-q) = -(b * q)
        OBVIOUS
      <3> QED BY <2>2, <2>5, <3>1, <3>2
    <2>6. CASE ~(a < 0) /\ ~(b < 0)
      <3>1. Q = q /\ a = b * q + r
        BY <1>4, <1>8, <2>1, <2>6 DEF Abs
      <3> QED BY <2>2, <2>6, <3>1
    <2> QED BY <2>3, <2>4, <2>5, <2>6
  <1> QED BY <1>4, <1>5, <1>8, <1>9

\* bin_floor_div and bin_mod, corrected by hand from the machine's division
\* toward zero, are quotient and remainder of one division that rounds down, for
\* all signs of the operands.
THEOREM Division ==
  ASSUME NEW a \in Int, NEW b \in Int \ {0}
  PROVE  /\ FloorDiv(a, b) \in Int /\ FloorMod(a, b) \in Int
         /\ DivMod(a, b, FloorDiv(a, b), FloorMod(a, b))
  <1>1. PICK q \in Nat, r \in Nat :
            /\ r < Abs(b) /\ Abs(a) = Abs(b) * q + r
            /\ Quot(a, b) = (IF (a < 0) # (b < 0) THEN -q ELSE q)
            /\ Rem(a, b) = (IF a < 0 THEN -r ELSE r)
    BY TruncDivision
  <1>2. (-b) * q = -(b * q) /\ b * (-q) = -(b * q) /\ b * (-q - 1) = -(b * q) - b
        /\ (-q) * b = -(b * q) /\ (-q - 1) * b = -(b * q) - b /\ q * b = b * q
    OBVIOUS
  <1>3. PICK p \in Int : p = b * q
    OBVIOUS
  <1>4. CASE r = 0
    <2>0. -r = 0 /\ -q \in Int
      <3>1. r \in Int /\ q \in Int
        OBVIOUS
      <3> QED BY <1>4, <3>1, Negated, Zenon
    <2>1. Rem(a, b) = 0 /\ Rem(a, b) \in Int /\ Quot(a, b) \in Int
      BY <1>1, <1>4, <2>0
    <2>2. FloorMod(a, b) = 0 /\ FloorDiv(a, b) = Quot(a, b)
      BY <2>1 DEF FloorMod, FloorDiv
    <2>3. Quot(a, b) * b = a
      <3>1. Abs(a) = Abs(b) * q
        BY <1>1, <1>4 DEF Abs
      <3> QED BY <1>1, <1>2, <3>1 DEF Abs
    <2> QED BY <1>1, <1>4, <2>1, <2>2, <2>3 DEF DivMod, Abs
  <1>5. CASE r # 0 /\ a < 0 /\ b < 0
    <2>1. FloorMod(a, b) = -r /\ FloorDiv(a, b) = q
      BY <1>1, <1>5 DEF FloorMod, FloorDiv
    <2>2. -a = -p + r /\ r < -b
      BY <1>1, <1>2, <1>3, <1>5 DEF Abs
    <2>3. q * b + (-r) = a
      BY <1>2, <1>3, <2>2
    <2> QED BY <1>5, <2>1, <2>2, <2>3 DEF DivMod, Abs
  <1>6. CASE r # 0 /\ a < 0 /\ ~(b < 0)
    <2>1. FloorMod(a, b) = -r + b /\ FloorDiv(a, b) = -q - 1
      BY <1>1, <1>6 DEF FloorMod, FloorDiv
    <2>2. -a = p + r /\ r < b
      BY <1>1, <1>3, <1>6 DEF Abs
    <2>3. (-q - 1) * b + (-r + b) = a
      BY <1>2, <1>3, <2>2
    <2> QED BY <1>6, <2>1, <2>2, <2>3 DEF DivMod, Abs
  <1>7. CASE r # 0 /\ ~(a < 0) /\ b < 0
    <2>1. FloorMod(a, b) = r + b /\ FloorDiv(a, b) = -q - 1
      BY <1>1, <1>7 DEF FloorMod, FloorDiv
    <2>2. a = -p + r /\ r < -b
      BY <1>1, <1>2, <1>3, <1>7 DEF Abs
    <2>3. (-q - 1) * b + (r + b) = a
      BY <1>2, <1>3, <2>2
    <2> QED BY <1>7, <2>1, <2>2, <2>3 DEF DivMod, Abs
  <1>8. CASE r # 0 /\ ~(a < 0) /\ ~(b < 0)
    <2>1. FloorMod(a, b) = r /\ FloorDiv(a, b) = q
      BY <1>1, <1>8 DEF FloorMod, FloorDiv
    <2>2. a = p + r /\ r < b
      BY <1>1, <1>3, <1>8 DEF Abs
    <2>3. q * b + r = a
      BY <1>2, <1>3, <2>2
    <2> QED BY <1>8, <2>1, <2>2, <2>3 DEF DivMod, Abs
  <1> QED BY <1>4, <1>5, <1>6, <1>7, <1>8

----------------------------------------------------------------------------
(* Ranges. *)

Options == [strict : BOOLEAN, debug : BOOLEAN]

\* What the widths are.
LEMMA Widths == Max32 \in Nat /\ Max64 \in Nat /\ Max32 < Max64 /\ Bits64 \in Nat \ {0}
  BY WidthsDiffer DEF WidthsDiffer

\* A result that was wrapped fits.
LEMMA WrapFits ==
  ASSUME NEW n \in Int
  PROVE  Wrap64(n) \in Int /\ InI64(Wrap64(n))
  <1>1. PICK M \in Nat \ {0} : M = Max64 + 1
    BY Widths
  <1>2. PICK r \in Int : r = (n + M) % (2 * M)
    OBVIOUS
  <1>3. 0 <= r /\ r < 2 * M
    BY <1>2
  <1>4. Wrap64(n) = r - M
    <2>1. n + Max64 + 1 = n + M /\ 2 * (Max64 + 1) = 2 * M
      BY <1>1, Widths
    <2>2. Wrap64(n) = r - Max64 - 1
      BY <1>2, <2>1 DEF Wrap64
    <2> QED BY <1>1, <2>2, Widths
  <1> QED BY <1>1, <1>3, <1>4, Widths DEF InI64, Fits

\* bin_mod and bin_floor_div of i64 give i64, but for the cases on which they panic.
LEMMA DivisionFits ==
  ASSUME NEW a \in Int, NEW b \in Int, InI64(a), InI64(b), ~Undivided(a, b)
  PROVE  InI64(FloorMod(a, b)) /\ InI64(FloorDiv(a, b))
  <1>1. b # 0 /\ ~(b = -1 /\ a = -Max64 - 1)
    BY DEF Undivided
  <1>2. PICK q \in Nat, r \in Nat :
            /\ r < Abs(b) /\ Abs(a) = Abs(b) * q + r
            /\ q <= Abs(a) /\ (Abs(b) > 1 /\ a # 0 => q < Abs(a))
            /\ Quot(a, b) = (IF (a < 0) # (b < 0) THEN -q ELSE q)
            /\ Rem(a, b) = (IF a < 0 THEN -r ELSE r)
    BY <1>1, TruncDivision
  <1>3. /\ -Max64 - 1 <= a /\ a <= Max64 /\ -Max64 - 1 <= b /\ b <= Max64
    BY DEF InI64, Fits
  <1>m. PICK M \in Nat : M = Max64
    BY Widths
  <1>4. PICK f \in Int : f = FloorMod(a, b)
    BY <1>1, Division
  <1>5. InI64(FloorMod(a, b))
    <2>1. Abs(f) < Abs(b)
      BY <1>1, <1>4, Division DEF DivMod
    <2>2. Abs(b) <= M + 1
      BY <1>3, <1>m DEF Abs
    <2>3. -M <= f /\ f <= M
      BY <2>1, <2>2 DEF Abs
    <2> QED BY <1>4, <1>m, <2>3 DEF InI64, Fits
  <1>6. Abs(a) <= M + 1
    BY <1>3, <1>m DEF Abs
  <1>7. q <= M \/ (q = M + 1 /\ Abs(b) = 1 /\ a = -M - 1)
    <2>1. CASE Abs(b) > 1 /\ a # 0
      BY <1>2, <1>6, <2>1 DEF Abs
    <2>2. CASE a = 0
      BY <1>2, <2>2 DEF Abs
    <2>3. CASE ~(Abs(b) > 1)
      <3>1. Abs(b) = 1
        BY <1>1, <2>3 DEF Abs
      <3>2. q <= Abs(a)
        BY <1>2
      <3> QED BY <1>3, <1>6, <1>m, <3>1, <3>2 DEF Abs
    <2> QED BY <2>1, <2>2, <2>3
  <1>8. PICK d \in Int : d = FloorDiv(a, b)
    BY <1>1, Division
  <1>9. d = q \/ d = -q \/ (d = -q - 1 /\ r # 0 /\ (a < 0) # (b < 0))
    BY <1>2, <1>8 DEF FloorDiv
  <1>10. d = q => ~((a < 0) # (b < 0)) \/ q = 0
    <2>1. CASE (a < 0) # (b < 0)
      BY <1>2, <1>8, <2>1 DEF FloorDiv
    <2> QED BY <2>1
  <1>11. CASE q <= M
    <2>1. -q \in Int /\ -q >= -M
      BY <1>11
    <2>2. -M - 1 <= d /\ d <= M
      BY <1>9, <1>11, <2>1
    <2> QED BY <1>5, <1>8, <1>m, <2>2 DEF InI64, Fits
  <1>12. CASE q = M + 1 /\ Abs(b) = 1 /\ a = -M - 1
    <2>1. b = 1
      BY <1>1, <1>12, <1>m DEF Abs
    <2>2. a < 0 /\ ~(b < 0)
      BY <1>12, <2>1
    <2>3. r = 0
      BY <1>2, <1>12
    <2>4. d = -q
      BY <1>9, <1>10, <1>12, <2>2, <2>3
    <2>5. -M - 1 <= d /\ d <= M
      BY <1>12, <2>4
    <2> QED BY <1>5, <1>8, <1>m, <2>5 DEF InI64, Fits
  <1>13. InI64(FloorDiv(a, b))
    BY <1>7, <1>11, <1>12
  <1> QED BY <1>5, <1>13

\* The range check lets through what fits.
LEMMA CheckedFits ==
  ASSUME NEW o \in Options, NEW a, NEW b, NEW n \in Int, NEW k, IntChecked(o, a, b, n) = VInt(k)
  PROVE  k = n /\ InI64(k) /\ (o.strict => InI32(k))
  <1>1. VInt(n) # Bad("i32 overflow") /\ VInt(n) # Bad("i64 overflow")
        /\ VInt(k) # Bad("i32 overflow") /\ VInt(k) # Bad("i64 overflow")
    BY DEF VInt, Bad
  <1>2. ~(o.strict /\ ~(InI32(a) /\ InI32(b) /\ InI32(n)))
    BY <1>1 DEF IntChecked
  <1>3. ~(Check64(o) /\ ~InI64(n))
    BY <1>1, <1>2 DEF IntChecked
  <1>4. IntChecked(o, a, b, n) = VInt(n)
    BY <1>2, <1>3 DEF IntChecked
  <1>5. k = n
    BY <1>4 DEF VInt
  <1>6. InI32(n) => InI64(n)
    BY Widths DEF InI32, InI64, Fits
  <1>7. o.strict \/ Check64(o)
    BY DEF Check64
  <1> QED BY <1>2, <1>3, <1>5, <1>6, <1>7

\* pow gives an integer.
LEMMA PowInt ==
  ASSUME NEW a \in Int, NEW n \in Int
  PROVE  PowI(a, n) \in Int
  <1>1. 2^Bits64 \in Int /\ -1 \in Int
    BY Widths
  <1>2. ASSUME a # 0, NEW e \in Nat PROVE a^e \in Int
    <2>1. a \in Int \ {0}
      BY <1>2
    <2> QED BY <2>1
  <1>3. n >= 0 => n \in Nat
    OBVIOUS
  <1> QED BY <1>1, <1>2, <1>3, Widths DEF PowI

\* An operator on two i64 either panics or gives an i64, whatever the options:
\* nothing is wrapped but the bits a shift drops; and with strict_range_check a
\* sum, difference, product or power is an i32.
THEOREM Ranges ==
  ASSUME NEW o \in Options, NEW a \in Int, NEW b \in Int, InI64(a), InI64(b),
         NEW op \in {"+", "-", "*", "**", "%", "//", "<<", ">>"},
         NEW k, IntBin(op, a, b, o) = VInt(k)
  PROVE  k \in Int /\ InI64(k) /\ (o.strict /\ op \in {"+", "-", "*", "**"} => InI32(k))
  <1>v. \A x, y : VInt(x) # Bad(y) /\ (VInt(x) = VInt(k) => x = k)
    BY DEF VInt, Bad
  <1>1. CASE op = "+"
    BY <1>1, CheckedFits DEF IntBin
  <1>2. CASE op = "-"
    BY <1>2, CheckedFits DEF IntBin
  <1>3. CASE op = "*"
    BY <1>3, CheckedFits DEF IntBin
  <1>4. CASE op = "**"
    <2>1. PowChecked(o, a, b) = VInt(k)
      BY <1>4 DEF IntBin
    <2>2. IntChecked(o, a, b, PowI(a, b)) = VInt(k)
      BY <1>v, <2>1 DEF PowChecked
    <2>3. PICK n \in Int : n = PowI(a, b)
      BY PowInt
    <2> QED BY <2>2, <2>3, CheckedFits
  <1>5. CASE op \in {"%", "//"}
    <2>1. ~Undivided(a, b)
      <3> SUFFICES ASSUME Undivided(a, b) PROVE FALSE
        OBVIOUS
      <3>1. IntBin(op, a, b, o) = Bad("division")
        <4>1. CASE op = "%"
          BY <4>1 DEF IntBin
        <4>2. CASE op = "//"
          BY <4>2 DEF IntBin
        <4> QED BY <1>5, <4>1, <4>2
      <3> QED BY <1>v, <3>1
    <2>2. IntBin(op, a, b, o) = IF op = "%" THEN VInt(FloorMod(a, b)) ELSE VInt(FloorDiv(a, b))
      BY <1>5, <2>1 DEF IntBin
    <2>3. k = FloorMod(a, b) \/ k = FloorDiv(a, b)
      BY <1>v, <2>2
    <2>4. b # 0
      BY <2>1 DEF Undivided
    <2> QED BY <1>5, <2>1, <2>3, <2>4, Division, DivisionFits
  <1>6. CASE op \in {"<<", ">>"}
    <2>1. b % Bits64 \in 0..Bits64 - 1
      BY Widths
    <2>2. PICK e \in Nat : e = b % Bits64
      BY <2>1
    <2>3. 2^e \in Int /\ 2^e > 0
      BY <2>1, <2>2, WidthsDiffer DEF WidthsDiffer
    <2>4. PICK w \in Nat \ {0} : w = 2^e
      BY <2>3
    <2>5. a * w \in Int /\ a \div w \in Int
      OBVIOUS
    <2>6. IntBin(op, a, b, o) = IF op = "<<" THEN ShiftChecked(o, a, b, a * w) ELSE ShiftChecked(o, a, b, a \div w)
      <3>1. CASE op = "<<"
        BY <2>2, <2>4, <3>1 DEF IntBin
      <3>2. CASE op = ">>"
        BY <2>2, <2>4, <3>2 DEF IntBin
      <3> QED BY <1>6, <3>1, <3>2
    <2>7. PICK n \in Int : ShiftChecked(o, a, b, n) = VInt(k)
      BY <2>5, <2>6
    <2>8. k = Wrap64(n)
      BY <1>v, <2>7 DEF ShiftChecked
    <2> QED BY <1>6, <2>8, WrapFits
  <1> QED BY <1>1, <1>2, <1>3, <1>4, <1>5, <1>6

----------------------------------------------------------------------------
(* Slices. *)

\* How many steps of s fit into a distance.
LEMMA StepsFit ==
  ASSUME NEW s \in Nat \ {0}, NEW D \in Nat, NEW k \in Nat
  PROVE  D \div s \in Nat /\ (k <= D \div s <=> k * s <= D)
  <1>1. D \div s \in Nat /\ D = s * (D \div s) + (D % s) /\ D % s \in 0..(s - 1)
    BY NatDivision
  <1>2. PICK q \in Nat : q = D \div s
    BY <1>1
  <1>3. s * q <= D /\ D < s * q + s
    <2>1. PICK r \in 0..(s - 1) : r = D % s
      BY <1>1
    <2>2. D = s * q + r
      BY <1>1, <1>2, <2>1
    <2> QED BY <2>2
  <1>4. k <= q => k * s <= s * q
    OBVIOUS
  <1>5. k > q => k * s >= s * q + s
    <2> SUFFICES ASSUME k > q PROVE k * s >= s * q + s
      OBVIOUS
    <2>1. k >= q + 1
      OBVIOUS
    <2>2. k * s >= (q + 1) * s
      BY <2>1
    <2>3. (q + 1) * s = s * q + s
      OBVIOUS
    <2> QED BY <2>2, <2>3
  <1> QED BY <1>2, <1>3, <1>4, <1>5

\* slice_adjust_indices puts a bound into the list, or just outside it on the
\* side from which the slice is taken.
LEMMA Adjusted ==
  ASSUME NEW n \in Nat, NEW x \in Int, NEW st \in Int
  PROVE  /\ SliceAdjust(n, x, st) \in Int
         /\ st > 0 => 0 <= SliceAdjust(n, x, st) /\ SliceAdjust(n, x, st) <= n
         /\ st < 0 => -1 <= SliceAdjust(n, x, st) /\ SliceAdjust(n, x, st) < n
  BY DEF SliceAdjust

\* The k-th stop of the loop of list_slice is made exactly while it is on the
\* near side of the adjusted end.
LEMMA Visits ==
  ASSUME NEW i \in Int, NEW j \in Int, NEW st \in Int \ {0}, NEW k \in Nat
  PROVE  /\ SliceLen(i, j, st) \in Nat
         /\ k < SliceLen(i, j, st) <=> (IF st < 0 THEN j < i + k * st ELSE i + k * st < j)
  <1>0. k * st \in Int
    OBVIOUS
  <1>1. CASE st > 0 /\ i < j
    <2>1. PICK D \in Nat : D = j - i - 1
      BY <1>1
    <2>2. PICK s \in Nat \ {0} : s = st
      BY <1>1
    <2>3. D \div s \in Nat /\ (k <= D \div s <=> k * s <= D)
      BY StepsFit
    <2>4. PICK q \in Nat : q = D \div s
      BY <2>3
    <2>5. SliceLen(i, j, st) = q + 1
      BY <1>1, <2>1, <2>2, <2>4 DEF SliceLen
    <2>6. k * s <= D <=> i + k * st < j
      BY <1>0, <2>1, <2>2
    <2> QED BY <1>1, <2>3, <2>4, <2>5, <2>6
  <1>2. CASE st < 0 /\ j < i
    <2>1. PICK D \in Nat : D = i - j - 1
      BY <1>2
    <2>2. PICK s \in Nat \ {0} : s = -st
      BY <1>2
    <2>3. D \div s \in Nat /\ (k <= D \div s <=> k * s <= D)
      BY StepsFit
    <2>4. PICK q \in Nat : q = D \div s
      BY <2>3
    <2>5. SliceLen(i, j, st) = q + 1
      BY <1>2, <2>1, <2>2, <2>4 DEF SliceLen
    <2>6. k * s = -(k * st)
      <3>1. k * (-st) = -(k * st)
        OBVIOUS
      <3> QED BY <2>2, <3>1
    <2>7. k * s <= D <=> j < i + k * st
      <3>1. PICK y \in Int : y = k * st
        BY <1>0
      <3> QED BY <2>1, <2>6, <3>1
    <2> QED BY <1>2, <2>3, <2>4, <2>5, <2>7
  <1>3. CASE st > 0 /\ ~(i < j)
    <2>1. SliceLen(i, j, st) = 0
      BY <1>3 DEF SliceLen
    <2>2. k * st >= 0
      BY <1>3
    <2>3. ~(i + k * st < j)
      BY <1>0, <1>3, <2>2
    <2> QED BY <1>3, <2>1, <2>3
  <1>4. CASE st < 0 /\ ~(j < i)
    <2>1. SliceLen(i, j, st) = 0
      BY <1>4 DEF SliceLen
    <2>2. k * st <= 0
      <3>1. PICK s \in Nat : s = -st
        BY <1>4
      <3>2. k * s >= 0 /\ k * (-st) = -(k * st)
        OBVIOUS
      <3> QED BY <1>0, <3>1, <3>2
    <2>3. ~(j < i + k * st)
      BY <1>0, <1>4, <2>2
    <2> QED BY <1>4, <2>1, <2>3
  <1> QED BY <1>1, <1>2, <1>3, <1>4

\* A slice of a list of any length, with bounds left out, negative or beyond the
\* ends and a step of any sign, reads only positions that exist (the index
\* list.values[cur] of list_slice never panics), and it reads all the positions
\* from the first on, step by step, that lie before the end; a bound left out is
\* the end of the list on its side.
THEOREM Slices ==
  ASSUME NEW n \in Nat, NEW start, NEW stop, NEW step,
         start[1] = "int" => start[2] \in Int,
         stop[1] = "int" => stop[2] \in Int,
         step[1] = "int" => step[2] \in Int \ {0}
  PROVE  LET st == SliceStep(step)
             i  == SliceFrom(n, start, st)
             j  == SliceTo(n, stop, st)
             ix == SliceIndices(n, start, stop, step)
         IN  /\ \A m \in DOMAIN ix : ix[m] \in 1..n
             /\ \A p \in Int :
                   (\E m \in DOMAIN ix : ix[m] = p + 1)
                      <=> (\E k \in Nat : p = i + k * st /\ (IF st < 0 THEN j < p ELSE p < j))
             /\ n <= Max64 /\ start[1] # "int" => i = IF st < 0 THEN n - 1 ELSE 0
             /\ n <= Max64 /\ stop[1] # "int" => j = IF st < 0 THEN -1 ELSE n
  <1>1. PICK st \in Int \ {0} : st = SliceStep(step)
    BY DEF SliceStep
  <1>2. PICK x \in Int : x = IF start[1] = "int" THEN start[2] ELSE IF st < 0 THEN Max64 ELSE 0
    BY Widths
  <1>3. PICK y \in Int : y = IF stop[1] = "int" THEN stop[2] ELSE IF st < 0 THEN -Max64 - 1 ELSE Max64
    BY Widths
  <1>4. PICK i \in Int : i = SliceAdjust(n, x, st)
    BY Adjusted
  <1>5. PICK j \in Int : j = SliceAdjust(n, y, st)
    BY Adjusted
  <1>6. i = SliceFrom(n, start, st) /\ j = SliceTo(n, stop, st)
    BY <1>2, <1>3, <1>4, <1>5 DEF SliceFrom, SliceTo
  <1>7. PICK L \in Nat : L = SliceLen(i, j, st)
    BY Visits
  <1>8. PICK ix : ix = SliceIndices(n, start, stop, step)
    OBVIOUS
  <1>9. ix = [m \in 1..L |-> i + (m - 1) * st + 1]
    BY <1>1, <1>6, <1>7, <1>8 DEF SliceIndices
  <1>10. \A k \in Nat : k < L <=> (IF st < 0 THEN j < i + k * st ELSE i + k * st < j)
    BY <1>7, Visits
  <1>11. ASSUME NEW m \in DOMAIN ix
         PROVE  ix[m] \in 1..n /\ ix[m] \in Int
                /\ \E k \in Nat : ix[m] = i + k * st + 1 /\ (IF st < 0 THEN j < i + k * st ELSE i + k * st < j)
    <2>1. m \in 1..L
      BY <1>9
    <2>2. PICK k \in Nat : k = m - 1
      BY <2>1
    <2>3. k < L /\ ix[m] = i + k * st + 1
      BY <1>9, <2>1, <2>2
    <2>4. IF st < 0 THEN j < i + k * st ELSE i + k * st < j
      BY <1>10, <2>3
    <2>5. PICK z \in Int : z = k * st
      OBVIOUS
    <2>6. CASE st < 0
      <3>1. z <= 0
        <4>1. PICK s \in Nat : s = -st
          BY <2>6
        <4>2. k * s >= 0 /\ k * (-st) = -(k * st)
          OBVIOUS
        <4> QED BY <2>5, <4>1, <4>2
      <3>2. -1 <= j /\ i < n
        BY <1>4, <1>5, <2>6, Adjusted
      <3>3. 0 <= i + z /\ i + z < n
        BY <2>4, <2>5, <2>6, <3>1, <3>2
      <3> QED BY <2>3, <2>4, <2>5, <3>3
    <2>7. CASE st > 0
      <3>1. z >= 0
        BY <2>5, <2>7
      <3>2. j <= n /\ 0 <= i
        BY <1>4, <1>5, <2>7, Adjusted
      <3>3. 0 <= i + z /\ i + z < n
        BY <2>4, <2>5, <2>7, <3>1, <3>2
      <3> QED BY <2>3, <2>4, <2>5, <3>3
    <2> QED BY <2>6, <2>7
  <1>12. ASSUME NEW p \in Int
         PROVE  (\E m \in DOMAIN ix : ix[m] = p + 1)
                   <=> (\E k \in Nat : p = i + k * st /\ (IF st < 0 THEN j < p ELSE p < j))
    <2>1. ASSUME NEW m \in DOMAIN ix, ix[m] = p + 1
          PROVE  \E k \in Nat : p = i + k * st /\ (IF st < 0 THEN j < p ELSE p < j)
      <3>1. PICK k \in Nat : ix[m] = i + k * st + 1 /\ (IF st < 0 THEN j < i + k * st ELSE i + k * st < j)
        BY <1>11
      <3>2. p = i + k * st
        BY <2>1, <3>1
      <3> QED BY <3>1, <3>2
    <2>2. ASSUME NEW k \in Nat, p = i + k * st, IF st < 0 THEN j < p ELSE p < j
          PROVE  \E m \in DOMAIN ix : ix[m] = p + 1
      <3>1. k < L
        BY <1>10, <2>2
      <3>2. k + 1 \in 1..L /\ (k + 1) - 1 = k
        BY <3>1
      <3>3. k + 1 \in DOMAIN ix /\ ix[k + 1] = i + k * st + 1
        BY <1>9, <3>2
      <3> QED BY <2>2, <3>3
    <2> QED BY <2>1, <2>2
  <1>13. ASSUME n <= Max64, start[1] # "int" PROVE i = IF st < 0 THEN n - 1 ELSE 0
    BY <1>2, <1>4, <1>13, Widths DEF SliceAdjust
  <1>14. ASSUME n <= Max64, stop[1] # "int" PROVE j = IF st < 0 THEN -1 ELSE n
    BY <1>3, <1>5, <1>14, Widths DEF SliceAdjust
  <1> QED BY <1>1, <1>6, <1>8, <1>11, <1>12, <1>13, <1>14
=============================================================================
