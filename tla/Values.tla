------------------------------- MODULE Values -------------------------------
(* The values of the runtime and the operators on them (runtime/src/value).  *)
(* A value is a cell of a heap, addressed by its index; lists and configs    *)
(* hold addresses, so that sharing and the operators that write in place     *)
(* are visible.  A cell is a tuple headed by its kind:                       *)
(*   <<"undefined">>  <<"none">>  <<"bool", b>>  <<"int", n>>                *)
(*   <<"float", <<numerator, denominator>>>>  <<"str", s>>                   *)
(*   <<"list", addresses>>  <<"dict", D>>                                    *)
(*   <<"schema", D, name, config keys, optional mapping>>  <<"func", f>>     *)
(* D = [k |-> keys in insertion order, v |-> key -> address, op, ix: the     *)
(* operator and insert index of the entry, ty: attr_map].  A panic of an     *)
(* operator on cells is the cell <<"panic", why>>.  Where arms of a CASE     *)
(* overlap the first one counts, as in the match it translates.              *)
(* The character W stands for any that takes two bytes in UTF-8.              *)
EXTENDS Numbers, Sequences, FiniteSets, TLC

CONSTANT F32Max   \* the largest finite f32

W == "w"
Undefined == <<"undefined">>
None      == <<"none">>
VBool(b)   == <<"bool", b>>
VStr(s)    == <<"str", s>>
VList(as)  == <<"list", as>>
EmptyDict == [k |-> <<>>, v |-> <<>>, op |-> <<>>, ix |-> <<>>, ty |-> <<>>]

NoneOrUndefined(c) == c[1] \in {"undefined", "none"}
IsConfig(c)        == c[1] \in {"dict", "schema"}
ListOrConfig(c)    == c[1] \in {"list", "dict", "schema"}
IsNumber(c)        == c[1] \in {"int", "float"}

-----------------------------------------------------------------------------
(* Floats: exact fractions; 1/0, -1/0 and 0/0 are the infinities and NaN.     *)

FracOf(c) == IF c[1] = "int" THEN <<c[2], 1>> ELSE c[2]

AddF(x, y) == IF x[2] = 0 /\ x = y THEN x ELSE Frac(x[1] * y[2] + y[1] * x[2], x[2] * y[2])
NegF(x)    == <<-x[1], x[2]>>
MulF(x, y) == Frac(x[1] * y[1], x[2] * y[2])
DivF(x, y) == Frac(x[1] * y[2], x[2] * y[1])
\* `as i64`: toward zero, saturating.
TruncF(x)  == IF x[2] # 0 THEN Quot(x[1], x[2])
              ELSE CASE x[1] > 0 -> Max64 [] x[1] < 0 -> -Max64 - 1 [] OTHER -> 0
FloorF(x)  == IF x[2] = 0 THEN x ELSE <<x[1] \div x[2], 1>>
RemF(x, y) == CASE x[2] = 0 \/ y[1] = 0 -> <<0, 0>>
                [] y[2] = 0 -> x
                [] OTHER -> AddF(x, NegF(MulF(y, <<TruncF(DivF(x, y)), 1>>)))
LessF(x, y) == /\ x # <<0, 0>> /\ y # <<0, 0>>
               /\ IF x[2] = 0 /\ y[2] = 0 THEN x[1] < y[1] ELSE x[1] * y[2] < y[1] * x[2]
EqualF(x, y) == x = y /\ x # <<0, 0>>
\* powf, for a whole exponent.
PowF(x, n) == IF n[1] = 0 THEN <<1, 1>>
              ELSE IF n[1] > 0 THEN Frac(x[1]^n[1], x[2]^n[1])
              ELSE Frac(x[2]^(-n[1]), x[1]^(-n[1]))

\* is_f32_overflow*: an operand or the result is beyond f32.
F32Overflow(q) == LessF(<<F32Max, 1>>, q) \/ LessF(q, <<-F32Max, 1>>)
F32Op(x, y, q, checks) ==
    IF checks /\ (F32Overflow(x) \/ F32Overflow(y) \/ F32Overflow(q)) THEN Bad("f32 overflow") ELSE VFloat(q)
\* is_f32_overflow_pow: the exponent has to be an i32, too.
F32Pow(x, y, q, checks) ==
    IF checks /\ ~InI32(TruncF(y)) THEN Bad("f32 overflow") ELSE F32Op(x, y, q, checks)

Repeat(q, n) == LET R[i \in 0..n] == IF i = 0 THEN SubSeq(q, 1, 0) ELSE R[i - 1] \o q IN R[n]

\* The same where one of the operands is a float.
FloatBin(op, x, y, mixed, o) ==
    CASE op = "+"  -> F32Op(x, y, AddF(x, y), o.strict \/ mixed)
      [] op = "-"  -> F32Op(x, y, AddF(x, NegF(y)), o.strict)
      [] op = "*"  -> F32Op(x, y, MulF(x, y), o.strict)
      [] op = "**" -> F32Pow(x, y, PowF(x, y), o.strict)
      [] op = "/"  -> VFloat(DivF(x, y))
      [] op = "%"  -> VFloat(RemF(x, y))
      [] op = "//" -> VFloat(FloorF(DivF(x, y)))

\* bin_*: a new cell; the elements of lists are shared with the operands.
Bin(op, x, y, o) ==
    CASE x[1] = "int" /\ y[1] = "int" /\ op \in IntOps -> IntBin(op, x[2], y[2], o)
      [] IsNumber(x) /\ IsNumber(y) /\ op \in NumberOps ->
           FloatBin(op, FracOf(x), FracOf(y), x[1] # y[1], o)
      [] op = "+" /\ x[1] = y[1] /\ x[1] \in {"str", "list"} -> <<x[1], x[2] \o y[2]>>
      [] op = "*" /\ x[1] \in {"str", "list"} /\ y[1] = "int" ->
           IF y[2] < 0 THEN Bad("memory") ELSE <<x[1], Repeat(x[2], y[2])>>
      [] op = "*" /\ x[1] = "int" /\ y[1] \in {"str", "list"} ->
           IF x[2] < 0 THEN Bad("memory") ELSE <<y[1], Repeat(y[2], x[2])>>
      [] OTHER -> Bad("operand")

\* `y as u32` saturates, from zero on.
AsU32(y) == LET n == TruncF(y) IN IF n < 0 THEN 0 ELSE IF n >= 2^Bits32 THEN 2^Bits32 - 1 ELSE n
\* pow without a check wraps at every product.
PowWrap(a, n) == LET P[i \in 0..n] == IF i = 0 THEN 1 ELSE Wrap64(P[i - 1] * a) IN P[n]
\* bin_aug_*: what the left cell becomes.  An int stays an int: the other
\* operand is truncated, and / is integer division.
AugInt(op, a, y, o) ==
    LET b == TruncF(y) IN
    CASE op \in {"+", "-", "*", "**"} ->
           LET f == FloatBin(op, <<a, 1>>, y, TRUE, o) IN
           IF f[1] = "panic" THEN f
           ELSE VInt(Wrap64(CASE op = "+" -> a + b [] op = "-" -> a - b
                             [] op = "*" -> a * b [] op = "**" -> PowWrap(a, AsU32(y))))
      [] op = "//" -> VInt(TruncF(DivF(<<a, 1>>, y)))
      [] Undivided(a, b) -> Bad("division")
      [] op = "/" -> VInt(Quot(a, b))
      [] op = "%" -> VInt(Rem(a, b))

Aug(op, x, y, o) ==
    CASE x[1] = "int" /\ y[1] = "int" /\ op = "/" ->
           IF Undivided(x[2], y[2]) THEN Bad("division") ELSE VInt(Quot(x[2], y[2]))
      [] x[1] = "int" /\ y[1] = "float" /\ op \in NumberOps -> AugInt(op, x[2], y[2], o)
      [] x[1] = "float" /\ IsNumber(y) /\ op = "//" -> VFloat(DivF(x[2], FracOf(y)))
      [] x[1] = "list" /\ y[1] = "int" /\ op = "*" ->
           IF y[2] < 0 THEN Bad("memory") ELSE IF y[2] = 0 THEN x ELSE VList(Repeat(x[2], y[2]))
      [] x[1] = "int" /\ y[1] \in {"str", "list"} -> Bad("operand")
      [] OTHER -> Bin(op, x, y, o)

AsInt(c) == CASE c[1] = "int" -> c[2] [] c[1] = "float" -> TruncF(c[2]) [] OTHER -> 0
AsStr(c) == IF c[1] = "str" THEN c[2] ELSE ""
\* unary_plus, unary_minus, unary_not, unary_l_not.
IsTruthy(c) ==
    CASE NoneOrUndefined(c) -> FALSE
      [] c[1] = "bool"  -> c[2]
      [] c[1] = "int"   -> c[2] # 0
      [] c[1] = "float" -> c[2][1] # 0 \/ c[2][2] = 0
      [] c[1] \in {"str", "list"} -> Len(c[2]) > 0
      [] IsConfig(c)    -> c[2].k # <<>>
      [] OTHER -> TRUE
Unary(op, c) ==
    CASE op = "not" -> VBool(~IsTruthy(c))
      [] op = "~" -> VInt(-AsInt(c) - 1)
      [] ~IsNumber(c) -> Bad("operand")
      [] op = "+" -> c
      [] op = "-" -> IF c[1] = "int" THEN VInt(Wrap64(-c[2])) ELSE VFloat(NegF(c[2]))

-----------------------------------------------------------------------------
(* Comparison, containment, subscripts and slices; H is the heap.            *)

Char(t, i)  == SubSeq(t, i, i)
ByteLen(t)  == Len(t) + Cardinality({i \in 1..Len(t) : Char(t, i) = W})
Contains(t, p) == \E i \in 0..Len(t) - Len(p) : SubSeq(t, i + 1, i + Len(p)) = p
Alphabet    == <<"a", "b", "c", W>>
Letter(t, i) == CHOOSE n \in DOMAIN Alphabet : Alphabet[n] = Char(t, i)

\* cmp_equal: a number equals a number of the same value, a dict never a schema.
RECURSIVE Equal(_, _, _)
Equal(H, a, b) ==
    LET x == H[a]
        y == H[b]
    IN CASE IsNumber(x) /\ IsNumber(y) -> EqualF(FracOf(x), FracOf(y))
         [] x[1] # y[1] -> FALSE
         [] NoneOrUndefined(x) -> TRUE
         [] x[1] = "list" -> /\ Len(x[2]) = Len(y[2])
                             /\ \A i \in DOMAIN x[2] : Equal(H, x[2][i], y[2][i])
         [] IsConfig(x) -> /\ DOMAIN x[2].v = DOMAIN y[2].v
                           /\ \A k \in DOMAIN x[2].v : Equal(H, x[2].v[k], y[2].v[k])
         [] OTHER -> x[2] = y[2]

\* The order of cmp_less_than and its sisters: -1, 0, 1, 2 where neither holds
\* (NaN), 9 where they panic.  A bool counts as 0 or 1, though it equals no int.
RankOf(c) == IF c[1] = "bool" THEN <<IF c[2] THEN 1 ELSE 0, 1>> ELSE FracOf(c)
RECURSIVE Order(_, _, _)
Order(H, a, b) ==
    LET x == H[a]
        y == H[b]
        ByLength == Sgn(Len(x[2]) - Len(y[2]))
        Differ(Same(_)) == {i \in 1..Len(x[2]) : i <= Len(y[2]) /\ ~Same(i)}
        First(S) == CHOOSE i \in S : \A j \in S : i <= j
        Numeric(c) == IsNumber(c) \/ c[1] = "bool"
    IN CASE Numeric(x) /\ Numeric(y) ->
              LET p == RankOf(x) q == RankOf(y) IN
              IF LessF(p, q) THEN -1 ELSE IF LessF(q, p) THEN 1 ELSE IF EqualF(p, q) THEN 0 ELSE 2
         [] x[1] = "str" /\ y[1] = "str" ->
              LET D == Differ(LAMBDA i : Char(x[2], i) = Char(y[2], i)) IN
              IF D = {} THEN ByLength ELSE Sgn(Letter(x[2], First(D)) - Letter(y[2], First(D)))
         [] x[1] = "list" /\ y[1] = "list" ->
              LET D == Differ(LAMBDA i : Equal(H, x[2][i], y[2][i])) IN
              IF D = {} THEN ByLength ELSE Order(H, x[2][First(D)], y[2][First(D)])
         [] OTHER -> 9

\* `a in b`; a key that is no string is looked up as "".
In(H, a, b) ==
    LET x == H[a]
        y == H[b]
    IN CASE y[1] = "str"  -> VBool(x[1] = "str" /\ Contains(y[2], x[2]))
         [] y[1] = "list" -> VBool(\E i \in DOMAIN y[2] : Equal(H, a, y[2][i]))
         [] IsConfig(y)   -> VBool(AsStr(x) \in DOMAIN y[2].v)
         [] OTHER -> Bad("iterable")

Negate(c) == IF c[1] = "panic" THEN c ELSE VBool(~c[2])
Compare(H, op, a, b) ==
    LET n == Order(H, a, b)
        If(holds) == IF n = 9 THEN Bad("compare") ELSE VBool(holds)
    IN CASE op = "=="     -> VBool(Equal(H, a, b))
         [] op = "!="     -> VBool(~Equal(H, a, b))
         [] op = "<"      -> If(n = -1)
         [] op = "<="     -> If(n \in {-1, 0})
         [] op = ">"      -> If(n = 1)
         [] op = ">="     -> If(n \in {0, 1})
         [] op = "in"     -> In(H, a, b)
         [] op = "not in" -> Negate(In(H, a, b))

\* bin_subscr: the address of the element, or a cell.  A string's index is
\* compared with its length in bytes and then used to count characters.
Subscript(H, a, b) ==
    LET x == H[a]
        y == H[b]
        at(n) == IF y[2] < 0 THEN y[2] + n ELSE y[2]
    IN CASE x[1] = "str" /\ y[1] = "int" ->
              LET i == at(Len(x[2])) IN
              CASE i \in 0..Len(x[2]) - 1 -> VStr(Char(x[2], i + 1))
                [] i \in Len(x[2])..ByteLen(x[2]) - 1 -> Bad("unwrap")
                [] OTHER -> Bad("index")
         [] x[1] = "list" /\ y[1] = "int" ->
              LET i == at(Len(x[2])) IN
              IF i \in 0..Len(x[2]) - 1 THEN <<"at", x[2][i + 1]>> ELSE Bad("index")
         [] IsConfig(x) /\ y[1] = "str" ->
              IF y[2] \in DOMAIN x[2].v THEN <<"at", x[2].v[y[2]]>> ELSE Undefined
         [] x[1] = "dict" -> Undefined
         [] OTHER -> Bad("subscript")

\* list_slice.
Slice(H, a, start, stop, step) ==
    LET x == H[a] IN
    IF x[1] \notin {"list", "str"} THEN Bad("slice")
    ELSE IF step = VInt(0) THEN Bad("step")
    ELSE LET ix == SliceIndices(Len(x[2]), start, stop, step) IN
         IF x[1] = "list" THEN VList([m \in DOMAIN ix |-> x[2][ix[m]]])
         ELSE LET J[m \in 0..Len(ix)] == IF m = 0 THEN "" ELSE J[m - 1] \o Char(x[2], ix[m]) IN VStr(J[Len(ix)])

\* value_subsume without the recursive check.
RECURSIVE Subsume(_, _, _)
Subsume(H, a, b) ==
    LET x == H[a]
        y == H[b]
    IN \/ NoneOrUndefined(x) \/ NoneOrUndefined(y)
       \/ Equal(H, a, b)
       \/ IsConfig(x) /\ IsConfig(y)
       \/ /\ x[1] = "list" /\ y[1] = "list" /\ Len(x[2]) = Len(y[2])
          /\ \A i \in DOMAIN x[2] : Subsume(H, x[2][i], y[2][i])

\* The value at an address as a tree, without the addresses.
RECURSIVE Deep(_, _)
Deep(H, a) ==
    LET c == H[a] IN
    CASE c[1] = "list" -> <<"list", [i \in DOMAIN c[2] |-> Deep(H, c[2][i])]>>
      [] IsConfig(c) -> <<c[1], [k \in DOMAIN c[2].v |-> Deep(H, c[2].v[k])], IF c[1] = "schema" THEN c[3] ELSE "">>
      [] OTHER -> c

-----------------------------------------------------------------------------
(* Operations on a machine state m: m.h the heap, m.r the address of the     *)
(* last result, m.err the panic, if any, after which nothing more happens,   *)
(* m.o the run's options.                                                    *)

Fail(m, why)   == [m EXCEPT !.err = IF @ = "" THEN why ELSE @]
Ret(m, a)      == [m EXCEPT !.r = a]
Write(m, a, c) == [m EXCEPT !.h[a] = c]
New(m, c) ==
    IF c[1] = "panic" THEN Fail(m, c[2])
    ELSE IF c[1] = "at" THEN Ret(m, c[2])
    ELSE [m EXCEPT !.h = Append(@, c), !.r = Len(m.h) + 1]
\* The steps of a loop, until one panics.
Each(q, m, Step(_, _)) ==
    LET F[i \in 0..Len(q)] ==
            IF i = 0 THEN m
            ELSE LET p == F[i - 1] IN IF p.err # "" THEN p ELSE Step(p, q[i])
    IN F[Len(q)]

Get(f, k, default) == IF k \in DOMAIN f THEN f[k] ELSE default
Keys(m, a) == m.h[a][2].k
Has(m, a, k) == k \in DOMAIN m.h[a][2].v
\* IndexMap::insert keeps the place of a key it has; remove moves the last
\* key to the place of the removed one.
Put(D, k, x) == [D EXCEPT !.k = IF k \in DOMAIN D.v THEN @ ELSE Append(@, k), !.v = (k :> x) @@ @]
PutEntry(D, k, x, op, ix) == [Put(D, k, x) EXCEPT !.op = (k :> op) @@ @, !.ix = (k :> ix) @@ @]
Drop(D, k) ==
    IF k \notin DOMAIN D.v THEN D
    ELSE LET n == Len(D.k)
             i == CHOOSE j \in 1..n : D.k[j] = k
         IN [D EXCEPT !.k = SubSeq([@ EXCEPT ![i] = D.k[n]], 1, n - 1),
                      !.v = [x \in DOMAIN @ \ {k} |-> @[x]]]
dict_update_key_value(m, a, k, x) == [m EXCEPT !.h[a][2] = Put(@, k, x)]
dict_update_entry(m, a, k, x, op, ix) == [m EXCEPT !.h[a][2] = PutEntry(@, k, x, op, ix)]
dict_remove(m, a, k) == [m EXCEPT !.h[a][2] = Drop(@, k)]
\* The entries of the keys that are there, with their operators and indices.
Entries(D, ks) ==
    LET E[i \in 0..Len(ks)] ==
            IF i = 0 THEN EmptyDict
            ELSE IF ks[i] \notin DOMAIN D.v THEN E[i - 1]
            ELSE PutEntry(E[i - 1], ks[i], D.v[ks[i]], Get(D.op, ks[i], "union"), Get(D.ix, ks[i], -1))
    IN E[Len(ks)]
dict_get_entries(m, a, ks) == New(m, <<"dict", Entries(m.h[a][2], ks)>>)

\* kclvm_value_remove_item: of the equal elements of a list the last one goes.
remove_item(m, a, b) ==
    LET c == m.h[a] IN
    CASE c[1] = "dict" -> dict_remove(m, a, AsStr(m.h[b]))
      [] c[1] = "list" ->
           LET S == {i \in DOMAIN c[2] : Equal(m.h, c[2][i], b)} IN
           IF S = {} THEN m
           ELSE LET i == CHOOSE i \in S : \A j \in S : j <= i IN
                Write(m, a, VList(SubSeq(c[2], 1, i - 1) \o SubSeq(c[2], i + 1, Len(c[2]))))
      [] OTHER -> Fail(m, "remove")

\* deep_copy: new cells all the way down; the attr_map of a dict is lost, that
\* of a schema kept.
RECURSIVE DeepCopy(_, _)
DeepCopy(m, a) ==
    LET c == m.h[a] IN
    CASE c[1] = "list" ->
           LET n == New(m, VList(<<>>))
               Copy(p, x) == LET t == DeepCopy(p, x) IN [t EXCEPT !.h[n.r][2] = Append(@, t.r)]
           IN Ret(Each(c[2], n, Copy), n.r)
      [] IsConfig(c) ->
           LET D == [Entries(c[2], c[2].k) EXCEPT !.ty = IF c[1] = "schema" THEN c[2].ty ELSE <<>>]
               n == New(m, [c EXCEPT ![2] = D])
               Copy(p, k) == LET t == DeepCopy(p, D.v[k]) IN [t EXCEPT !.h[n.r][2].v[k] = t.r]
           IN Ret(Each(c[2].k, n, Copy), n.r)
      [] OTHER -> New(m, c)

\* schema_to_dict: a dict with the same entries; a dict is itself.
schema_to_dict(m, a) ==
    IF m.h[a][1] = "dict" THEN Ret(m, a) ELSE New(m, <<"dict", m.h[a][2]>>)

AppendTo(m, a, xs) == [m EXCEPT !.h[a][2] = @ \o xs]
\* The strings of a config's keys, as new cells.
NewKeys(m, ks) ==
    [m EXCEPT !.h = @ \o [i \in DOMAIN ks |-> VStr(ks[i])], !.r = [i \in DOMAIN ks |-> Len(m.h) + i]]
\* list_append_unpack: `*x` in a list.
list_append_unpack(m, a, x) ==
    LET c == m.h[x] IN
    CASE c[1] = "list" -> AppendTo(m, a, c[2])
      [] IsConfig(c) -> LET n == NewKeys(m, c[2].k) IN Ret(AppendTo(n, a, n.r), a)
      [] NoneOrUndefined(c) -> m
      [] OTHER -> Fail(m, "unpack")

-----------------------------------------------------------------------------
(* What one entry of a config does to the entry of the same name (union_fn). *)
(* The union itself is in Codegen, as uniting two schemas runs schema code.  *)

Default == [idem |-> TRUE, resolve |-> TRUE]

InsertAt(q, i, x) == SubSeq(q, 1, i) \o <<x>> \o SubSeq(q, i + 1, Len(q))
\* `k += v` with the index ix: at the end, or one after another from ix on.
InsertEntry(m, a, k, v, ix) ==
    LET n  == IF NoneOrUndefined(m.h[m.h[a][2].v[k]])
              THEN LET l == New(m, VList(<<>>)) IN dict_update_key_value(l, a, k, l.r)
              ELSE m
        o  == n.h[a][2].v[k]
        xs == n.h[v][2]
        Insert(p, i) == IF ix + i - 1 > Len(p.h[o][2]) THEN Fail(p, "insert")
                        ELSE [p EXCEPT !.h[o][2] = InsertAt(@, ix + i - 1, xs[i])]
    IN CASE o = v -> n
         [] n.h[o][1] # "list" \/ n.h[v][1] # "list" -> Fail(n, "only list")
         [] ix = -1 -> AppendTo(n, o, xs)
         [] ix >= 0 -> Each([i \in DOMAIN xs |-> i], n, Insert)
         [] OTHER -> n
\* `k = v`, or `k[ix] = v`: an index out of range is ignored, but not when the
\* element is removed.
OverrideEntry(m, a, k, v, ix) ==
    LET o == m.h[a][2].v[k]
        q == m.h[o][2]
    IN CASE ix < 0 -> dict_update_key_value(m, a, k, v)
         [] m.h[o][1] # "list" -> Fail(m, "only list")
         [] NoneOrUndefined(m.h[v]) ->
              IF ix >= Len(q) THEN Fail(m, "remove")
              ELSE Write(m, o, VList(SubSeq(q, 1, ix) \o SubSeq(q, ix + 2, Len(q))))
         [] ix < Len(q) -> [m EXCEPT !.h[o][2][ix + 1] = v]
         [] OTHER -> m
=============================================================================
