------------------------------ MODULE Strings ------------------------------
(* The member functions of strings (runtime/src/value/val_str.rs).  Bounds   *)
(* and positions count bytes, as the code does, while the text is cut at     *)
(* characters: a bound inside a character is a panic.  Arguments are cells;  *)
(* one that is None or Undefined counts as left out.                         *)
EXTENDS Values

Lowers == {"a", "b", "c"}
Uppers == {"A", "B", "C"}
Blanks == {" ", "\n", "\r"}
ToUpper(c) == CASE c = "a" -> "A" [] c = "b" -> "B" [] c = "c" -> "C" [] OTHER -> c
ToLower(c) == CASE c = "A" -> "a" [] c = "B" -> "b" [] c = "C" -> "c" [] OTHER -> c
Chars(t) == [i \in 1..Len(t) |-> Char(t, i)]
Concat(q) == LET F[i \in 0..Len(q)] == IF i = 0 THEN "" ELSE F[i - 1] \o q[i] IN F[Len(q)]
Cut1(t, i, j) == SubSeq(t, i + 1, j)            \* the characters from i up to j, from 0
BytesTo(t, i) == ByteLen(Cut1(t, 0, i))

\* adjust_indices: start is not held below the length.
adjust_indices(start, end, n) ==
    LET e0 == IF NoneOrUndefined(end) THEN n ELSE AsInt(end)
        e  == CASE e0 > n -> n [] e0 < 0 -> IF e0 + n < 0 THEN 0 ELSE e0 + n [] OTHER -> e0
        s0 == IF NoneOrUndefined(start) THEN 0 ELSE AsInt(start)
        s  == IF s0 < 0 THEN (IF s0 + n < 0 THEN 0 ELSE s0 + n) ELSE s0
    IN <<s, e>>
\* What F(text, first character) gives for the part between the bounds,
\* Otherwise where they are the wrong way round.
Within(t, start, end, F(_, _), Otherwise) ==
    LET r == adjust_indices(start, end, ByteLen(t))
        At(b) == {i \in 0..Len(t) : BytesTo(t, i) = b}
    IN CASE r[1] > r[2] -> Otherwise
         [] At(r[1]) = {} \/ At(r[2]) = {} -> Bad("unwrap")
         [] OTHER -> LET i == CHOOSE i \in At(r[1]) : TRUE
                         j == CHOOSE j \in At(r[2]) : TRUE
                     IN F(Cut1(t, i, j), i)

Places(t, p) == {i \in 0..Len(t) - Len(p) : Cut1(t, i, i + Len(p)) = p}
MinOf(S) == CHOOSE x \in S : \A y \in S : x <= y
MaxOf(S) == CHOOSE x \in S : \A y \in S : y <= x
\* Matches that do not overlap, from the left, or from the right.
RECURSIVE LeftMatches(_, _, _), RightMatches(_, _, _)
LeftMatches(P, from, n) ==
    LET S == {i \in P : i >= from} IN
    IF S = {} THEN <<>> ELSE <<MinOf(S)>> \o LeftMatches(P \ {MinOf(S)}, MinOf(S) + n, n)
RightMatches(P, to, n) ==
    LET S == {i \in P : i + n <= to} IN
    IF S = {} THEN <<>> ELSE RightMatches(P \ {MaxOf(S)}, MaxOf(S), n) \o <<MaxOf(S)>>
Matches(t, p)  == LeftMatches(Places(t, p), 0, Len(p))
RMatches(t, p) == RightMatches(Places(t, p), Len(t), Len(p))
\* The text between the matches ms of a pattern of n characters.
Between(t, ms, n) ==
    [i \in 1..Len(ms) + 1 |-> Cut1(t, IF i = 1 THEN 0 ELSE ms[i - 1] + n, IF i > Len(ms) THEN Len(t) ELSE ms[i])]

-----------------------------------------------------------------------------
str_count(t, p, s, e) == Within(t, s, e, LAMBDA x, i : VInt(Len(Matches(x, p))), VInt(0))
str_startswith(t, p, s, e) == Within(t, s, e, LAMBDA x, i : VBool(0 \in Places(x, p)), VBool(FALSE))
str_endswith(t, p, s, e) == Within(t, s, e, LAMBDA x, i : VBool(Len(x) - Len(p) \in Places(x, p)), VBool(FALSE))
\* str_find, str_rfind, str_index and str_rindex: a position in bytes.
Position(t, p, s, e, Pick(_), missing) ==
    Within(t, s, e, LAMBDA x, i : IF Places(x, p) = {} THEN missing
                                  ELSE VInt(BytesTo(t, i + Pick(Places(x, p)))), missing)
str_find(t, p, s, e)   == Position(t, p, s, e, MinOf, VInt(-1))
str_rfind(t, p, s, e)  == Position(t, p, s, e, MaxOf, VInt(-1))
str_index(t, p, s, e)  == Position(t, p, s, e, MinOf, Bad("substring"))
str_rindex(t, p, s, e) == Position(t, p, s, e, MaxOf, Bad("substring"))

\* The first n of a sequence, or all for a negative n; the last n.
Firsts(q, n) == IF n < 0 \/ n > Len(q) THEN q ELSE SubSeq(q, 1, n)
Lasts(q, n)  == IF n < 0 \/ n > Len(q) THEN q ELSE SubSeq(q, Len(q) - n + 1, Len(q))
Limit(c) == IF NoneOrUndefined(c) THEN -1 ELSE AsInt(c)
\* The pieces between blanks: after n of them the rest is one piece.
RECURSIVE Words(_, _)
Words(t, n) ==
    LET S == {i \in 1..Len(t) : Char(t, i) \notin Blanks}
        f == MinOf(S)
        E == {i \in f..Len(t) : Char(t, i) \in Blanks}
    IN CASE S = {} -> <<>>
         [] n = 0 \/ E = {} -> <<Cut1(t, f - 1, Len(t))>>
         [] OTHER -> <<Cut1(t, f - 1, MinOf(E) - 1)>> \o Words(Cut1(t, MinOf(E), Len(t)), n - 1)
RECURSIVE WordsBack(_, _)
WordsBack(t, n) ==
    LET S == {i \in 1..Len(t) : Char(t, i) \notin Blanks}
        l == MaxOf(S)
        E == {i \in 1..l : Char(t, i) \in Blanks}
    IN CASE S = {} -> <<>>
         [] n = 0 \/ E = {} -> <<Cut1(t, 0, l)>>
         [] OTHER -> WordsBack(Cut1(t, 0, MaxOf(E) - 1), n - 1) \o <<Cut1(t, MaxOf(E), l)>>
\* Cells are made of the strings by the caller.
str_split(t, sep, max) ==
    IF NoneOrUndefined(sep) THEN Words(t, Limit(max))
    ELSE Between(t, Firsts(Matches(t, AsStr(sep)), Limit(max)), Len(AsStr(sep)))
str_rsplit(t, sep, max) ==
    IF NoneOrUndefined(sep) THEN WordsBack(t, Limit(max))
    ELSE Between(t, Lasts(RMatches(t, AsStr(sep)), Limit(max)), Len(AsStr(sep)))
\* Lines end with \n, \r or \r\n; the last one may lack its end.
str_splitlines(t, keep) ==
    LET End(i) == \/ Char(t, i) = "\n"
                  \/ Char(t, i) = "\r" /\ (i = Len(t) \/ Char(t, i + 1) # "\n")
        ends == LeftMatches({i \in 1..Len(t) : End(i)}, 0, 1)
        from(l) == IF l = 1 THEN 0 ELSE ends[l - 1]
        stop(l) == IF l > Len(ends) \/ keep = VBool(TRUE) THEN IF l > Len(ends) THEN Len(t) ELSE ends[l]
                   ELSE IF ends[l] > from(l) + 1 /\ Cut1(t, ends[l] - 2, ends[l]) = "\r\n" THEN ends[l] - 2 ELSE ends[l] - 1
        n == Len(ends) + IF ends = <<>> THEN (IF t = "" THEN 0 ELSE 1) ELSE IF ends[Len(ends)] = Len(t) THEN 0 ELSE 1
    IN [l \in 1..n |-> Cut1(t, from(l), stop(l))]

str_replace(t, old, new, count) ==
    LET parts == Between(t, Firsts(Matches(t, old), Limit(count)), Len(old))
    IN Concat([i \in 1..2 * Len(parts) - 1 |-> IF i % 2 = 1 THEN parts[(i + 1) \div 2] ELSE new])
str_removeprefix(t, p) == IF 0 \in Places(t, p) THEN Cut1(t, Len(p), Len(t)) ELSE t
str_removesuffix(t, p) == IF Len(t) - Len(p) \in Places(t, p) THEN Cut1(t, 0, Len(t) - Len(p)) ELSE t
\* The characters that are stripped.
Stripped(c) == IF NoneOrUndefined(c) THEN Blanks ELSE {Char(AsStr(c), i) : i \in 1..Len(AsStr(c))}
str_lstrip(t, c) == LET S == {i \in 1..Len(t) : Char(t, i) \notin Stripped(c)} IN
                    IF S = {} THEN "" ELSE Cut1(t, MinOf(S) - 1, Len(t))
str_rstrip(t, c) == LET S == {i \in 1..Len(t) : Char(t, i) \notin Stripped(c)} IN
                    IF S = {} THEN "" ELSE Cut1(t, 0, MaxOf(S))
str_strip(t, c)  == str_lstrip(str_rstrip(t, c), c)

str_lower(t) == Concat([i \in 1..Len(t) |-> ToLower(Char(t, i))])
str_upper(t) == Concat([i \in 1..Len(t) |-> ToUpper(Char(t, i))])
Cased(c) == c \in Lowers \cup Uppers
After(t, i) == i > 1 /\ Cased(Char(t, i - 1))    \* previous_is_cased
str_title(t) == Concat([i \in 1..Len(t) |-> IF After(t, i) THEN ToLower(Char(t, i)) ELSE ToUpper(Char(t, i))])
str_istitle(t) == /\ \E i \in 1..Len(t) : Cased(Char(t, i))
                  /\ \A i \in 1..Len(t) : /\ Char(t, i) \in Uppers => ~After(t, i)
                                          /\ Char(t, i) \in Lowers => After(t, i)
is_case(t, S, Opposite) == (\E i \in 1..Len(t) : Char(t, i) \in S) /\ \A i \in 1..Len(t) : Char(t, i) \notin Opposite

\* The member functions of the string t, in the order of their entry points:
\* x is the argument cells, filled up with Undefined; the result is a cell, or
\* <<"strs", strings>> for a list.
MethodsAtoF(f, t, x) ==
    CASE f = "lower"        -> VStr(str_lower(t))
      [] f = "upper"        -> VStr(str_upper(t))
      [] f = "count"        -> str_count(t, AsStr(x[1]), x[2], x[3])
      [] f = "endswith"     -> str_endswith(t, AsStr(x[1]), x[2], x[3])
      [] f = "find"         -> str_find(t, AsStr(x[1]), x[2], x[3])
MethodsI(f, t, x) ==
    CASE f = "index"        -> str_index(t, AsStr(x[1]), x[2], x[3])
      [] f = "islower"      -> VBool(is_case(t, Lowers, Uppers))
      [] f = "istitle"      -> VBool(str_istitle(t))
      [] f = "isupper"      -> VBool(is_case(t, Uppers, Lowers))
MethodsLtoR(f, t, x) ==
    CASE f = "lstrip"       -> VStr(str_lstrip(t, x[1]))
      [] f = "rstrip"       -> VStr(str_rstrip(t, x[1]))
      [] f = "replace"      -> VStr(str_replace(t, AsStr(x[1]), AsStr(x[2]), x[3]))
      [] f = "removeprefix" -> VStr(str_removeprefix(t, AsStr(x[1])))
      [] f = "removesuffix" -> VStr(str_removesuffix(t, AsStr(x[1])))
      [] f = "rfind"        -> str_rfind(t, AsStr(x[1]), x[2], x[3])
      [] f = "rindex"       -> str_rindex(t, AsStr(x[1]), x[2], x[3])
MethodsStoT(f, t, x) ==
    CASE f = "rsplit"       -> <<"strs", str_rsplit(t, x[1], x[2])>>
      [] f = "split"        -> <<"strs", str_split(t, x[1], x[2])>>
      [] f = "splitlines"   -> <<"strs", str_splitlines(t, x[1])>>
      [] f = "startswith"   -> str_startswith(t, AsStr(x[1]), x[2], x[3])
      [] f = "strip"        -> VStr(str_strip(t, x[1]))
      [] f = "title"        -> VStr(str_title(t))
Method(f, t, x) ==
    CASE f \in {"lower", "upper", "count", "endswith", "find"} -> MethodsAtoF(f, t, x)
      [] f \in {"index", "islower", "istitle", "isupper"} -> MethodsI(f, t, x)
      [] f \in {"lstrip", "rstrip", "replace", "removeprefix", "removesuffix", "rfind", "rindex"} -> MethodsLtoR(f, t, x)
      [] f \in {"rsplit", "split", "splitlines", "startswith", "strip", "title"} -> MethodsStoT(f, t, x)
      [] OTHER -> Bad("attribute")
\* Arguments that must be there, and a first one that must be a string.
NeedsStr == {"count", "startswith", "endswith", "find", "rfind", "index", "rindex"}
Needed(f) == CASE f = "replace" -> 2 [] f \in NeedsStr \cup {"removeprefix", "removesuffix"} -> 1 [] OTHER -> 0
\* A result as a value of the machine: the strings of a list are new cells.
NewResult(m, c) ==
    IF c[1] = "strs" THEN LET n == NewKeys(m, c[2]) IN New(n, VList(n.r)) ELSE New(m, c)
\* The call with the arguments at the addresses xs.
str_call(m, f, t, xs) ==
    LET x == [i \in 1..3 |-> IF i <= Len(xs) THEN m.h[xs[i]] ELSE Undefined]
    IN NewResult(m, CASE Len(xs) < Needed(f) -> Bad("argument")
                      [] f \in NeedsStr /\ x[1][1] # "str" -> Bad("str object")
                      [] OTHER -> Method(f, t, x))
\* str_join over a list of strings, the keys of a config or the characters of
\* a string.
str_join(m, t, xs) ==
    LET c == IF xs = <<>> THEN Undefined ELSE m.h[xs[1]]
        q == CASE c[1] = "list" -> [i \in DOMAIN c[2] |-> AsStr(m.h[c[2][i]])]
               [] IsConfig(c) -> c[2].k
               [] c[1] = "str" -> Chars(c[2])
    IN IF c[1] \notin {"list", "dict", "schema", "str"} THEN Fail(m, "not iterable")
       ELSE IF c[1] = "str" /\ ByteLen(c[2]) > Len(c[2]) THEN Fail(m, "unwrap")
       ELSE New(m, VStr(Concat([i \in 1..IF q = <<>> THEN 0 ELSE 2 * Len(q) - 1 |->
                                   IF i % 2 = 1 THEN q[(i + 1) \div 2] ELSE t])))
=============================================================================
