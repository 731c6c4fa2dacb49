----------------------------- MODULE MCLanguage -----------------------------
(* Programs over small values.                                               *)
EXTENDS Language

I(n) == <<"int", n>>
F(n, d) == <<"float", <<n, d>>>>
S(t) == <<"str", t>>
L(es) == <<"list", es>>
N(n) == <<"name", n>>
Id(k, op, v) == <<<<"id", k, -1>>, op, v>>
C(es) == <<"config", es>>
\* Statement number i of a program is on line 100 + i.
Let(i, n, e) == <<"assign", 100 + i, <<n>>, e, <<"any">>>>
Program(schemas, stmts) == [schemas |-> schemas, stmts |-> stmts]
Plain1(stmts) == Program(<<>>, stmts)

-----------------------------------------------------------------------------
Numbers == {I(n) : n \in {-8, -3, -1, 1, 2, 3, 7, 100}} \cup {F(1, 2), F(-3, 2), F(2, 1)}
Ops == IntOps \ {"**"}
Calculate(x, op, y) ==
    Plain1(<<Let(1, "x", x), Let(2, "y", y), Let(3, "d", <<"bin", op, N("x"), N("y")>>),
             Let(4, "_c", N("x")), <<"aug", 105, "_c", op, N("y")>>>>)
Calculations ==
    {Calculate(x, op, y) :
        x \in Numbers \cup {S("ab"), L(<<I(1), I(2)>>)}, y \in Numbers \cup {S("ab"), L(<<I(1)>>)}, op \in Ops}
    \cup
    {Plain1(<<Let(1, "x", x), Let(2, "y", y), Let(3, "q", <<"bin", "//", N("x"), N("y")>>),
              Let(4, "r", <<"bin", "%", N("x"), N("y")>>)>>) : x \in Numbers, y \in Numbers}
    \cup
    {Calculate(x, "**", y) : x \in {I(0)} \cup (Numbers \ {I(100)}),
                             y \in {I(n) : n \in {-2, -1, 0, 1, 2, 3, 8}} \cup {F(2, 1), F(-1, 1), F(8, 1)}}

Bounds == {None} \cup {I(n) : n \in {-4, -3, -1, 1, 2, 3, 4}}
Slices ==
    {Plain1(<<Let(1, "s", s), Let(2, "c", <<"slice", N("s"), <<i, j, k>>, FALSE>>)>>) :
        s \in {S("abc"), L(<<I(1), I(2), I(3)>>)}, i \in Bounds, j \in Bounds,
        k \in {None, I(1), I(2), I(-1), I(-2)}}

Configs == {
    C(<<>>), C(<<Id("x", "union", I(1))>>), C(<<Id("x", "override", I(2))>>), C(<<Id("x", "union", F(1, 1))>>),
    C(<<Id("x", "union", None), Id("y", "union", S("a"))>>),
    C(<<Id("l", "union", L(<<I(1)>>))>>), C(<<Id("l", "insert", L(<<I(2)>>))>>),
    C(<<Id("l", "union", L(<<I(2)>>)), Id("x", "union", I(1))>>),
    C(<<Id("l", "union", L(<<C(<<Id("x", "union", I(1))>>)>>))>>),
    C(<<Id("l", "union", L(<<C(<<Id("y", "union", I(1))>>)>>))>>),
    C(<<Id("c", "union", C(<<Id("x", "union", I(1)), Id("l", "union", L(<<I(1)>>))>>))>>),
    C(<<Id("c", "union", C(<<Id("x", "override", I(3)), Id("l", "insert", L(<<I(2)>>))>>))>>),
    C(<<Id("c", "override", C(<<Id("y", "union", I(1))>>)), Id("x", "union", I(1))>>)}
Unions ==
    {Plain1(<<Let(1, "a", a), Let(2, "b", b), Let(3, "c", <<"bin", "|", N("a"), N("b")>>)>>) :
        a \in Configs, b \in Configs}

Items == {I(-1), I(1), I(2), I(3), S("a")}
Above1 == <<"and", <<"bin", "in", N("v"), L(<<I(2), I(3)>>)>>, <<"bool", TRUE>>>>
Quant(op) == <<"quant", op, <<"v">>, N("s"), Above1, <<>>>>
Loops ==
    {Plain1(<<Let(1, "s", L(<<a, b, c>>)), Let(2, "f", Quant("filter")), Let(3, "all", Quant("all")),
              Let(4, "any", Quant("any")),
              Let(5, "g", <<"listcomp", N("v"), <<<<<<"v">>, N("s"), Above1>>>>>>),
              Let(6, "h", <<"dictcomp", <<"str", "k">>, N("w"), "override",
                                        <<<<<<"i", "w">>, N("g"), <<>>>>>>>>)>>) :
        a \in Items, b \in Items, c \in Items}

Call(n, f, args) == <<"method", N(n), f, args>>
Texts == {"", "a", "ab", "aab", "aaa", "baa", "a w", "waw", " a  b ", "a\r\nb", "a\n\rb\n"}
Parts == {"a", "aa", "", "w"}
TextPrograms ==
    {Plain1(<<Let(1, "s", S(s)), Let(2, "p", Call("s", f, <<S(x), I(n)>>)), Let(3, "x", S(x)),
              Let(4, "j", Call("x", "join", <<N("p")>>))>>) :
        s \in Texts, x \in Parts, n \in {-1, 0, 1, 2}, f \in {"split", "rsplit"}}
    \cup
    {Plain1(<<Let(1, "s", S(s)), Let(2, "p", Call("s", "splitlines", <<<<"bool", TRUE>>>>)), Let(3, "x", S("")),
              Let(4, "j", Call("x", "join", <<N("p")>>))>>) : s \in Texts}
    \cup
    {Plain1(<<Let(1, "s", S(s)), Let(2, "rep", Call("s", "replace", <<S(x), S(y)>>)), Let(3, "x", S(y)),
              Let(4, "parts", Call("s", "split", <<S(x)>>)), Let(5, "back", Call("x", "join", <<N("parts")>>))>>) :
        s \in Texts, x \in Parts, y \in {"", "a", "bb"}}
    \cup
    {Plain1(<<Let(1, "s", S(s)), Let(2, "i", Call("s", f, <<S(x), I(k)>>)), Let(3, "t", Call("s", "startswith", <<S(x), N("i")>>))>>) :
        s \in Texts, x \in Parts, f \in {"find", "rfind"}, k \in -3..4}
    \cup
    {Plain1(<<Let(1, "s", S(s)), Let(2, "u", <<"method", Call("s", f, <<>>), g, <<>>>>)>>) :
        s \in {"", "aB c", "A", "w", " ", "wa B"}, f \in {"upper", "lower", "title"}, g \in {"isupper", "islower", "istitle"}}
    \cup
    {Plain1(<<Let(1, "s", S(s)), Let(2, "u", Call("s", f, x))>>) :
        s \in Texts, f \in {"strip", "lstrip", "rstrip"}, x \in {<<>>, <<S("a")>>, <<S("aw")>>}}
    \cup
    {Plain1(<<Let(1, "s", S(s)), Let(2, "u", Call("s", f, <<x>>))>>) :
        s \in Texts, f \in {"count", "endswith", "index", "rindex", "removeprefix", "removesuffix", "splitlines", "split", "rsplit"},
        x \in {S("a"), S("aa"), S(""), None}}

-----------------------------------------------------------------------------
(* Expressions over values of every type, with and without annotations.      *)
Op2(op, x, y) == <<"bin", op, x, y>>
Typed(i, n, T, e) == <<"assign", 100 + i, <<n>>, e, T>>
IntT == <<"int">>
StrT == <<"str">>
KindsOfValue == <<I(2), F(1, 2), S("ab"), <<"bool", TRUE>>, None, L(<<I(1), I(2)>>), L(<<S("a")>>), L(<<I(1), S("a")>>), L(<<>>),
                  C(<<Id("a", "union", I(1))>>), C(<<Id("a", "union", I(1)), Id("b", "union", S("x"))>>), C(<<Id("a", "union", L(<<I(1)>>))>>)>>
Each1(e) == <<<<<<"n1">>, e, <<>>>>>>
Uses(x) == <<Op2("+", x, I(1)), Op2("+", x, S("a")), Op2("+", x, L(<<I(2)>>)), Op2("*", x, I(2)), Op2("//", x, I(2)), Op2("-", F(1, 2), x),
             Op2("|", x, C(<<Id("b", "union", I(2))>>)), Op2("|", x, I(1)), Op2("<<", x, I(1)),
             Op2("==", x, I(1)), Op2("<", x, I(1)), Op2("in", I(1), x), Op2("in", S("a"), x),
             <<"unary", "-", x>>, <<"unary", "~", x>>,
             <<"attr", x, "a", FALSE>>, <<"sub", x, I(0), FALSE>>, <<"sub", x, S("a"), FALSE>>, <<"slice", x, <<I(1), None, None>>, FALSE>>,
             <<"method", x, "upper", <<>>>>, <<"method", x, "split", <<>>>>,
             L(<<x, I(1)>>), L(<<<<"star", x>>, S("z")>>), C(<<Id("y1", "union", x)>>), C(<<<<<<"unpack">>, "union", x>>>>),
             <<"if", x, <<"bool", TRUE>>, S("a")>>, <<"or", x, I(7)>>,
             <<"listcomp", N("n1"), Each1(x)>>, <<"listcomp", Op2("+", N("n1"), I(1)), Each1(x)>>,
             <<"dictcomp", <<"str", "k">>, N("n1"), "union", Each1(x)>>, <<"quant", "map", <<"n1">>, x, Op2("*", N("n1"), I(2)), <<>>>>,
             <<"quant", "all", <<"n1">>, x, Op2(">", N("n1"), I(1)), <<>>>>, x>>
Both(x, y) == <<Op2("+", y, x), Op2("|", y, x), Op2("in", x, y), Op2("==", x, y), L(<<x, y>>), Op2("*", y, I(2)), <<"sub", y, I(0), FALSE>>,
                <<"attr", y, "a", FALSE>>, <<"listcomp", Op2("+", N("n1"), x), Each1(y)>>, C(<<Id("y1", "union", y), Id("y2", "union", x)>>)>>
Annotations == <<<<"any">>, IntT, StrT, <<"float">>, ListOf(IntT), DictOf(StrT, IntT), <<"union", <<IntT, StrT>>>>>>
Given1(i) == Let(1, "k1", KindsOfValue[i])
TypedPrograms ==
    {Plain1(<<Given1(i), Typed(2, "k2", Annotations[t], Uses(N("k1"))[j])>>) :
        i \in DOMAIN KindsOfValue, j \in DOMAIN Uses(N("k1")), t \in DOMAIN Annotations}
    \cup
    {Plain1(<<Given1(i), Let(2, "k2", Uses(N("k1"))[j]), Let(3, "k3", Both(N("k1"), N("k2"))[l])>>) :
        i \in DOMAIN KindsOfValue, j \in DOMAIN Uses(N("k1")), l \in DOMAIN Both(N("k1"), N("k2"))}

ValuePrograms == Calculations \cup Slices \cup Unions \cup Loops \cup TextPrograms \cup TypedPrograms
-----------------------------------------------------------------------------
(* Schemas over the attributes a, b and c.                                   *)
Plus(x, y) == <<"bin", "+", x, y>>
Over(x, y) == <<"bin", ">", x, y>>
Attr(l, n, e) == <<"attr", l, n, <<"int">>, IF e = <<>> THEN "" ELSE "=", e, FALSE>>
Set(l, n, e)  == <<"assign", l, <<n>>, e, <<"any">>>>
Schema(base, mixins, body, checks) ==
    [base |-> base, mixins |-> mixins, args |-> <<>>, defaults |-> <<>>, body |-> body, index |-> <<>>, checks |-> checks]
Make(s, config) == <<"schema", s, <<>>, <<>>, C(config)>>
At(l, s) == IF s[1] # "if" THEN [s EXCEPT ![2] = l]
            ELSE [s EXCEPT ![2] = l, ![4][1][2] = l + 1, ![5][1][2] = l + 3]
\* A body of statements from the pool, numbered as they stand.
Pool == <<Attr(0, "a", I(1)), Set(0, "a", I(2)),
          Attr(0, "b", Plus(N("a"), I(1))), Set(0, "b", N("a")),
          Attr(0, "c", Plus(N("b"), N("a"))), Set(0, "c", N("b")),
          <<"if", 0, Over(N("a"), I(1)), <<Set(0, "c", I(3))>>, <<Set(0, "c", N("b"))>>>>>>
Bodies(k) == {[i \in 1..k |-> At(10 * i, Pool[f[i]])] : f \in {f \in [1..k -> DOMAIN Pool] :
                 \A i, j \in 1..k : i # j => f[i] # f[j]}}
Base == <<Attr(61, "a", I(1)), Attr(62, "b", N("a"))>>
Mixin == <<Attr(71, "c", Plus(N("a"), I(4))), Set(72, "a", I(6))>>
Declared(body) == {st[3] : st \in {st \in Names(body) : st[1] = "attr"}}
Ints(config) == [i \in DOMAIN config |-> Id(config[i][1], "override", I(config[i][2]))]
Given == {<<>>, <<<<"a", 7>>>>, <<<<"b", 8>>>>, <<<<"c", 9>>, <<"a", 7>>>>}
Family(schemas, configs) ==
    {Program(schemas, <<Let(1, "x", Make("S", Ints(c))), Let(2, "y", Make("S", Ints(c)))>>) : c \in configs}
OrderPrograms ==
    UNION {Family([S |-> Schema("B", <<>>, b, <<>>), B |-> Schema("", <<>>, Base, <<>>)], Given) :
              b \in {b \in Bodies(1) \cup Bodies(2) \cup Bodies(3) : "c" \in Declared(b)}}
    \cup
    UNION {Family([S |-> Schema("B", <<"MMixin">>, b, <<>>), B |-> Schema("", <<>>, Base, <<>>),
                   MMixin |-> Schema("", <<>>, Mixin, <<>>)], Given) : b \in Bodies(1) \cup Bodies(2)}
    \cup
    UNION {Family([S |-> Schema("", <<>>, b, <<>>)], Given) :
              b \in {b \in Bodies(4) : Declared(b) = {"a", "b", "c"}}}

\* Required and optional attributes, arguments, checks and index signatures.
Optional1 == [Attr(13, "e", <<>>) EXCEPT ![7] = TRUE]
Checked == {<<>>, <<<<Over(N("d"), N("a")), <<>>>>>>, <<<<Over(N("d"), N("a")), Over(N("a"), I(2))>>>>}
AcceptPrograms ==
    {p \in {Program([S |-> [Schema("B", <<>>, <<Attr(11, "a", N("p")), Attr(12, "d", <<>>), Optional1>>, own) EXCEPT
                        !.args = <<"p">>, !.defaults = <<I(1)>>, !.index = ix],
              B |-> Schema("", mx, <<Attr(61, "b", Plus(N("d"), I(1)))>>, base),
              MMixin |-> Schema("", <<>>, <<Attr(71, "c", N("b"))>>, <<<<Over(I(9), N("c")), <<>>>>>>)],
             <<Let(1, "x", <<"schema", "S", args, <<>>, C(Ints(c))>>)>>) :
        own \in Checked, base \in {<<>>, <<<<Over(N("d"), I(3)), <<>>>>>>}, mx \in {<<>>, <<"MMixin">>}, args \in {<<>>, <<I(5)>>},
        ix \in {<<>>, [key |-> "", type |-> <<"int">>, value |-> <<>>, other |-> FALSE], [key |-> "k", type |-> <<"int">>, value |-> <<>>, other |-> FALSE]},
        c \in {<<>>, <<<<"d", 4>>>>, <<<<"d", 3>>, <<"a", 3>>>>, <<<<"d", 8>>>>, <<<<"e", 2>>, <<"d", 6>>>>,
               <<<<"d", 4>>, <<"z", 2>>>>}} :
        p.schemas["S"].index # <<>> => p.stmts[1][4][3] = <<>>}

\* The same configs at once and one after the other.
Derived == <<Attr(11, "a", I(1)), Attr(12, "b", Plus(N("a"), I(1))), Attr(13, "c", Plus(N("b"), I(1)))>>
Pairs == {cd \in {<<>>, <<<<"a", 7>>>>, <<<<"b", 8>>>>} \X {<<<<"c", 9>>>>, <<<<"a", 3>>>>, <<<<"b", 5>>>>} :
             \A i \in DOMAIN cd[1] : cd[1][i][1] # cd[2][1][1]}
CombinePrograms ==
    {Program([S |-> Schema("B", <<>>, SubSeq(Derived, 2, 3), <<>>), B |-> Schema("", <<>>, SubSeq(Derived, 1, 1), <<>>)],
             <<Let(1, "w", Make("S", Ints(cd[1] \o cd[2])))>> \o
             (CASE way = "unify" -> <<<<"unify", 102, "v", Make("S", Ints(cd[1]))>>, <<"unify", 103, "v", Make("S", Ints(cd[2]))>>>>
                [] way = "bin"   -> <<Let(2, "u", Make("S", Ints(cd[1]))), Let(3, "v", <<"bin", "|", N("u"), C(Ints(cd[2]))>>)>>
                [] way = "made"  -> <<Let(2, "u", Make("S", Ints(cd[1]))), Let(3, "v", <<"schema", "u", <<>>, <<>>, C(Ints(cd[2]))>>)>>
                [] way = "set"   -> <<Let(2, "_v", Make("S", Ints(cd[1]))), <<"set", 103, "_v", cd[2][1][1], I(cd[2][1][2])>>>>)) :
        cd \in Pairs, way \in {"unify", "bin", "made", "set"}}

\* Key paths, and keys that are given twice.
Path(ks, op, v) == <<<<"path", ks, -1>>, op, v>>
NestPrograms ==
    {Program([K |-> Schema("", <<>>, <<<<"attr", 11, "o", <<"any">>, "", <<>>, TRUE>>, Attr(12, "a", I(1))>>, <<>>)],
             <<Let(1, "w", Make("K", cde[3])), <<"unify", 102, "v", Make("K", cde[1])>>, <<"unify", 103, "v", Make("K", cde[2])>>>>) :
        cde \in {
            <<<<Path(<<"o", "x">>, "union", I(1))>>, <<Path(<<"o", "y">>, "override", I(2))>>,
              <<Id("o", "union", C(<<Id("x", "union", I(1)), Id("y", "union", I(2))>>))>>>>,
            <<<<Path(<<"o", "x", "y">>, "union", I(1))>>, <<Path(<<"o", "x", "y">>, "override", I(2))>>,
              <<Id("o", "union", C(<<Id("x", "union", C(<<Id("y", "union", I(2))>>))>>))>>>>,
            <<<<Id("a", "union", I(1))>>, <<Id("a", "override", I(2)), Id("o", "union", C(<<>>))>>,
              <<Id("a", "union", I(2)), Id("o", "union", C(<<>>))>>>>}}
\* A key path and the nested configs it stands for, in the same place.
ByPath == C(<<Path(<<"o", "x", "y">>, "override", I(1)), Id("z", "union", I(2))>>)
Nested1 == C(<<Id("o", "union", C(<<Id("x", "union", C(<<Id("y", "override", I(1))>>))>>)), Id("z", "union", I(2))>>)
Yes == <<"bool", TRUE>>
Once == <<<<<<"n1">>, L(<<I(1)>>), <<>>>>>>
Inside(x) == <<x, Op2("|", x, C(<<>>)), L(<<x>>), L(<<<<"listif", Yes, <<x>>, L(<<>>)>>>>), <<"listcomp", x, Once>>,
               <<"dictcomp", <<"str", "k">>, x, "override", Once>>, <<"quant", "map", <<"n1">>, L(<<I(1)>>), x, <<>>>>,
               <<"if", Yes, x, None>>, <<"and", Yes, x>>, <<"sub", L(<<x>>), I(0), FALSE>>, <<"slice", L(<<x>>), <<None, None, None>>, FALSE>>,
               <<"attr", C(<<Id("k", "union", x)>>), "k", FALSE>>, C(<<Id("k", "union", x)>>),
               C(<<<<<<"unpack">>, "union", <<"cfgif", Yes, <<Id("k", "union", x)>>, C(<<>>)>>>>>>),
               <<"schema", "A", <<x>>, <<>>, C(<<>>)>>, <<"schema", "A", <<>>, <<<<"p", x>>>>, C(<<>>)>>>>
WithArg(x, y) == [Schema("", <<>>, <<<<"attr", 11, "o", <<"any">>, "=", N("p"), FALSE>>, <<"attr", 12, "k", <<"any">>, "=", y, FALSE>>>>, <<>>)
                  EXCEPT !.args = <<"p">>, !.defaults = <<x>>]
NestPlaces ==
    {Program([A |-> WithArg(None, I(1))], <<Let(1, "w", Inside(Nested1)[j]), Let(2, "v", Inside(ByPath)[j])>>) : j \in DOMAIN Inside(ByPath)}
    \cup
    {Program(<<>>, <<Let(1, "w", Nested1), <<"if", 102, Yes, <<Let(3, "_v", ByPath)>>, <<Let(4, "_v", ByPath)>>>>>>),
     Program([A |-> WithArg(Nested1, Nested1), B |-> WithArg(ByPath, ByPath)], <<Let(1, "w", Make("A", <<>>)), Let(2, "v", Make("B", <<>>))>>)}

\* Values that instances might share.
Lists == <<<<"attr", 11, "l", <<"list", <<"int">>>>, "=", N("g"), FALSE>>,
           <<"attr", 12, "k", <<"any">>, "=", <<"config", <<Id("x", "union", I(1))>>>>, FALSE>>,
           <<"attr", 13, "t", <<"schema", "T">>, "=", Make("T", <<>>), FALSE>>>>
SharePrograms ==
    {Program([S |-> Schema("", <<>>, Lists, <<>>), T |-> Schema("", <<>>, <<Attr(61, "a", I(1))>>, <<>>)],
             <<Let(1, "g", L(<<I(1), I(2)>>)), Let(2, "x", Make("S", c)), Let(3, "y", Make("S", c))>> \o rest) :
        c \in {<<>>, <<Id("l", "insert", L(<<I(3)>>))>>, <<Id("l", "union", N("g"))>>, <<Id("t", "union", C(<<Id("a", "override", I(2))>>))>>},
        rest \in {<<>>, <<<<"assert", 104, <<"bin", "==", N("x"), N("y")>>, <<>>>>>>,
                  <<<<"if", 104, <<"bin", "==", N("x"), N("y")>>, <<Let(5, "_z", N("x"))>>, <<Let(6, "_z", N("y"))>>>>>>,
                  <<<<"expr", 104, <<"bin", "==", N("x"), N("y")>>>>>>}}

\* Instances in instances, lists and configs, each planned as its settings say.
How(t) == Id("__settings__", "override", C(<<Id("output_type", "union", <<"str", t>>)>>))
Ways == {"INLINE", "STANDALONE", "IGNORE"}
Leaf(n, t) == Make("T", <<How(t), Id("v", "override", I(n)), Id("_p", "override", I(7))>>)
Holder(t, e) == Make("H", <<How(t), Id("v", "override", I(3)), Id("o", "override", e)>>)
PlanPrograms ==
    {Program([T |-> Schema("", <<>>, <<Attr(11, "v", <<>>), Attr(12, "_p", <<>>)>>, <<>>),
              H |-> Schema("", <<>>, <<Attr(21, "v", <<>>), <<"attr", 22, "o", <<"any">>, "", <<>>, TRUE>>>>, <<>>)],
             <<Let(1, "x", e), Let(2, "_y", Leaf(9, "INLINE"))>>) :
        e \in {Holder(t, Leaf(1, u)) : t \in Ways, u \in Ways}
              \cup {Holder(t, L(<<Leaf(1, u), Leaf(2, w), I(4)>>)) : t \in Ways, u \in Ways, w \in Ways}
              \cup {L(<<Holder(t, Leaf(1, u)), C(<<Id("q", "union", Leaf(2, w))>>)>>) :
                       t \in Ways, u \in Ways, w \in Ways}
              \cup {Holder(t, L(<<Holder(u, Leaf(1, w)), I(4)>>)) : t \in Ways, u \in Ways, w \in Ways}
              \cup {C(<<Id("q", "union", L(<<L(<<Holder(u, L(<<Leaf(1, w)>>))>>), L(<<>>)>>))>>) : u \in Ways, w \in Ways}
              \cup {L(<<L(<<Leaf(1, u)>>), Leaf(2, w)>>) : u \in Ways, w \in Ways}}

\* Attributes and configs of several types, under each other's expectation.
TypeT == <<"schema", "T">>
ConfigsT == {<<>>} \cup {<<Id("a", op, v)>> : op \in {"union", "override"}, v \in {I(1), S("s"), L(<<I(1)>>)}} \cup {<<Id("z", "union", I(1))>>}
UsesT(x) == <<Let(2, "k2", Op2("+", <<"attr", x, "a", FALSE>>, I(1))), Let(2, "k2", Op2("|", x, C(<<Id("a", "override", I(2))>>))),
              Typed(2, "k2", TypeT, x), Typed(2, "k2", <<"schema", "D">>, x), Let(2, "k2", <<"attr", x, "z", FALSE>>),
              Let(2, "k2", C(<<<<<<"unpack">>, "union", x>>>>)), Typed(2, "k2", <<"list", TypeT>>, L(<<x>>))>>
TypedSchemas ==
    {Program([T |-> Schema("", <<>>, <<<<"attr", 11, "a", Annotations[t], IF e = <<>> THEN "" ELSE "=", e, FALSE>>>>, <<>>),
              D |-> Schema("T", <<>>, <<<<"attr", 21, "o", TypeT, "", <<>>, TRUE>>>>, <<>>)],
             <<first, UsesT(N("k1"))[j]>>) :
        t \in {2, 5, 7}, e \in {<<>>, I(1), S("s"), L(<<I(1)>>)}, j \in 1..7,
        first \in UNION {{Let(1, "k1", Make("T", k)), Typed(1, "k1", TypeT, C(k)), Let(1, "k1", Make("D", k)),
                          Let(1, "k1", Make("D", <<Id("o", "union", C(k))>>))} : k \in ConfigsT}}

SchemaPrograms == OrderPrograms \cup AcceptPrograms \cup CombinePrograms \cup NestPrograms \cup NestPlaces \cup SharePrograms
                  \cup PlanPrograms \cup TypedSchemas
-----------------------------------------------------------------------------
\* Programs of values with and without strict_range_check, schemas without.
OptionsOf(strict) == [strict |-> strict, debug |-> FALSE, nocheck |-> FALSE, disableNone |-> FALSE]
ValueRuns == ValuePrograms \X {OptionsOf(FALSE), OptionsOf(TRUE)}
SchemaRuns == SchemaPrograms \X {OptionsOf(FALSE)}
AllRuns == ValueRuns \cup SchemaRuns
=============================================================================
