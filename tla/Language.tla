------------------------------ MODULE Language ------------------------------
(* A run of a program: it is pre-processed and checked, and unless the check *)
(* found an error its global statements are executed one after another and   *)
(* its results planned.  The program and the options are chosen at the       *)
(* start.                                                                    *)
EXTENDS Checker

CONSTANT Runs         \* pairs of a program [schemas, stmts] and the options
                      \* [strict, debug, nocheck, disableNone] it is run with
VARIABLES m,          \* the machine state of Codegen
          pc,         \* 0 before the tree is pre-processed, then the next
                      \* statement; one past the end, the planning
          docs,       \* the planned documents
          sem         \* what the checker found: its errors, and the types of
                      \* the global names
vars == <<m, pc, docs, sem>>

\* The cfg of the second context, in which the JSON text is planned.
PlanOptions == [disableNone |-> FALSE, planEmptyList |-> FALSE]

Init == /\ \E r \in Runs : m = Start(r[1], r[2])
        /\ pc = 0
        /\ docs = <<>>
        /\ sem = [errs |-> {}, types |-> <<>>]

Stmts == m.p.stmts
Running == m.err = "" /\ sem.errs = {} /\ pc \in 1..Len(Stmts)
Prepare == /\ pc = 0
           /\ \E p \in {pre_process_program(m.p)} : \E k \in {check(p)} :
                 /\ m' = Start(p, m.o)
                 /\ sem' = [errs |-> k.errs, types |-> k.sc[1]]
           /\ pc' = 1
           /\ UNCHANGED docs
\* One statement of the kind.
Exec(kind) == /\ Running
              /\ Stmts[pc][1] = kind
              /\ m' = Run(<<"stmt", Stmts[pc]>>, m)
              /\ pc' = pc + 1
              /\ UNCHANGED <<docs, sem>>
Assign  == Exec("assign")
Augment == Exec("aug")
Unify   == Exec("unify")
SetAttr == Exec("set")
AssertStmt == Exec("assert")
IfStmt  == Exec("if")
Scalar  == Exec("expr")
PlanResults == /\ m.err = "" /\ sem.errs = {} /\ pc = Len(Stmts) + 1
               /\ m' = Globals(m)
               /\ pc' = pc + 1
               /\ docs' = IF m'.err # "" THEN <<>> ELSE Documents(Tree(m'.h, m'.r, m'.o), PlanOptions)
               /\ UNCHANGED sem
Next == Prepare \/ Assign \/ Augment \/ Unify \/ SetAttr \/ AssertStmt \/ IfStmt \/ Scalar \/ PlanResults
Spec == Init /\ [][Next]_vars

-----------------------------------------------------------------------------
Finished == m.err = "" /\ pc = Len(Stmts) + 2
Known(x, n) == n \in DOMAIN x.sc[1].v
AddrOf(x, n) == x.b[x.sc[1].v[n]]
Value(n) == m.h[AddrOf(m, n)]
DeepValue(x, n) == Deep(x.h, AddrOf(x, n))
\* The statement `n = e` that has been executed last, if any: e.
Done == {i \in 1..Len(Stmts) : i < pc}
ExprOf(n) == {Stmts[i][4] : i \in {i \in Done : Stmts[i][1] = "assign" /\ Stmts[i][3] = <<n>>}}
Have(ns) == m.err = "" /\ \A n \in ns : ExprOf(n) # {}

RECURSIVE Reach(_, _)
Reach(H, a) ==
    {a} \cup CASE H[a][1] = "list" -> UNION {Reach(H, H[a][2][i]) : i \in DOMAIN H[a][2]}
               [] IsConfig(H[a])  -> UNION {Reach(H, H[a][2].v[k]) : k \in DOMAIN H[a][2].v}
               [] OTHER -> {}

\* Programs that set x and y, then q = x // y and r = x % y.
(* The quotient and the remainder of two ints fit together, and the remainder *)
(* has the sign of the divisor (bin_floor_div and bin_mod).                   *)
DivModAgree ==
    Have({"x", "y", "q", "r"}) /\ Value("x")[1] = "int" /\ Value("y")[1] = "int" =>
        DivMod(Value("x")[2], Value("y")[2], Value("q")[2], Value("r")[2])

\* Programs that set x and y, then d = x op y, _c = x, _c op= y.
AugDiffers(op, x, y) ==
    \/ op = "/" /\ x[1] = "int" /\ y[1] = "int"
    \/ x[1] = "int" /\ y[1] = "float"
    \/ op = "//" /\ x[1] = "float"
    \/ op = "*" /\ x[1] = "list" /\ y = VInt(0)
(* `_c op= y` leaves in _c what `x op y` gives, but for the integer and       *)
(* float mixes and the empty repetition where bin_aug_* is known to differ.   *)
AugAgrees ==
    Have({"d", "_c"}) /\ (\E i \in Done : Stmts[i][1] = "aug" /\ Stmts[i][3] = "_c") =>
        LET op == (CHOOSE e \in ExprOf("d") : TRUE)[2]
            x  == CHOOSE e \in ExprOf("x") : TRUE
            y  == CHOOSE e \in ExprOf("y") : TRUE
        IN AugDiffers(op, x, y) \/ DeepValue(m, "_c") = DeepValue(m, "d")

\* d is the number that x op y stands for.  Of a shift to the left the bits
\* beyond i64 are gone: checked_shl looks at the distance alone, and only the
\* narrower operands of strict_range_check leave room for all of them.  Of a
\* power with a negative exponent, 0 gives 0.
IsResult(op, x, y, d) ==
    CASE op = "+"  -> d = x + y
      [] op = "-"  -> d = x - y
      [] op = "*"  -> d = x * y
      [] op = "**" -> IF y > 0 THEN d = x^y ELSE IF y = 0 THEN d = 1
                      ELSE x \in -1..1 /\ d = IF y % 2 = 0 THEN x * x ELSE x
      [] op = "<<" -> y >= 0 /\ IF m.o.strict THEN d = x * 2^y ELSE (x * 2^y - d) % 2^Bits64 = 0
      [] op = ">>" -> y >= 0 /\ d = x \div 2^y
      [] OTHER -> TRUE
(* A sum, difference, product or power of ints is the exact number, an i32    *)
(* under strict_range_check and otherwise an i64, or an error and never       *)
(* wrapped; a shift to the right is exact, and one to the left exact up to    *)
(* the bits that leave the i64 (the checks of val_overflow.rs).               *)
IntsExact ==
    Have({"x", "y", "d"}) =>
        \A x \in ExprOf("x"), y \in ExprOf("y"), e \in ExprOf("d") :
            LET d == Value("d") IN
            x[1] = "int" /\ y[1] = "int" /\ d[1] = "int" =>
                /\ IsResult(e[2], x[2], y[2], d[2])
                /\ IF m.o.strict /\ e[2] \in {"+", "-", "*", "**"} THEN InI32(d[2]) ELSE InI64(d[2])

(* Arithmetic is that of the integers within the machine's widths: quotient   *)
(* and remainder belong together, an operator and its augmented form agree,   *)
(* and no result but that of a left shift is ever cut to the width.           *)
ArithmeticExact == DivModAgree /\ AugAgrees /\ IntsExact

\* Programs with s = a list or string and c = s[i:j:k].
SlicePositions(n, i, j, k) ==
    LET st == IF k = None THEN 1 ELSE k[2]
        From(b) == IF b[2] < 0 THEN b[2] + n ELSE b[2]
        first == CASE i = None -> IF st > 0 THEN 0 ELSE n - 1
                   [] st > 0 /\ From(i) < 0 -> 0
                   [] st < 0 /\ From(i) >= n -> n - 1
                   [] OTHER -> From(i)
        S == {p \in 0..n - 1 : /\ (p - first) % Abs(st) = 0
                               /\ (st > 0) = (p >= first) \/ p = first
                               /\ j # None => IF st > 0 THEN p < From(j) ELSE p > From(j)}
    IN [x \in 1..Cardinality(S) |->
           1 + CHOOSE p \in S : Cardinality({q \in S : IF st > 0 THEN q <= p ELSE q >= p}) = x]
(* A slice holds the elements between its bounds, step by step, negative      *)
(* bounds counted from the end (slice_adjust_indices and list_slice).         *)
SliceExact ==
    \A e \in ExprOf("c") : m.err = "" /\ e[1] = "slice" =>
        LET s == Value("s")[2]
            ix == SlicePositions(Len(s), e[3][1], e[3][2], e[3][3])
            c == Value("c")
        IN /\ Len(c[2]) = Len(ix)
           /\ \A p \in DOMAIN ix : SubSeq(c[2], p, p) = SubSeq(s, ix[p], ix[p])

\* Programs with c = a | b for config literals a and b.
Conflict == <<"conflict">>
RECURSIVE RefTree(_), RefMerge(_, _), RefEntry(_, _)
RefTree(e) ==
    CASE e[1] = "list" -> <<"list", [i \in DOMAIN e[2] |-> RefTree(e[2][i])]>>
      [] e[1] = "config" -> RefMerge(<<"dict", <<>>, "">>, e)
      [] OTHER -> e
\* The value t with the value e laid over it, where they agree.
RefEntry(t, e) ==
    CASE t \in {<<"none">>, <<"undefined">>} -> RefTree(e)
      [] e[1] \in {"none", "undefined"} -> t
      [] t[1] = "dict" /\ e[1] = "config" -> RefMerge(t, e)
      [] t[1] = "list" /\ e[1] = "list" /\ Len(t[2]) = Len(e[2]) ->
           LET q == [i \in DOMAIN e[2] |-> RefEntry(t[2][i], e[2][i])] IN
           IF \E i \in DOMAIN q : q[i] = Conflict THEN Conflict ELSE <<"list", q>>
      [] IsNumber(t) /\ IsNumber(e) -> IF FracOf(t) = FracOf(e) THEN e ELSE Conflict
      [] OTHER -> IF t = RefTree(e) THEN t ELSE Conflict
\* The config t with the entries of the literal e.
RefMerge(t, e) ==
    LET Lay(u, x) ==
            LET k == x[1][2]
                old == u[2][k]
                v == IF k \notin DOMAIN u[2] \/ x[2] = "override" THEN RefTree(x[3])
                     ELSE IF x[2] = "insert"
                     THEN CASE old = <<"none">> -> RefTree(x[3])
                            [] old[1] = "list" /\ x[3][1] = "list" -> <<"list", old[2] \o RefTree(x[3])[2]>>
                            [] OTHER -> Conflict
                     ELSE RefEntry(old, x[3])
            IN IF u = Conflict \/ v = Conflict THEN Conflict ELSE <<"dict", (k :> v) @@ u[2], "">>
        F[i \in 0..Len(e[2])] == IF i = 0 THEN t ELSE LET u == F[i - 1] IN IF u = Conflict THEN u ELSE Lay(u, e[2][i])
    IN F[Len(e[2])]
(* The union of two configs has the entries of both, merged as their          *)
(* operators say; two values that disagree are an error and never lost        *)
(* (do_union).                                                                *)
UnionExact ==
    \A i \in 1..Len(Stmts) :
        LET e == Stmts[i][4] IN
        Stmts[i][1] = "assign" /\ Stmts[i][3] = <<"c">> /\ e[1] = "bin" /\ i = pc - 1 =>
            LET t == RefMerge(RefTree(Stmts[1][4]), Stmts[2][4]) IN
            IF t = Conflict THEN m.err # "" ELSE m.err = "" /\ DeepValue(m, "c") = t

\* The expressions of a program's comprehensions test or give x > 1.
Satisfies(t) == t[1] = "int" /\ t[2] > 1
(* filter keeps exactly the elements that satisfy the test, all and any agree *)
(* with them, and a comprehension with the condition is the same as filter    *)
(* (walk_quant_expr and walk_generator).                                      *)
QuantExact ==
    \A n \in {"f", "g", "all", "any"} : Have({n, "s"}) =>
        LET s == DeepValue(m, "s")[2]
            v == DeepValue(m, n)
        IN CASE n \in {"f", "g"} -> v[2] = SelectSeq(s, Satisfies)
             [] n = "all" -> v[2] = (\A i \in DOMAIN s : Satisfies(s[i]))
             [] n = "any" -> v[2] = (\E i \in DOMAIN s : Satisfies(s[i]))

\* Programs with p = s.split(x, n), or rsplit or splitlines, and j = x.join(p);
\* rep = s.replace(x, y) and back = y.join(s.split(x)).
(* The pieces of a string joined again give the string, none is lost however  *)
(* the separators lie and how many splits are allowed, and replacing is       *)
(* splitting and joining (str_split, str_rsplit, str_splitlines, str_join,    *)
(* str_replace).                                                              *)
StrRoundTrip ==
    /\ Have({"s", "p", "j"}) => /\ Value("j") = Value("s")
                               /\ \A e \in ExprOf("p") : Len(e[4]) > 1 /\ e[4][2][2] >= 0 => Len(Value("p")[2]) <= e[4][2][2] + 1
    /\ Have({"s", "rep", "back"}) => Value("rep") = Value("back")

\* Programs with i = s.find(x, k) or rfind, and t = s.startswith(x, i).
(* A position that find or rfind gives can be given back: the string has x    *)
(* there, and it is not before the bound that was asked for; with none given, *)
(* x does not occur after the bound (adjust_indices counts bytes throughout). *)
StrPositions ==
    Have({"s", "i"}) /\ (\E j \in 1..Len(Stmts) : Stmts[j][1] = "assign" /\ Stmts[j][3] = <<"t">>) /\ pc > 3 =>
        LET i == Value("i")[2]
            s == Value("s")[2]
            e == CHOOSE e \in ExprOf("i") : TRUE
            x == e[4][1][2]
            k == e[4][2][2]
            from == IF k < 0 THEN (IF k + ByteLen(s) < 0 THEN 0 ELSE k + ByteLen(s)) ELSE k
        IN IF i >= 0 THEN from <= i /\ (Have({"t"}) => Value("t") = VBool(TRUE))
           ELSE ~\E l \in 0..Len(s) - Len(x) : SubSeq(s, l + 1, l + Len(x)) = x /\ ByteLen(SubSeq(s, 1, l)) >= from

\* Programs with u = s.f(x), or u = s.f().g() for a change of case and its test.
StripsTo(f, s, S, u) ==
    \E i, j \in 0..Len(s) :
        /\ i <= j /\ u = SubSeq(s, i + 1, j)
        /\ \A k \in (1..i) \cup (j + 1..Len(s)) : Char(s, k) \in S
        /\ IF f = "rstrip" THEN i = 0 ELSE i < j => Char(s, i + 1) \notin S
        /\ IF f = "lstrip" THEN j = Len(s) ELSE i < j => Char(s, j) \notin S
MostApart(P, n) ==
    MaxOf({Cardinality(S) : S \in {S \in SUBSET P : \A i, j \in S : i < j => i + n <= j}})
TestOf == [upper |-> "isupper", lower |-> "islower", title |-> "istitle"]
(* A string is stripped of the given characters at its ends and of no others, *)
(* loses a prefix or suffix only where it has it, holds as many occurrences   *)
(* as lie apart, and passes the test of the case it was given if it has a     *)
(* letter (str_strip, str_removeprefix, str_count, str_title, str_istitle).   *)
StrEnds ==
    \A e \in ExprOf("u") : m.err = "" /\ e[1] = "method" =>
        LET f == e[3]
            s == Value("s")[2]
            u == Value("u")[2]
            given == e[4] # <<>> /\ e[4][1][1] = "str"
            x == IF given THEN e[4][1][2] ELSE ""
            P == {i \in 0..Len(s) - Len(x) : SubSeq(s, i + 1, i + Len(x)) = x}
        IN CASE f \in {"strip", "lstrip", "rstrip"} -> StripsTo(f, s, IF given THEN Names(Chars(x)) ELSE Blanks, u)
             [] f = "removeprefix" -> IF 0 \in P THEN x \o u = s ELSE u = s
             [] f = "removesuffix" -> IF Len(s) - Len(x) \in P THEN u \o x = s ELSE u = s
             [] f = "count" /\ x # "" -> u = MostApart(P, Len(x))
             [] e[2][1] = "method" /\ f = TestOf[e[2][3]] -> u = \E i \in 1..Len(s) : Char(s, i) \in Lowers \cup Uppers
             [] OTHER -> TRUE

(* What is taken out of a list or a string is what its reference definition   *)
(* says: slices in both directions, quantifiers and comprehensions, splits,   *)
(* replacements, positions and ends, with bounds that are negative, missing   *)
(* or beyond the end.                                                         *)
PartsExact == SliceExact /\ QuantExact /\ StrRoundTrip /\ StrPositions /\ StrEnds

(* A statement changes the value of no variable that shares nothing with its *)
(* target: operators work on copies and comprehensions leave no trace.       *)
OnlyTargets ==
    [][Running => \A n \in DOMAIN m.sc[1].v :
         LET ts == Names(StoresOf(<<Stmts[pc]>>)) \cup (IF Stmts[pc][1] = "set" THEN {Stmts[pc][3]} ELSE {})
             shared == \E t \in ts : Known(m, t) /\ Reach(m.h, AddrOf(m, n)) \cap Reach(m.h, AddrOf(m, t)) # {}
         IN m'.err = "" /\ n \notin ts /\ ~shared => DeepValue(m', n) = DeepValue(m, n)]_vars

-----------------------------------------------------------------------------
(* Instances: `n = S(args) {config}` with the values of the config given as   *)
(* literals, against a definition that knows no order of evaluation.          *)

\* The statements that a schema's instance is made by: base, own, mixins.
RECURSIVE BodyOf(_)
BodyOf(s) ==
    LET d == m.p.schemas[s]
        M[i \in 0..Len(d.mixins)] == IF i = 0 THEN <<>> ELSE M[i - 1] \o BodyOf(d.mixins[i])
    IN (IF d.base = "" THEN <<>> ELSE BodyOf(d.base)) \o d.body \o M[Len(d.mixins)]
RECURSIVE PartsOf(_)
PartsOf(s) ==
    LET d == m.p.schemas[s] IN
    {s} \cup UNION {PartsOf(t) : t \in Names(d.mixins) \cup (IF d.base = "" THEN {} ELSE {d.base})}
GivenBy(e) == [k \in {e[5][2][i][1][2] : i \in DOMAIN e[5][2]} |->
                  e[5][2][CHOOSE i \in DOMAIN e[5][2] : e[5][2][i][1][2] = k][3]]
ArgsOf(e) == LET d == m.p.schemas[e[2]] IN
             [n \in Names(d.args) |-> LET j == CHOOSE j \in DOMAIN d.args : d.args[j] = n IN
                                      IF j <= Len(e[3]) THEN e[3][j] ELSE d.defaults[j]]
Env(e) == [body |-> BodyOf(e[2]), given |-> GivenBy(e), args |-> ArgsOf(e)]
StoresTo(env, k) == SelectSeq(env.body, LAMBDA st : k \in Names(StoresOf(<<st>>)))
AttrsOf(env) == Names(StoresOf(env.body))

\* The value of attribute k after the first n statements that store to it: what
\* the config says, or the n-th one's.  An attribute that a statement reads has
\* its final value, but for k itself, which has the value from before.
RECURSIVE AttrValue(_, _, _), ExprValue(_, _, _, _), StmtValue(_, _, _, _)
ExprValue(env, e, k, n) ==
    CASE e[1] = "name" -> IF e[2] = k THEN AttrValue(env, k, n - 1)
                          ELSE IF e[2] \in DOMAIN env.args THEN env.args[e[2]]
                          ELSE AttrValue(env, e[2], Len(StoresTo(env, e[2])))
      [] e[1] = "bin" -> LET x == ExprValue(env, e[3], k, n)
                             y == ExprValue(env, e[4], k, n)
                         IN IF x[1] # "int" \/ y[1] # "int" THEN Bad("operand")
                            ELSE IF e[2] = "+" THEN VInt(x[2] + y[2]) ELSE VBool(x[2] > y[2])
      [] OTHER -> e
StmtValue(env, st, k, n) ==
    CASE k \notin Names(StoresOf(<<st>>)) -> AttrValue(env, k, n - 1)
      [] st[1] = "assign" -> ExprValue(env, st[4], k, n)
      [] st[1] = "aug"    -> ExprValue(env, <<"bin", st[4], <<"name", k>>, st[5]>>, k, n)
      [] st[1] = "attr"   -> IF st[6] = <<>> THEN AttrValue(env, k, n - 1) ELSE ExprValue(env, st[6], k, n)
      [] st[1] = "if" ->
           LET c == ExprValue(env, st[3], k, n)
               b == IF c = VBool(TRUE) THEN st[4] ELSE st[5]
           IN CASE c[1] = "panic" -> c
                [] b = <<>> -> AttrValue(env, k, n - 1)
                [] OTHER -> StmtValue(env, b[Len(b)], k, n)
AttrValue(env, k, n) ==
    CASE n = 0 -> Undefined
      [] k \in DOMAIN env.given -> env.given[k]
      [] OTHER -> StmtValue(env, StoresTo(env, k)[n], k, n)
Final(env, k) == AttrValue(env, k, Len(StoresTo(env, k)))
Required(env) == {st[3] : st \in {st \in Names(env.body) : st[1] = "attr" /\ ~st[7]}}

\* The instance of int attributes that the last statement made, if it did.
Made == {i \in 1..Len(Stmts) :
            /\ i = pc - 1 /\ Stmts[i][1] = "assign" /\ Stmts[i][4][1] = "schema"
            /\ Stmts[i][4][2] \in DOMAIN m.p.schemas
            /\ \A x \in Names(Stmts[i][4][5][2]) : x[3][1] = "int"
            /\ \A st \in Names(BodyOf(Stmts[i][4][2])) : st[1] = "attr" => st[4] = <<"int">>}
InstanceOf(i) == m.h[AddrOf(m, Stmts[i][3][1])]

(* An attribute of an instance has the value that its last statement gives it *)
(* from the final values of the others, wherever the statements stand in the  *)
(* base, the body and the mixins, and the config's value where it has one     *)
(* (schema_get_value and backtrack_cache).                                    *)
AttrFixpoint ==
    \A i \in Made : m.err = "" =>
        LET env == Env(Stmts[i][4])
            D == InstanceOf(i)[2]
        IN \A k \in AttrsOf(env) : m.h[D.v[k]] = Final(env, k)

(* An instance is made exactly when no value is missing, each check of the    *)
(* schema, its base and its mixins holds for the final values, and each key   *)
(* of the config is an attribute or taken by the schema's own index signature *)
(* (schema_check_attr_optional, the check functions and schema_value_check).  *)
(* The checks of a schema that names the key of its index signature are made  *)
(* only where the config has such a key (do_check_with_index_sign_attr).      *)
InstanceAccepted ==
    \A i \in Made :
        LET e == Stmts[i][4]
            env == Env(e)
            ix == m.p.schemas[e[2]].index
            checked == (ix # <<>> /\ ix.key # "") => ~(DOMAIN env.given \subseteq AttrsOf(env))
            True(x) == ExprValue(env, x, "", 0) = VBool(TRUE)
            Holds(c) == (c[2] = <<>> \/ True(c[2])) => True(c[1])
        IN (m.err = "") <=>
              /\ \A k \in AttrsOf(env) : Final(env, k)[1] # "panic"
              /\ \A k \in Required(env) : Final(env, k) # Undefined
              /\ checked => \A s \in PartsOf(e[2]) : \A c \in Names(m.p.schemas[s].checks) : Holds(c)
              /\ ix = <<>> => DOMAIN env.given \subseteq AttrsOf(env)

(* An instance is what its definitions say, whatever their order: made when   *)
(* it should be, with the final value of every attribute.                     *)
InstanceExact == InstanceAccepted /\ AttrFixpoint

\* Instances with the value of the config under the name w.
PlainTree(t) == IF t[1] = "schema" THEN [k \in DOMAIN t[2] \ {SETTINGS} |-> t[2][k]] ELSE t[2]
\* Programs that make w = S {both configs}, then v from a first config and the
\* second by `|`, by a unification statement or by setting an attribute; or w
\* with nested configs and v with key paths.
(* An instance united with a further config, or with an attribute set, is the *)
(* instance made of both configs at once: what depends on the new values is   *)
(* computed anew (resolve_schema, do_union and kclvm_dict_set_value); and a   *)
(* key path is the nested configs it stands for, wherever the config is       *)
(* written (fix_config_expr_nest_attr).                                       *)
UnionIsConstruction ==
    \A n \in {"v", "_v"} : Have({"w"}) /\ Known(m, n) /\ pc = Len(Stmts) + 1 =>
        PlainTree(DeepValue(m, n)) = PlainTree(DeepValue(m, "w"))

\* What each value at an address a becomes.  A STANDALONE instance is a document
\* of its own and an IGNOREd one is shown nowhere: both are apart from what holds
\* them.  What is apart inside a value is split off from it.
Setting(a) ==
    LET c == m.h[a] IN
    IF IsConfig(c) /\ SETTINGS \in DOMAIN c[2].v THEN m.h[m.h[c[2].v[SETTINGS]][2].v["output_type"]][2] ELSE "INLINE"
Apart(a) == Setting(a) \in {"STANDALONE", "IGNORE"}
Present(a) == m.h[a][1] \notin {"undefined", "func"}
PublicKeys(v, ks) == SelectSeq(ks, LAMBDA k : ~IsPrivate(k) /\ Present(v[k]))
Elements(a) == SelectSeq(m.h[a][2], Present)
ForAll(q, F(_)) == Seqs!FlattenSeq([i \in DOMAIN q |-> F(q[i])])
NotEmpty(q) == SelectSeq(q, LAMBDA t : ~PlannedEmpty(t))
RECURSIVE OwnTree(_), SplitOff(_)
DocsOf(a) == (IF Setting(a) = "STANDALONE" THEN <<OwnTree(a)>> ELSE <<>>) \o SplitOff(a)
\* A list is left out where all its elements are apart; and also, with the
\* elements that should stay in it, where as many documents are split off from
\* those that are apart as it has elements (schema_in_list_count counts the
\* documents).
LeftOut(a) ==
    LET es == Elements(a)
        Counted(x) == IF ~Apart(x) THEN <<>> ELSE IF DocsOf(x) = <<>> THEN <<"ignored">> ELSE DocsOf(x)
    IN m.h[a][1] = "list" /\ Len(ForAll(es, Counted)) >= Len(es)
Shown(a) == ~Apart(a) /\ ~LeftOut(a)
\* The entries of v that stay, and the documents split off from them.
OwnEntries(v, ks) == LET q == SelectSeq(PublicKeys(v, ks), LAMBDA k : Shown(v[k])) IN
                     <<"dict", [i \in DOMAIN q |-> <<q[i], OwnTree(v[q[i]])>>]>>
SplitEntries(v, ks) == NotEmpty(ForAll(PublicKeys(v, ks), LAMBDA k : DocsOf(v[k])))
\* In a list, what is split off from a config that stays is put behind it.
InList(x) == CASE ~Shown(x) -> <<>>
               [] IsConfig(m.h[x]) -> <<OwnTree(x)>> \o SplitOff(x)
               [] OTHER -> <<OwnTree(x)>>
OwnTree(a) ==
    LET c == m.h[a] IN
    CASE IsConfig(c) -> OwnEntries(c[2].v, c[2].k)
      [] c[1] = "list" -> <<"list", ForAll(Elements(a), InList)>>
      [] OTHER -> c
SplitOff(a) ==
    LET c == m.h[a] IN
    CASE IsConfig(c) -> SplitEntries(c[2].v, c[2].k)
      [] c[1] = "list" -> NotEmpty(ForAll(Elements(a), LAMBDA x : IF Apart(x) \/ ~IsConfig(m.h[x]) THEN DocsOf(x) ELSE <<>>))
      [] OTHER -> <<>>
SameBag(p, q) == Len(p) = Len(q) /\ \A x \in Names(p) : Cardinality({i \in DOMAIN p : p[i] = x}) = Cardinality({i \in DOMAIN q : q[i] = x})
(* The documents are the one of the public globals, without what is private,  *)
(* ignored or apart, and one for each standalone instance, wherever it is     *)
(* held, without those inside it; one from within a config of a list stands   *)
(* behind that config instead.  No other is made, none is lost or made twice, *)
(* and no value either but in a list that LeftOut names (filter_results and   *)
(* handle_schema).                                                            *)
PlanConserves ==
    Finished /\ m.scal = <<>> =>
        LET v == [n \in DOMAIN m.sc[1].v |-> AddrOf(m, n)]
            ns == GlobalNames(m)
        IN IF PublicKeys(v, ns) = <<>> THEN docs = <<>>
           ELSE SameBag(docs, <<OwnEntries(v, ns)>> \o SplitEntries(v, ns))

-----------------------------------------------------------------------------
(* What the checker promises of the programs it accepts.                     *)

\* A type that says something of its values: any stands for all of them, and
\* bool for the numbers that the checker takes it for.
RECURSIVE Sound(_)
Sound(T) ==
    CASE T[1] \in {"any", "bool"} -> FALSE
      [] T[1] = "list" -> Sound(T[2])
      [] T[1] = "dict" -> Sound(T[2]) /\ Sound(T[3])
      [] T[1] = "union" -> \A i \in DOMAIN T[2] : Sound(T[2][i])
      [] OTHER -> TRUE
Before(i) == UNION {Names(StoresOf(<<Stmts[j]>>)) : j \in 1..i - 1}
SoundBefore(i) == \A n \in Before(i) : Sound(sem.types[n])
TypeErrors == {"operand", "attribute", "no attribute", "iterable", "not iterable", "compare", "subscript", "slice", "type",
               "not a dict", "set", "only list", "unpack", "str object"}
\* A list or string indexed by a string, the arguments of member functions, the
\* attributes of unions and the config that is united with an instance: the
\* checker does not look at them.
Unseen(e) ==
    \/ e[1] = "sub" /\ e[3][1] = "str"
    \/ e[1] = "method" /\ e[4] # <<>>
    \/ e[1] \in {"attr", "method"} /\ e[2][1] = "name" /\ sem.types[e[2][2]][1] = "union"
    \/ e[1] = "bin" /\ e[2] = "|" /\ e[4][1] = "config"
\* An instance without a value for a required attribute, which others may read.
Lacks(e) ==
    e[1] = "schema" /\ e[2] \in DOMAIN m.p.schemas
    /\ \E k \in Required(Env(e)) \ DOMAIN GivenBy(e) : \A st \in Names(StoresTo(Env(e), k)) : st[1] = "attr" /\ st[6] = <<>>
(* A statement of an accepted program does not fail for the type of a value,  *)
(* where the variables before it have types that say something: what the      *)
(* resolver lets pass, the runtime's operators, loops, attributes and         *)
(* conversions take (binary, must_assignable_to, do_loop_type_check, ...).    *)
AcceptedRuns ==
    \A i \in Done : i = pc - 1 /\ m.err \in TypeErrors /\ SoundBefore(i) =>
        Stmts[i][1] = "assign" /\ (Unseen(Stmts[i][4]) \/ Lacks(Stmts[i][4]))

\* Values whose kind the checker mistakes: `/` gives a float, and so does `%` of
\* floats; `and` gives one of its operands and no bool.
Mistaken(st) ==
    LET op == IF st[1] = "aug" THEN st[4] ELSE IF st[4][1] = "bin" THEN st[4][2] ELSE st[4][1] IN op \in {"/", "%", "and"}
\* A list that `+=` in a config has extended by elements of another type.
Extended(T) ==
    T[1] = "dict" /\ T[2][1] = "union" /\ Cardinality({i \in DOMAIN T[2][2] : T[2][2][i][1] = "list"}) > 1
(* The value of a variable is one of its static type: of the type inferred    *)
(* for it, the annotation, or the least type above all that flows into it     *)
(* (infer_to_variable_type, sup and the types of expressions).                *)
TypesCover ==
    \A i \in Done : i = pc - 1 /\ m.err = "" /\ SoundBefore(i) /\ Stmts[i][1] \in {"assign", "aug"} /\ ~Mistaken(Stmts[i]) =>
        \A n \in Names(StoresOf(<<Stmts[i]>>)) : ~Extended(sem.types[n]) => check_type(m.h, AddrOf(m, n), sem.types[n])
=============================================================================
