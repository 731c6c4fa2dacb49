------------------------------ MODULE Codegen ------------------------------
(* What the code that the LLVM generator emits for a program does when it    *)
(* runs (compiler/src/codegen/llvm), with the runtime functions it calls     *)
(* (runtime/src/value/api.rs, val_schema.rs, val_type.rs, iter.rs).          *)
(* An operator takes a machine state m (see Values) and returns the next:    *)
(*   m.p    the program [schemas, stmts]                                     *)
(*   m.b    ValueRef boxes: box -> address; a variable names a box, so that  *)
(*          two variables may share one; m.bx the box of the result, 0 if it *)
(*          is in none                                                       *)
(*   m.sc   scopes [v: name -> box, a: arguments]; the first is global       *)
(*   m.lv, m.tv   local_vars and the last of target_vars                     *)
(*   m.fr   the schema code being run: [self, config, c, rt, args, kwargs]   *)
(*   m.sx   the depth of schema expressions; m.line the line of panic_info   *)
(*   m.scal, m.si   the values of expression statements, schema_scalar_idx   *)
(* A heap cell <<"closure", [cal, lev, opt, cache]>> holds what the functions*)
(* of one construction share.  Expressions and statements are tagged tuples. *)
EXTENDS Strings

NoFrame   == <<>>
InSchema(m) == m.fr # NoFrame
NoScope   == [v |-> <<>>, a |-> {}]
Zero      == 1                        \* kclvm_value_Int_0_obj, its box too
FloatZero == 2                        \* kclvm_value_Float_0_obj

\* F after m, unless m panicked.
Then(m, F(_)) == IF m.err # "" THEN m ELSE F(m)

RECURSIVE Run(_, _)
Eval(e, m) == Run(<<"expr", e>>, m)

-----------------------------------------------------------------------------
(* Scopes and boxes.                                                         *)

Box(m) == IF m.bx # 0 THEN m ELSE [m EXCEPT !.b = Append(@, m.r), !.bx = Len(m.b) + 1]
FromBox(m, x) == [m EXCEPT !.r = m.b[x], !.bx = x]
Plain(m) == [m EXCEPT !.bx = 0]
enter_scope(m) == [m EXCEPT !.sc = Append(@, NoScope)]
leave_scope(m) == [m EXCEPT !.sc = SubSeq(@, 1, Len(@) - 1)]
Bind(m, i, n) == LET t == Box(m) IN [t EXCEPT !.sc[i].v = (n :> t.bx) @@ @]
add_variable(m, n) == IF n \in DOMAIN m.sc[Len(m.sc)].v THEN m ELSE Bind(m, Len(m.sc), n)
ScopesWith(m, n) == {i \in DOMAIN m.sc : n \in DOMAIN m.sc[i].v}
Innermost(S) == CHOOSE i \in S : \A j \in S : j <= i

\* Each enclosing scope that has the name is given the new value; arguments
\* and loop variables are left alone.
add_or_update_local_variable(m, n) ==
    LET S == IF n \in m.lv THEN {} ELSE {i \in ScopesWith(m, n) : i > 1 /\ n \notin m.sc[i].a}
        t == Box(m)
    IN IF S = {} THEN [t EXCEPT !.sc[Len(m.sc)].v = (n :> t.bx) @@ @]
       ELSE [t EXCEPT !.sc = [i \in DOMAIN @ |-> IF i \in S THEN [@[i] EXCEPT !.v[n] = t.bx] ELSE @[i]]]

\* get_variable: schema code is compiled before the names that only a
\* unification introduces.
get_variable(m, n) ==
    LET S == {i \in ScopesWith(m, n) : i > 1 \/ ~InSchema(m) \/ n \in m.p.pre} IN
    CASE S # {} -> FromBox(m, m.sc[Innermost(S)].v[n])
      [] n \in DOMAIN m.p.schemas -> Plain(New(m, <<"func", n>>))
      [] OTHER -> Plain(New(m, Undefined))

-----------------------------------------------------------------------------
(* Union (val_union.rs), and the config operations built on it.  u is the    *)
(* UnionOptions [idem, resolve] in use, whose list_override is never set.    *)
(* The result is in m.r, the address that replaces the left operand in its   *)
(* slot.  A conflict is a panic as soon as it is found: the code goes on,    *)
(* but only to report it.                                                    *)

\* An operator that is taken from the left config.
UnionKeyLeft(m, a, D, k, u) ==
    IF ~Has(m, a, k) THEN dict_update_key_value(m, a, k, D.v[k])
    ELSE IF Get(m.h[a][2].op, k, "union") = "override" THEN OverrideEntry(m, a, k, D.v[k], Get(D.ix, k, -1))
    ELSE LET t == Run(<<"union", m.h[a][2].v[k], D.v[k], FALSE, u>>, m) IN dict_update_key_value(t, a, k, t.r)
\* union_fn for one key of the right config D.
UnionKey(m, a, D, k, u) ==
    LET v  == D.v[k]
        op == Get(D.op, k, "union")
        ix == Get(D.ix, k, -1)
    IN CASE ~Has(m, a, k) -> dict_update_key_value(m, a, k, v)
         [] op = "override" -> OverrideEntry(m, a, k, v, ix)
         [] op = "insert" -> InsertEntry(m, a, k, v, ix)
         [] u.idem /\ ~Subsume(m.h, v, m.h[a][2].v[k]) -> Fail(m, "conflict")
         [] OTHER -> LET t == Run(<<"union", m.h[a][2].v[k], v, FALSE, u>>, m) IN
                     dict_update_key_value(t, a, k, t.r)

\* Two lists are united element by element.
UnionLists(m, a, x, u) ==
    LET n == Len(m.h[a][2])
        q == m.h[x][2]
        Elem(p, i) ==
            IF i > n THEN AppendTo(p, a, <<q[i]>>)
            ELSE LET t == Run(<<"union", p.h[a][2][i], q[i], FALSE, u>>, p) IN [t EXCEPT !.h[a][2][i] = t.r]
    IN Ret(Each([i \in DOMAIN q |-> i], m, Elem), a)

\* Two configs: the right one's operators first, then its keys in order; where
\* a schema takes part the result is a schema, made anew from the keys that a
\* configuration gave.
UnitedSchema(t, a, c, d, u) ==
    LET keys == CASE c[1] = "dict"  -> d[4] \o Keys(t, a)
                  [] d[1] = "dict"  -> c[4] \o d[2].k
                  [] OTHER          -> c[4] \o d[4]
        w == IF c[1] = "schema" THEN Ret(t, a) ELSE New(t, <<"schema", t.h[a][2], d[3], keys, <<>>>>)
    IN CASE t.err # "" -> t
         [] c[1] = "dict" /\ d[1] = "dict" -> Ret(t, a)
         [] u.resolve -> Run(<<"resolve", w.r, keys>>, w)
         [] OTHER -> w
UnionConfigs(m, a, x, u) ==
    LET D == m.h[x][2]
        n == [m EXCEPT !.h[a][2].op = D.op @@ @, !.h[a][2].ix = D.ix @@ @]
    IN UnitedSchema(Each(D.k, n, LAMBDA p, k : UnionKey(p, a, D, k, u)), a, m.h[a], m.h[x], u)

\* union: or_mode is the operator `|`, which takes two ints or two containers;
\* elsewhere the right value replaces the left one.
Union(m, a, x, orMode, u) ==
    LET c == m.h[a]
        d == m.h[x]
    IN CASE NoneOrUndefined(c) -> Ret(m, x)
         [] NoneOrUndefined(d) \/ a = x -> Ret(m, a)
         [] c[1] = "list" /\ d[1] = "list" -> UnionLists(m, a, x, u)
         [] IsConfig(c) /\ IsConfig(d) -> UnionConfigs(m, a, x, u)
         [] ListOrConfig(c) /\ ListOrConfig(d) -> Fail(m, "union")
         [] orMode /\ c[1] = "int" /\ d[1] = "int" -> Ret(Write(m, a, VInt(BitOr(c[2], d[2]))), a)
         [] orMode -> Fail(m, "operand")
         [] OTHER -> Ret(m, x)

UnionEntry(m, a, x, u) == Run(<<"union", a, x, TRUE, u>>, m)

\* No copy of the left operand.
BitOrInPlace(m, a, x) == UnionEntry(m, a, x, Default)
\* bin_bit_or works on a copy of the left operand, bin_aug_bit_or in place.
bin_bit_or(m, a, x) ==
    IF m.h[a][1] = "int" /\ m.h[x][1] = "int" THEN New(m, VInt(BitOr(m.h[a][2], m.h[x][2])))
    ELSE LET t == DeepCopy(m, a) IN UnionEntry(t, t.r, x, Default)
bin_aug_bit_or(m, a, x) ==
    CASE m.h[a][1] = "int" /\ m.h[x][1] = "int" ->
           IF a = x THEN Fail(m, "borrowed") ELSE Ret(Write(m, a, VInt(BitOr(m.h[a][2], m.h[x][2]))), a)
      [] ListOrConfig(m.h[a]) \/ ListOrConfig(m.h[x]) -> UnionEntry(m, a, x, Default)
      [] OTHER -> Fail(m, "operand")

\* dict_insert (idem) and dict_merge: the union with a config of one entry.
dict_merge_key_value_pair(m, a, k, v, op, ix, idem) ==
    IF m.o.debug /\ m.o.strict /\ m.h[v][1] = "int" /\ ~InI32(m.h[v][2]) THEN Fail(m, "i32 overflow")
    ELSE IF ~IsConfig(m.h[a]) THEN Fail(m, "insert")
    ELSE LET d == New(m, <<"dict", PutEntry(EmptyDict, k, v, op, ix)>>) IN
         UnionEntry(d, a, d.r, [idem |-> idem, resolve |-> FALSE])

\* dict_insert_unpack: `**x` in a config.
dict_insert_unpack(m, a, x) ==
    CASE NoneOrUndefined(m.h[x]) -> Ret(m, a)
      [] IsConfig(m.h[x]) -> LET d == schema_to_dict(m, x)
                                 t == DeepCopy(d, d.r)
                             IN bin_aug_bit_or(t, a, t.r)
      [] OTHER -> Fail(m, "unpack")

-----------------------------------------------------------------------------
(* Types: <<"any">>, <<"int">> ..., <<"lit", cell>>, <<"list", T>>,          *)
(* <<"dict", T>>, <<"schema", name>>, <<"union", sequence of types>>.        *)

RECURSIVE check_type(_, _, _)
check_type(H, a, T) ==
    LET c == H[a] IN
    CASE T[1] = "any" \/ NoneOrUndefined(c) -> TRUE
      [] T[1] = "union"  -> \E i \in DOMAIN T[2] : check_type(H, a, T[2][i])
      [] T[1] = "lit" /\ T[2] = c -> TRUE
      [] c[1] = "dict"   -> T[1] = "dict" /\ \A k \in DOMAIN c[2].v : check_type(H, c[2].v[k], T[2])
      [] c[1] = "list"   -> T[1] = "list" /\ \A i \in DOMAIN c[2] : check_type(H, c[2][i], T[2])
      [] c[1] = "schema" -> T[1] = "schema"
      [] OTHER -> T[1] = c[1] \/ (T[1] = "float" /\ c[1] = "int")

\* The two calls of a schema's constructor: the first only fills cal_map.
SchemaCall(m, s, args, kwargs, config, cal, sub) ==
    LET a == New(m, <<"dict", EmptyDict>>)
        c == New(a, <<"closure", [cal |-> cal, lev |-> <<>>, opt |-> <<>>, cache |-> <<>>]>>)
    IN Run(<<"construct", s, args, kwargs, config, a.r, c.r, sub>>, c)
SchemaCalls(m, s, args, kwargs, config) ==
    LET cp == DeepCopy(New(m, VList(args)), Len(m.h) + 1)
        Second(t, c) == Run(<<"call", s, cp.h[cp.r][2], kwargs, config, t.h[c][2].cal, TRUE>>, t)
        \* The closure of the first call is the second cell that it makes.
        done == Second(Run(<<"call", s, args, kwargs, config, <<>>, FALSE>>, cp), Len(cp.h) + 2)
    IN Plain([done EXCEPT !.line = m.line])

\* convert_collection_value: dicts and lists that stand for schemas are built
\* into them, except under a union type.
Convert(m, a, T) ==
    LET c == m.h[a]
        n == New(m, IF T[1] = "list" THEN VList(<<>>) ELSE <<"dict", EmptyDict>>)
        Elem(p, x) == LET t == Run(<<"convert", x, T[2]>>, p) IN AppendTo(t, n.r, <<t.r>>)
        Entry(p, k) == LET t == Run(<<"convert", c[2].v[k], T[2]>>, p) IN
                       dict_update_entry(t, n.r, k, t.r, Get(c[2].op, k, "union"), Get(c[2].ix, k, -1))
    IN CASE T[1] = "dict" /\ c[1] = "dict" -> Ret(Each(c[2].k, n, Entry), n.r)
         [] T[1] = "list" /\ c[1] = "list" -> Ret(Each(c[2], n, Elem), n.r)
         [] T[1] = "schema" /\ c[1] = "list" -> Fail(m, "not a dict")
         [] T[1] = "schema" /\ c[1] = "dict" -> Run(<<"calls", T[2], <<>>, <<>>, a>>, m)
         [] OTHER -> Ret(m, a)
type_pack_and_check(m, a, T) ==
    IF NoneOrUndefined(m.h[a]) THEN Ret(m, a)
    ELSE LET t == IF m.h[a][1] = "schema" THEN Ret(m, a) ELSE Run(<<"convert", a, T>>, m) IN
         IF t.err = "" /\ ~check_type(t.h, t.r, T) THEN Fail(t, "type") ELSE t

\* The entry of an attribute with a declared type is packed into that type.
PackAttr(m, a, k) ==
    LET ty == m.h[a][2].ty IN
    IF m.err # "" \/ k \notin DOMAIN ty \/ ~Has(m, a, k) THEN m
    ELSE LET t == type_pack_and_check(m, m.h[a][2].v[k], ty[k]) IN dict_update_key_value(t, a, k, t.r)
dict_merge(m, a, k, v, op) ==
    PackAttr(dict_merge_key_value_pair(m, a, k, v, op, -1, FALSE), a, k)
\* kclvm_value_union with the entry that the config has for k, if it has one.
value_union(m, a, config, k) ==
    IF ~Has(m, config, k) THEN m
    ELSE LET e == dict_get_entries(m, config, <<k>>) IN
         PackAttr(UnionEntry(e, a, e.r, [idem |-> FALSE, resolve |-> TRUE]), a, k)

\* schema_check_attr_optional, for the schemas among the attributes too.
RECURSIVE MissesAttr(_, _)
MissesAttr(H, a) ==
    LET D == H[a][2] IN
    /\ IsConfig(H[a])
    /\ \/ /\ H[a][1] = "schema"
          /\ \E k \in DOMAIN H[a][5] : ~H[a][5][k] /\ (k \in DOMAIN D.v => NoneOrUndefined(H[D.v[k]]))
       \/ \E k \in DOMAIN D.v : H[D.v[k]][1] = "schema" /\ MissesAttr(H, D.v[k])
check_attr_optional(m) == IF m.err = "" /\ MissesAttr(m.h, m.r) THEN Fail(m, "required") ELSE m

-----------------------------------------------------------------------------
(* Names in schema code.                                                     *)

Closure(m) == m.h[m.fr.c][2]
SelfValue(m, k) ==
    Plain(IF Has(m, m.fr.self, k) THEN Ret(m, m.h[m.fr.self][2].v[k]) ELSE New(m, Undefined))
CacheSelf(m, k) ==
    IF Has(m, m.fr.self, k) THEN [m EXCEPT !.h[m.fr.c][2].cache = (k :> m.h[m.fr.self][2].v[k]) @@ @] ELSE m
SetLevel(m, k, n) == [m EXCEPT !.h[m.fr.c][2].lev = (k :> n) @@ @]

\* A value that is taken as final when the attribute's first statement has run.
CacheEarly(m, k) == IF m.err = "" THEN CacheSelf(m, k) ELSE m
\* kclvm_schema_backtrack_cache: the value is final once the last statement
\* that gives the attribute one has run.
backtrack_cache(m, k) ==
    LET cal == Closure(m).cal IN
    IF m.err = "" /\ k \in DOMAIN cal
       /\ \/ Len(cal[k].fn) = 1
          \/ /\ m.fr.rt = cal[k].rt[Len(cal[k].rt)]
             /\ m.line >= cal[k].ln[Len(cal[k].ln)]
    THEN CacheSelf(m, k) ELSE m

\* kclvm_schema_get_value: an attribute that has not got its final value yet is
\* computed by its last statement, and that one's uses of it by the one before.
schema_get_value(m, k) ==
    LET C     == Closure(m)
        level == Get(C.lev, k, 0)
        fns   == C.cal[k].fn
        n     == Len(fns) - level
        up    == SetLevel(m, k, level + 1)
        t     == Run(<<"attrfn", fns[n]>>, up)
        back  == [SetLevel(t, k, level) EXCEPT !.line = m.line]
    IN CASE k = m.tv /\ level = 0 -> SelfValue(m, k)
         [] k \in DOMAIN C.cache  -> Plain(Ret(m, C.cache[k]))
         [] k \notin DOMAIN C.cal -> SelfValue(m, k)
         [] n < 1 -> SelfValue(up, k)
         [] t.err # "" -> t
         [] OTHER -> SelfValue(CacheSelf(IF Has(back, back.fr.self, k) THEN back ELSE SelfValue(back, k), k), k)
get_variable_in_schema(m, k) ==
    IF k \in DOMAIN Closure(m).cal \/ Has(m, m.fr.self, k) THEN schema_get_value(m, k) ELSE get_variable(m, k)

Load(m, n) == IF InSchema(m) /\ n \notin m.lv THEN get_variable_in_schema(m, n) ELSE get_variable(m, n)
\* Storing to an attribute: the statement's value, then what the config says.
Store(m, n) ==
    IF ~InSchema(m) THEN Bind(m, Len(m.sc), n)
    ELSE LET t == dict_merge(m, m.fr.self, n, m.r, "override") IN
         backtrack_cache(IF t.err # "" THEN t ELSE value_union(t, m.fr.self, m.fr.config, n), n)

-----------------------------------------------------------------------------
(* Expressions.                                                              *)

\* The values of several expressions, as addresses in m.r.
EvalAll(es, m) ==
    Each(es, [m EXCEPT !.r = <<>>], LAMBDA p, e :
         LET t == Eval(e, p) IN [t EXCEPT !.r = IF t.err # "" THEN Zero ELSE Append(p.r, t.r)])

\* A comparison of a variable with itself does not look at the value.
CompareBoxes(m, op, a, abox, b, bbox) ==
    IF abox # 0 /\ abox = bbox /\ op \notin {"in", "not in"}
    THEN VBool(op \in {"==", "<=", ">="}) ELSE Compare(m.h, op, a, b)
BinaryOp(m, op, x) ==
    CASE op = "|" -> bin_bit_or(m, x.r, m.r)
      [] op \in IntOps -> New(m, Bin(op, m.h[x.r], m.h[m.r], m.o))
      [] OTHER -> Run(<<"compare", op, x.r, x.bx>>, m)
walk_unary_expr(m, op, e) == Then(Eval(e, m), LAMBDA t : New(t, Unary(op, t.h[t.r])))
walk_binary_expr(m, op, a, b) ==
    LET x == Eval(a, m)
        y == Eval(b, x)
    IN IF y.err # "" THEN y ELSE BinaryOp(y, op, x)
\* a < b < c: each comparison with the operand before, up to the first false.
walk_compare(m, left, ops, rights) ==
    LET F[i \in 1..Len(ops)] ==
            \* <<the right operand, the result>>
            LET was == IF i = 1 THEN <<Eval(left, m), m>> ELSE F[i - 1] IN
            IF was[1].err # "" THEN <<was[1], was[1]>>
            ELSE IF was[2].err # "" \/ (i > 1 /\ ~IsTruthy(was[2].h[was[2].r])) THEN was
            ELSE LET y == Eval(rights[i], [was[2] EXCEPT !.r = was[1].r, !.bx = was[1].bx]) IN
                 <<y, Run(<<"compare", ops[i], was[1].r, was[1].bx>>, y)>>
    IN F[Len(ops)][2]
walk_logic(m, isAnd, a, b) ==
    Then(Eval(a, m), LAMBDA x : IF IsTruthy(x.h[x.r]) = isAnd THEN Eval(b, x) ELSE x)
walk_if_expr(m, body, cond, orelse) ==
    Then(Eval(cond, m), LAMBDA x : Eval(IF IsTruthy(x.h[x.r]) THEN body ELSE orelse, x))

\* kclvm_value_load_attr; with `?.` a falsy value gives None.
load_attr(m, k) ==
    LET c == m.h[m.r] IN
    CASE IsConfig(c) /\ k \in DOMAIN c[2].v -> Ret(m, c[2].v[k])
      [] c[1] = "schema" -> Fail(m, "attribute")
      [] c[1] = "dict"   -> New(m, Undefined)
      [] OTHER -> Fail(m, "attribute")
Optional(m, question, F(_)) ==
    IF question /\ ~IsTruthy(m.h[m.r]) THEN New(m, None) ELSE F(m)
walk_selector_expr(m, e, k, question) ==
    Then(Eval(e, m), LAMBDA x : Optional(x, question, LAMBDA y : load_attr(y, k)))
walk_subscript(m, e, i, question) ==
    LET x == Eval(e, m)
        y == Eval(i, x)
    IN IF y.err # "" THEN y
       ELSE Optional(Ret(y, x.r), question, LAMBDA z : New(z, Subscript(z.h, x.r, y.r)))
walk_slice(m, e, bounds, question) ==
    LET x == Eval(e, m)
        y == EvalAll(bounds, x)
    IN IF y.err # "" THEN y
       ELSE Optional(Ret(y, x.r), question, LAMBDA z :
                New(z, Slice(z.h, x.r, z.h[y.r[1]], z.h[y.r[2]], z.h[y.r[3]])))

\* `*x` and `if` items are unpacked into the list around them.
walk_list_expr(m, items) ==
    LET n == New(m, VList(<<>>))
        Item(p, e) == LET t == Eval(e, p) IN
                      IF t.err # "" THEN t
                      ELSE IF e[1] \in {"star", "listif"} THEN list_append_unpack(t, n.r, t.r)
                      ELSE AppendTo(t, n.r, <<t.r>>)
    IN Ret(Each(items, n, Item), n.r)
walk_list_if_item_expr(m, cond, items, orelse) ==
    Then(Eval(cond, m), LAMBDA x : Eval(IF IsTruthy(x.h[x.r]) THEN <<"list", items>> ELSE orelse, x))

\* dict_insert_with_key_value: the keys of a literal must agree (idem).
InsertKey(m, a, k, v, op, ix) == dict_merge_key_value_pair(m, a, k, v, op, ix, TRUE)
walk_config_entries(m, entries) ==
    LET n == enter_scope(New(m, <<"dict", EmptyDict>>))
        Named(p, e) == InsertKey(add_or_update_local_variable(p, e[1][2]), n.r, e[1][2], p.r, e[2], e[1][3])
        Keyed(p, e) == Then(Eval(e[1][2], p), LAMBDA k : InsertKey(k, n.r, AsStr(k.h[k.r]), p.r, e[2], -1))
        Entry(p, e) == LET t == Eval(e[3], p) IN
                       CASE t.err # "" -> t
                         [] e[1][1] = "id"   -> Named(t, e)
                         [] e[1][1] = "expr" -> Keyed(t, e)
                         [] e[1][1] = "unpack" -> dict_insert_unpack(t, n.r, t.r)
    IN leave_scope(Ret(Each(entries, n, Entry), n.r))
walk_config_if_entry_expr(m, cond, entries, orelse) ==
    Then(Eval(cond, m), LAMBDA x : Eval(IF IsTruthy(x.h[x.r]) THEN <<"config", entries>> ELSE orelse, x))

\* The iterator over a value: <<key, value, next>> cells or addresses, as new
\* cells; next is the element, and the key of a config.
\* A string is stepped through by its length in bytes, and read by characters.
Steps(m, a) ==
    LET c == m.h[a]
        n == IF c[1] = "str" THEN ByteLen(c[2]) ELSE IF c[1] = "list" THEN Len(c[2]) ELSE Len(c[2].k)
        At(p, i) ==
            LET k == New(p, IF IsConfig(c) THEN VStr(c[2].k[i]) ELSE VInt(i - 1))
                v == CASE c[1] = "str" -> IF i > Len(c[2]) THEN Fail(k, "unwrap") ELSE New(k, VStr(Char(c[2], i)))
                       [] c[1] = "list" -> Ret(k, c[2][i])
                       [] OTHER -> Ret(k, c[2].v[c[2].k[i]])
            IN [v EXCEPT !.r = Append(p.r, <<k.r, v.r, IF IsConfig(c) THEN k.r ELSE v.r>>)]
    IN IF c[1] \in {"str", "list", "dict", "schema"}
       THEN Each([i \in 1..n |-> i], [m EXCEPT !.r = <<>>], At)
       ELSE Fail(m, "not iterable")
\* The loop variables: a name that an enclosing generator has is not bound anew.
BindTargets(m, targets, owned, step) ==
    LET One(p, x) == IF x[1] \in owned THEN Bind(Plain(Ret(p, x[2])), Len(p.sc), x[1]) ELSE p IN
    Each(IF Len(targets) = 1 THEN <<<<targets[1], step[3]>>>> ELSE <<<<targets[1], step[1]>>, <<targets[2], step[2]>>>>,
         m, One)
Names(q) == {q[i] : i \in DOMAIN q}
Loop(m, a, targets, owned, Body(_, _)) ==
    LET s == Steps(m, a) IN
    IF s.err # "" THEN Ret(s, a)
    ELSE Each(s.r, Ret(s, a), LAMBDA p, x : Body(BindTargets([p EXCEPT !.lv = @ \cup Names(targets)], targets, owned, x), x))

\* gens = sequence of <<targets, iter, condition or <<>>>>; item = <<"elt", e>> or
\* <<"entry", key, value, op>>, to be added to coll.
AddItem(m, item, coll) ==
    LET v == IF item[1] = "elt" THEN m ELSE Eval(item[3], m)
        t == Eval(item[2], v)
    IN CASE t.err # "" -> t
         [] item[1] = "elt" -> AppendTo(t, coll, <<t.r>>)
         [] OTHER -> InsertKey(t, coll, AsStr(t.h[t.r]), v.r, item[4], -1)
If(cond, m, F(_)) ==
    LET t == IF cond = <<>> THEN m ELSE Eval(cond, m) IN
    IF t.err # "" \/ (cond # <<>> /\ ~IsTruthy(t.h[t.r])) THEN t ELSE F(t)
walk_generator(m, gens, i, item, coll) ==
    LET x == Eval(gens[i][2], m)
        targets == gens[i][1]
        owned   == Names(targets) \ DOMAIN x.sc[Len(x.sc)].v
        Inner(p) == IF i = Len(gens) THEN Run(<<"item", item, coll>>, p)
                    ELSE Run(<<"generator", gens, i + 1, item, coll>>, p)
        t == Loop(x, x.r, targets, owned, LAMBDA p, s : If(gens[i][3], p, Inner))
    IN IF x.err # "" THEN x ELSE [t EXCEPT !.lv = @ \ Names(targets)]
walk_comp(m, empty, gens, item) ==
    LET n == New(m, empty) IN
    leave_scope(Ret(walk_generator(enter_scope(n), gens, 1, item, n.r), n.r))

\* One element s of all, any, map or filter, with the result at the address res.
QuantTest(m, op, test, s, res) ==
    LET t == Eval(test, m)
        yes == IsTruthy(t.h[t.r])
    IN CASE t.err # "" -> t
         [] op = "map" -> AppendTo(t, res, <<t.r>>)
         [] op = "filter" -> IF yes THEN t ELSE remove_item(t, res, s[3])
         [] OTHER -> IF yes = (op = "all") THEN t ELSE Write(t, res, VBool(yes))
quant_element(m, op, test, cond, s, res) ==
    IF op \in {"all", "any"} /\ m.h[res] # VBool(op = "all") THEN m
    ELSE If(cond, m, LAMBDA q : QuantTest(q, op, test, s, res))
\* filter takes the elements that fail out of a copy.
walk_quant_expr(m, op, vars, target, test, cond) ==
    LET x    == Eval(target, m)
        host == IF op = "filter" THEN DeepCopy(x, x.r) ELSE x
        Over(p, h) == LET res == p.r IN
            [leave_scope(Ret(Loop(enter_scope(p), h, vars, Names(vars), LAMBDA q, s : Run(<<"quant", op, test, cond, s, res>>, q)),
                             res)) EXCEPT !.lv = {}]
    IN IF x.err # "" THEN x
       ELSE Over(CASE op = "filter" -> DeepCopy(host, host.r)
                   [] op = "map" -> New(host, VList(<<>>))
                   [] OTHER -> New(host, VBool(op = "all")), host.r)

walk_schema_expr(m, s, args, kwargs, config) ==
    LET c  == Eval(config, [m EXCEPT !.sx = @ + 1])
        f  == Run(<<"load", s>>, c)
        as == EvalAll(args \o [i \in DOMAIN kwargs |-> kwargs[i][2]], f)
        xs == SubSeq(as.r, 1, Len(args))
        ks == [n \in {kwargs[i][1] : i \in DOMAIN kwargs} |->
                  as.r[Len(args) + CHOOSE i \in DOMAIN kwargs : kwargs[i][1] = n]]
        cp == DeepCopy(Ret(as, f.r), f.r)
        Checked(v) == IF InSchema(m) \/ m.sx > 0 \/ m.o.nocheck THEN v ELSE check_attr_optional(v)
    IN CASE as.err # "" -> as
         [] as.h[f.r][1] = "func" -> Checked([Run(<<"calls", as.h[f.r][2], xs, ks, c.r>>, as) EXCEPT !.sx = m.sx])
         [] OTHER -> Checked([UnionEntry(cp, cp.r, c.r, Default) EXCEPT !.sx = m.sx])
\* kclvm_value_function_invoke of a schema: an empty config.
function_invoke(m, f, args) ==
    LET d == New(m, <<"dict", EmptyDict>>) IN
    IF m.h[f][1] = "func" THEN Run(<<"calls", m.h[f][2], args, <<>>, d.r>>, d) ELSE New(m, None)
walk_call_expr(m, f, args) ==
    LET x  == Run(<<"load", f>>, m)
        as == EvalAll(args, x)
        Checked(v) == IF as.h[x.r][1] # "func" \/ InSchema(m) \/ m.sx > 0 THEN v ELSE check_attr_optional(v)
    IN IF as.err # "" THEN as ELSE Checked(function_invoke(as, x.r, as.r))

\* A call of a member function of a string; other receivers give what they hold
\* under the name.
walk_method_call(m, e, f, args) ==
    LET x  == Eval(e, m)
        g  == IF x.err # "" \/ x.h[x.r][1] = "str" THEN x ELSE load_attr(x, f)
        as == EvalAll(args, g)
    IN CASE as.err # "" -> as
         [] x.h[x.r][1] # "str" -> function_invoke(as, g.r, as.r)
         [] f = "join" -> str_join(Ret(as, x.r), x.h[x.r][2], as.r)
         [] OTHER -> str_call(Ret(as, x.r), f, x.h[x.r][2], as.r)

walk_literal(m, e) ==
    CASE e[1] = "int" /\ e[2] = 0 -> FromBox(m, Zero)
      [] e[1] = "float" /\ e[2][1] = 0 -> FromBox(m, FloatZero)
      [] OTHER -> Plain(New(m, e))

walk_expr(m, e) ==
    CASE e[1] \in {"int", "float", "str", "bool", "none", "undefined"} -> walk_literal(m, e)
      [] e[1] = "name" -> Run(<<"load", e[2]>>, m)
      [] e[1] = "if"   -> walk_if_expr(m, e[2], e[3], e[4])
      [] e[1] \in {"and", "or"} -> walk_logic(m, e[1] = "and", e[2], e[3])
      [] OTHER -> Plain(
           CASE e[1] = "unary"  -> walk_unary_expr(m, e[2], e[3])
             [] e[1] = "bin"    -> walk_binary_expr(m, e[2], e[3], e[4])
             [] e[1] = "cmp"    -> walk_compare(m, e[2], e[3], e[4])
             [] e[1] = "attr"   -> walk_selector_expr(m, e[2], e[3], e[4])
             [] e[1] = "sub"    -> walk_subscript(m, e[2], e[3], e[4])
             [] e[1] = "slice"  -> walk_slice(m, e[2], e[3], e[4])
             [] e[1] = "list"   -> walk_list_expr(m, e[2])
             [] e[1] = "star"   -> Eval(e[2], m)
             [] e[1] = "listif" -> walk_list_if_item_expr(m, e[2], e[3], e[4])
             [] e[1] = "config" -> walk_config_entries(m, e[2])
             [] e[1] = "cfgif"  -> walk_config_if_entry_expr(m, e[2], e[3], e[4])
             [] e[1] = "listcomp" -> walk_comp(m, VList(<<>>), e[3], <<"elt", e[2]>>)
             [] e[1] = "dictcomp" -> walk_comp(m, <<"dict", EmptyDict>>, e[5], <<"entry", e[2], e[3], e[4]>>)
             [] e[1] = "quant"  -> walk_quant_expr(m, e[2], e[3], e[4], e[5], e[6])
             [] e[1] = "schema" -> walk_schema_expr(m, e[2], e[3], e[4], e[5])
             [] e[1] = "call"   -> walk_call_expr(m, e[2], e[3])
             [] e[1] = "method" -> walk_method_call(m, e[2], e[3], e[4]))

-----------------------------------------------------------------------------
(* Statements, headed by their kind and line.                                *)

Targets(s) ==
    CASE s[1] = "assign" -> s[3]
      [] s[1] \in {"aug", "unify", "attr"} -> <<s[3]>>
      [] OTHER -> <<>>
\* The names stored to, in the order of the text, also under if.
RECURSIVE StoresOf(_)
StoresOf(stmts) ==
    IF stmts = <<>> THEN <<>>
    ELSE LET s == stmts[1] IN
         (IF s[1] = "if" THEN StoresOf(s[4]) \o StoresOf(s[5]) ELSE Targets(s)) \o StoresOf(Tail(stmts))
LastStore(stmts, tv) == LET q == StoresOf(stmts) IN IF q = <<>> THEN tv ELSE q[Len(q)]

Target(m, s) == [m EXCEPT !.tv = Targets(s)[Len(Targets(s))]]
StoreTo(m, n) == Run(<<"store", n>>, m)
LoadFrom(m, n) == Run(<<"load", n>>, m)
\* One target shares the value, several get copies.
walk_assign_stmt(m, s) ==
    LET x == Eval(s[4], [Target(m, s) EXCEPT !.lv = {}])
        Packed(c) == IF c.err # "" \/ c.h[c.r][1] # "schema" \/ InSchema(m) \/ m.sx > 0 THEN c
                     ELSE check_attr_optional(c)
        Assigned(t) == IF Len(s[3]) = 1 THEN StoreTo(t, s[3][1])
                       ELSE Each(s[3], t, LAMBDA p, n : StoreTo(Plain(DeepCopy(p, t.r)), n))
    IN CASE x.err # "" -> x
         [] s[5] = <<"any">> -> Assigned(x)
         [] OTHER -> Then(Packed(Plain([type_pack_and_check(x, x.r, s[5]) EXCEPT !.line = x.line])), Assigned)
\* kclvm_value_op_aug_*: written to the left cell itself, but for `|=`.
op_aug(m, op, a, b) ==
    LET Written(c) == IF c[1] = "panic" THEN Fail(m, c[2]) ELSE Write(m, a, c) IN
    CASE op = "|" -> Plain(bin_bit_or(m, a, b))
      [] a = b    -> Fail(m, "borrowed")
      [] OTHER -> Written(Aug(op, m.h[a], m.h[b], m.o))
walk_aug_assign_stmt(m, s) ==
    LET y == Eval(s[5], Target(m, s))
        x == LoadFrom(y, s[3])
    IN IF x.err # "" THEN x ELSE StoreTo(op_aug(x, s[4], x.r, y.r), s[3])
\* `name: S {...}`: united in place at the top, in a copy in a schema.
walk_unification_stmt(m, s) ==
    LET v == Eval(s[4], [Target(m, s) EXCEPT !.lv = {}])
        x == IF InSchema(m) THEN LoadFrom(v, s[3]) ELSE get_variable(v, s[3])
    IN CASE v.err # "" -> v
         [] InSchema(m) -> IF x.err # "" THEN x ELSE StoreTo(Plain(bin_bit_or(x, x.r, v.r)), s[3])
         [] s[3] \notin DOMAIN v.sc[1].v -> StoreTo(v, s[3])
         [] OTHER -> Then(bin_aug_bit_or(x, x.r, v.r), LAMBDA t : [t EXCEPT !.b[x.bx] = t.r])
\* kclvm_dict_set_value: a schema is made anew with the key.
dict_set_value(m, a, k, v) ==
    LET c == m.h[a]
        t == dict_update_key_value(m, a, k, v)
        n == Run(<<"resolve", a, c[4] \o <<k>>>>, t)
        Copy(p, x) == LET D == p.h[n.r][2] IN
                      dict_update_entry(p, a, x, D.v[x], Get(D.op, x, "union"), Get(D.ix, x, -1))
    IN CASE c[1] = "dict" -> t
         [] c[1] = "schema" -> IF n.err # "" THEN n ELSE Each(Keys(n, n.r), n, Copy)
         [] OTHER -> Fail(m, "set")
\* `a.k = e`.
walk_set_stmt(m, s) ==
    LET v == Eval(s[5], m) IN Then(LoadFrom(v, s[3]), LAMBDA x : dict_set_value(x, x.r, s[4], v.r))
walk_schema_attr(m, s) ==
    LET x == IF s[6] = <<>> THEN New(Target(m, s), Undefined) ELSE Eval(s[6], [Target(m, s) EXCEPT !.lv = {}])
        k == s[3]
        a == m.fr.self
        y == [x EXCEPT !.h[a][2].ty = (k :> s[4]) @@ @]
        o == SelfValue(y, k)
        Configured(t) == IF t.err = "" /\ Has(t, m.fr.config, k)
                         THEN backtrack_cache(value_union(t, a, m.fr.config, k), k) ELSE t
    IN CASE x.err # "" -> x
         [] s[5] = "|=" -> Configured(Then(bin_bit_or(o, o.r, x.r), LAMBDA p : dict_merge(p, a, k, p.r, "override")))
         [] s[5] = "="  -> Configured(dict_merge(y, a, k, x.r, "override"))
         [] OTHER -> Configured(y)
walk_assert_stmt(m, s) ==
    If(s[4], m, LAMBDA p : Then(Eval(s[3], p), LAMBDA t :
        IF IsTruthy(t.h[t.r]) THEN t ELSE Fail(t, "assert")))
walk_stmts(m, stmts) == Each(stmts, m, LAMBDA p, s : Run(<<"stmt", s>>, p))
\* target_vars is the generator's: both branches have been gone through.
walk_if_stmt(m, s) ==
    Then(Eval(s[3], m), LAMBDA t :
        [walk_stmts(t, IF IsTruthy(t.h[t.r]) THEN s[4] ELSE s[5]) EXCEPT !.tv = LastStore(s[4] \o s[5], m.tv)])
\* The value of an expression that is no call is a result of the program.  A
\* schema expression takes the place that si tells, 0 at first, out of them.
add_scalar(m, isSchema) ==
    IF ~isSchema THEN [m EXCEPT !.scal = Append(@, m.r)]
    ELSE LET q == SubSeq(m.scal, 1, m.si) \o SubSeq(m.scal, m.si + 2, Len(m.scal)) IN
         [m EXCEPT !.scal = Append(q, m.r), !.si = Len(q)]
walk_expr_stmt(m, s) ==
    Then(Eval(s[3], m), LAMBDA t :
        IF InSchema(t) \/ s[3][1] = "call" THEN t ELSE add_scalar(t, s[3][1] = "schema"))

walk_stmt(m, s) ==
    LET p == [m EXCEPT !.line = s[2]] IN
    CASE s[1] = "assign" -> walk_assign_stmt(p, s)
      [] s[1] = "aug"    -> walk_aug_assign_stmt(p, s)
      [] s[1] = "unify"  -> walk_unification_stmt(p, s)
      [] s[1] = "set"    -> walk_set_stmt(p, s)
      [] s[1] = "attr"   -> walk_schema_attr(p, s)
      [] s[1] = "assert" -> walk_assert_stmt(p, s)
      [] s[1] = "if"     -> walk_if_stmt(p, s)
      [] s[1] = "expr"   -> walk_expr_stmt(p, s)

-----------------------------------------------------------------------------
(* Schemas.                                                                  *)
\* store_argument_in_current_scope and the values: the default, then the
\* positional, then the keyword argument.
walk_arguments(m, d, args, kwargs) ==
    LET i == Len(m.sc)
        Default1(p, j) ==
            LET t == IF d.defaults[j] = <<>> THEN Plain(New(p, None)) ELSE Eval(d.defaults[j], p) IN
            Then([t EXCEPT !.sc[i].a = @ \cup {d.args[j]}], LAMBDA q : add_variable(q, d.args[j]))
        Given(p, j) ==
            LET n == d.args[j]
                t == IF j <= Len(args) THEN Bind(Plain(Ret(p, args[j])), i, n) ELSE p
            IN IF n \in DOMAIN kwargs THEN Bind(Plain(Ret(t, kwargs[n])), i, n) ELSE t
        js == [j \in DOMAIN d.args |-> j]
    IN Each(js, Each(js, m, Default1), Given)

\* The functions of a schema see the globals and a scope of their own.
Enter(m) == [m EXCEPT !.sc = <<m.sc[1], NoScope>>, !.fr = NoFrame, !.lv = {}, !.sx = 0]
Leave(m, c) == [m EXCEPT !.sc = c.sc, !.fr = c.fr, !.lv = c.lv, !.tv = c.tv, !.sx = c.sx]
Frame(s, self, config, c, args, kwargs) ==
    [self |-> self, config |-> config, c |-> c, rt |-> s, args |-> args, kwargs |-> kwargs]

\* emit_schema_left_identifiers: every name the body stores to is an attribute,
\* Undefined unless the base gave it a value, and each statement that stores to
\* it is one of its functions: <<schema, statement, number of its kind>>.
AppendNew(q, x) == IF x \in Names(q) THEN q ELSE Append(q, x)
AddFunction(m, n, fn, line) ==
    LET C == Get(Closure(m).cal, n, [fn |-> <<>>, rt |-> <<>>, ln |-> <<>>])
        E == [fn |-> AppendNew(C.fn, fn), rt |-> AppendNew(C.rt, m.fr.rt), ln |-> AppendNew(C.ln, line)]
    IN [m EXCEPT !.h[m.fr.c][2].cal = (n :> E) @@ @]
DeclareAttr(m, n) ==
    LET u == New(m, Undefined) IN dict_merge(u, m.fr.self, n, u.r, "union")
emit_schema_left_identifiers(m, s, body) ==
    LET Stores(p, i) ==
            LET st == body[i]
                Add(q, x) == AddFunction(DeclareAttr(q, x[1]), x[1], <<s, i, x[1], x[2]>>, st[2])
                ns == StoresOf(<<st>>)
                Count(j) == Cardinality({l \in 1..j : ns[l] = ns[j]})
            IN Each([j \in DOMAIN ns |-> <<ns[j], Count(j)>>], p, Add)
    IN Each([i \in DOMAIN body |-> i], m, Stores)

\* An if statement as one of an attribute's functions ends after the level-th
\* place that stores to it; the level counts on over neighbouring ifs.
Level(body, i, n, j) ==
    LET Stmts == {l \in 1..i - 1 : n \in Names(StoresOf(<<body[l]>>))}
        Plains == {l \in Stmts : body[l][1] # "if"}
        from == IF Plains = {} THEN 0 ELSE Innermost(Plains)
        Sum[l \in from..i - 1] ==
            IF l = from THEN 0
            ELSE Sum[l - 1] + Cardinality({x \in DOMAIN StoresOf(<<body[l]>>) : StoresOf(<<body[l]>>)[x] = n})
    IN Sum[i - 1] + j
\* <<the statements up to the level-th store of n, the stores still to come>>.
RECURSIVE Cut(_, _, _)
Cut(stmts, n, level) ==
    IF stmts = <<>> \/ level = 0 THEN <<<<>>, level>>
    ELSE LET s  == stmts[1]
             th == Cut(s[4], n, level)
             el == Cut(s[5], n, th[2])
             x  == IF s[1] = "if" THEN <<[s EXCEPT ![4] = th[1], ![5] = el[1]], el[2]>>
                   ELSE <<s, IF n \in Names(Targets(s)) THEN level - 1 ELSE level>>
             tl == Cut(Tail(stmts), n, x[2])
         IN <<<<x[1]>> \o tl[1], tl[2]>>
attr_function(m, fn) ==
    LET s == fn[1]
        d == m.p.schemas[s]
        st == d.body[fn[2]]
        f == m.fr
        a == walk_arguments(Enter(m), d, f.args, f.kwargs)
        t == [a EXCEPT !.fr = Frame(s, f.self, f.config, f.c, f.args, f.kwargs)]
        code == IF st[1] = "if" THEN Cut(<<st>>, fn[3], Level(d.body, fn[2], fn[3], fn[4]))[1] ELSE <<st>>
    IN Leave(walk_stmts(t, code), m)

\* kclvm_schema_value_check: config keys that are no attributes are taken by
\* the index signature.
schema_value_check(m, d, indexValue) ==
    LET self == m.fr.self
        Pack(q, k) == Then(type_pack_and_check(q, q.h[self][2].v[k], d.index.type),
                           LAMBDA w : dict_update_key_value(w, self, k, w.r))
        Taken(q, k) == IF q.err # "" THEN q ELSE Pack(q, k)
        Key(p, k) ==
            LET D  == p.h[p.fr.config][2]
                kn == d.index.key
                fits == Has(p, self, kn) => p.h[p.h[self][2].v[kn]] = VStr(k)
                cp == DeepCopy(p, indexValue)
                t  == dict_merge_key_value_pair(dict_update_entry(cp, self, k, cp.r, "override", -1),
                                                self, k, D.v[k], Get(D.op, k, "union"), -1, TRUE)
            IN CASE Has(p, self, k) -> p
                 [] d.index = <<>> -> Fail(p, "no attribute")
                 [] ~fits -> p
                 [] OTHER -> Taken(t, k)
    IN IF m.o.nocheck THEN m ELSE Each(Keys(m, m.fr.config), m, Key)

\* The check function: own index signature, the base's checks, own checks,
\* those of the mixins.
check_function(m, s, args, kwargs) ==
    LET d == m.p.schemas[s]
        f == m.fr
        a == [walk_arguments(Enter(m), d, args, kwargs) EXCEPT
                 !.fr = Frame(s, f.self, f.config, f.c, args, kwargs), !.tv = LastStore(d.body, @)]
        v == IF d.index = <<>> \/ d.index.value = <<>> THEN New(a, Undefined) ELSE Eval(d.index.value, a)
        Check(p, c) == If(c[2], p, LAMBDA q : Then(Eval(c[1], q), LAMBDA t :
                          IF IsTruthy(t.h[t.r]) THEN t ELSE Fail(t, "check")))
        Others(p, n) == Run(<<"check", n, <<>>, <<>>>>, p)
        Base(w) == IF d.base = "" THEN w ELSE Others(w, d.base)
    IN Leave(Each(d.mixins, Each(d.checks, Base(Then(v, LAMBDA w : schema_value_check(w, d, w.r))), Check), Others), m)
\* do_check_with_index_sign_attr: once for every key of the config without a
\* declared type, under the index signature's key name.  It takes the closure
\* from the head of args, so that no positional arguments may come before.
check_with_index(m, s, kn, args, kwargs) ==
    LET self == m.fr.self
        Key(p, k) ==
            IF k \in DOMAIN p.h[self][2].ty THEN p
            ELSE LET n == New(p, VStr(k)) IN
                 Run(<<"check", s, <<>>, kwargs>>, dict_update_key_value(n, self, kn, n.r))
        t == Each(Keys(m, m.fr.config), m, Key)
    IN dict_remove(t, self, kn)

\* schema_default_settings: how the instance is planned.
default_settings(m, s) ==
    LET self == m.fr.self
        K  == "__settings__"
        d  == New(New(m, VStr("INLINE")), <<"dict", Put(EmptyDict, "output_type", Len(m.h) + 1)>>)
        t  == IF Has(m, self, K) /\ IsConfig(m.h[m.h[self][2].v[K]]) THEN m ELSE dict_update_key_value(d, self, K, d.r)
        ty == New(t, VStr(s))
        u  == dict_update_key_value(ty, ty.h[self][2].v[K], "__schema_type__", ty.r)
    IN IF Has(m, m.fr.config, K) THEN dict_update_key_value(u, self, K, m.h[m.fr.config][2].v[K]) ELSE u

\* kclvm_value_schema_with_config: base and mixins hand on the dict they filled.
schema_with_config(m, s, config, self, c, sub) ==
    IF sub THEN New(m, <<"schema", m.h[self][2], s, Keys(m, config), m.h[c][2].opt>>) ELSE Ret(m, self)
\* The end of the schema function: which attributes may be missing, the checks.
RunChecks(m, d, s, args, kwargs, c, sub) ==
    LET attrs == {i \in DOMAIN d.body : d.body[i][1] = "attr"}
        opt == [n \in {d.body[i][3] : i \in attrs} |-> d.body[Innermost({i \in attrs : d.body[i][3] = n})][7]]
        y  == [m EXCEPT !.h[c][2].opt = opt @@ @]
    IN CASE ~sub \/ m.err # "" -> y
         [] d.index # <<>> /\ d.index.key # "" -> check_with_index(y, s, d.index.key, args, kwargs)
         [] OTHER -> Run(<<"check", s, args, kwargs>>, y)
\* The schema function.  sub is is_sub_schema of the outermost schema, which
\* comes with record_instance; base and mixins are called with sub FALSE.
construct(m, s, args, kwargs, config, self, c, sub, record) ==
    LET d  == m.p.schemas[s]
        a  == walk_arguments(Enter(m), d, args, kwargs)
        Part(p, n) == Run(<<"part", n, config, self, c, record>>, p)
        b  == IF d.base = "" THEN a ELSE Part(a, d.base)
        e  == emit_schema_left_identifiers([b EXCEPT !.fr = Frame(s, self, config, c, args, kwargs)], s, d.body)
        r  == IF record THEN Then(walk_stmts(e, d.body), LAMBDA p : default_settings(p, s)) ELSE e
        z  == RunChecks(Each(d.mixins, r, Part), d, s, args, kwargs, c, sub)
    IN Leave(Then(z, LAMBDA p : schema_with_config(p, s, config, self, c, sub)), m)

\* resolve_schema: the instance made anew from its entries under the keys.
resolve_schema(m, a, ks) ==
    LET c == m.h[a]
        d == dict_get_entries(m, a, ks)
    IN IF c[1] # "schema" \/ c[3] \notin DOMAIN m.p.schemas THEN Ret(m, a)
       ELSE Run(<<"calls", c[3], <<>>, <<>>, d.r>>, d)

\* globals_to_json_str: scalars and the public variables of the names are united
\* into one value, the entry ScalarKey of the config at the address g.  What is
\* added is a scalar's address or a variable's name.
ScalarKey == "$scalar"
AddGlobal(m, g, x) ==
    LET d == New(m, <<"dict", EmptyDict>>)
        t == IF x[1] = "scalar" THEN Ret(m, x[2])
             ELSE Then(InsertKey(d, d.r, x[2], m.b[m.sc[1].v[x[2]]], "union", -1), LAMBDA p : Ret(p, d.r))
    IN IF t.err # "" THEN t ELSE InsertKey(t, g, ScalarKey, t.r, "union", -1)
globals_to_json_str(m, names) ==
    LET xs == [i \in DOMAIN m.scal |-> <<"scalar", m.scal[i]>>] \o [i \in DOMAIN names |-> <<"name", names[i]>>]
        Result(t, g) == CASE t.err # "" -> t
                          [] Has(t, g, ScalarKey) -> Ret(t, t.h[g][2].v[ScalarKey])
                          [] OTHER -> New(t, Undefined)
        g == New(m, <<"dict", EmptyDict>>)
    IN Result(Each(xs, g, LAMBDA p, x : AddGlobal(p, g.r, x)), g.r)

Run(task, m) ==
    CASE m.err # "" -> m
      [] task[1] = "expr"      -> walk_expr(m, task[2])
      [] task[1] = "stmt"      -> walk_stmt(m, task[2])
      [] task[1] = "generator" -> walk_generator(m, task[2], task[3], task[4], task[5])
      [] task[1] = "union"     -> Union(m, task[2], task[3], task[4], task[5])
      [] task[1] = "compare"   -> New(m, CompareBoxes(m, task[2], task[3], task[4], m.r, m.bx))
      [] task[1] = "item"      -> AddItem(m, task[2], task[3])
      [] task[1] = "quant"     -> quant_element(m, task[2], task[3], task[4], task[5], task[6])
      [] task[1] = "load"      -> Load(m, task[2])
      [] task[1] = "store"     -> Store(m, task[2])
      [] task[1] = "calls"     -> SchemaCalls(m, task[2], task[3], task[4], task[5])
      [] task[1] = "call"      -> SchemaCall(m, task[2], task[3], task[4], task[5], task[6], task[7])
      [] task[1] = "resolve"   -> resolve_schema(m, task[2], task[3])
      [] task[1] = "convert"   -> Convert(m, task[2], task[3])
      [] task[1] = "attrfn"    -> attr_function(m, task[2])
      [] task[1] = "check"     -> check_function(m, task[2], task[3], task[4])
      [] task[1] = "construct" -> construct(m, task[2], task[3], task[4], task[5], task[6], task[7], task[8], task[8])
      [] task[1] = "part"      -> construct(m, task[2], <<>>, <<>>, task[3], task[4], task[5], FALSE, task[6])
      [] task[1] = "globals"   -> globals_to_json_str(m, task[2])

\* The names that the generator knows before it walks the module: those that an
\* assignment stores to, Undefined at first.
RECURSIVE Predeclared(_)
Predeclared(stmts) ==
    UNION {CASE s[1] = "assign" -> Names(s[3])
             [] s[1] = "if" -> Predeclared(s[4]) \cup Predeclared(s[5])
             [] OTHER -> {} : s \in Names(stmts)}
\* The state in which a program starts.
Start(p, o) ==
    LET ns == Predeclared(p.stmts)
        q  == CHOOSE f \in [1..Cardinality(ns) -> ns] : \A x \in ns : \E i \in DOMAIN f : f[i] = x
    IN [h |-> <<VInt(0), VFloat(<<0, 1>>)>> \o [i \in DOMAIN q |-> Undefined],
        r |-> Zero, err |-> "", o |-> o, p |-> [schemas |-> p.schemas, stmts |-> p.stmts, pre |-> ns], bx |-> 0,
        b |-> [i \in 1..Len(q) + 2 |-> i],
        sc |-> <<[v |-> [x \in ns |-> 2 + CHOOSE i \in DOMAIN q : q[i] = x], a |-> {}]>>,
        lv |-> {}, tv |-> "", fr |-> NoFrame, sx |-> 0, line |-> 0, scal |-> <<>>, si |-> 0]
=============================================================================
