------------------------------ MODULE Checker ------------------------------
(* The static checker (sema/src/ty and sema/src/resolver): which programs    *)
(* are accepted, and the types that their variables are given.               *)
(* Types: <<"any">>, <<"none">>, <<"void">>, <<"int">>, <<"float">>,         *)
(* <<"bool">>, <<"str">>, <<"lit", cell>>, <<"list", T>>, <<"dict", value,   *)
(* key>>, <<"schema", name, is_instance>>, <<"union", sequence>>,            *)
(* <<"func", T>>.  The checker's state k is a record:                        *)
(*   sc    scopes, name -> type; the first is that of the package            *)
(*   lv    local_vars;  gl   global_names;  errs  the errors                 *)
(*   S     schema_mapping: [base, mixin, attrs: name -> [ty, opt], index,    *)
(*         params];  cur  ctx.schema, the copy being walked, or <<>>         *)
(*   cx    config_expr_context, types or <<>>;  t  the type just found       *)
(* A schema type names its schema, whose table is S's (copies of an earlier  *)
(* scan are the subject of the module Resolver).  A missing annotation is    *)
(* <<"any">>, a negative number the literal of its absolute value.           *)
EXTENDS Plan
Seqs == INSTANCE SequencesExt

AnyT   == <<"any">>
NoneT == <<"none">>
Void  == <<"void">>
Prim(n) == <<n>>
ListOf(T) == <<"list", T>>
DictOf(K, V) == <<"dict", V, K>>
\* The flags of a type: those of a literal are the ones of its kind.
Flag(T) == IF T[1] = "lit" THEN T[2][1] ELSE T[1]
Has1(T, flags) == Flag(T) \in flags
NumberFlags == {"int", "float", "bool"}
\* is_kind_type_or_kind_union_type.
AllOf(T, flags) == IF T[1] = "union" THEN \A i \in DOMAIN T[2] : Has1(T[2][i], flags) ELSE Has1(T, flags)
Iterable(T) == Has1(T, {"str", "list", "dict", "schema"})
RECURSIVE IsKey(_)
IsKey(T) == Flag(T) = "str" \/ (T[1] = "union" /\ \A i \in DOMAIN T[2] : IsKey(T[2][i]))

\* F over a sequence, from the left; each result before the next is begun.
Thru(q, k, F(_, _)) ==
    LET G[i \in 0..Len(q)] == IF i = 0 THEN k ELSE CHOOSE r \in {F(p, q[i]) : p \in {G[i - 1]}} : TRUE IN G[Len(q)]
Err(k, why) == [k EXCEPT !.errs = @ \cup {why}]
ErrIf(k, cond, why) == IF cond THEN Err(k, why) ELSE k
Give(k, T) == [k EXCEPT !.t = T]
Last(q) == q[Len(q)]

-----------------------------------------------------------------------------
(* The order of types (ty/unify.rs).                                         *)

RECURSIVE is_sub_schema_of(_, _, _)
is_sub_schema_of(S, s, t) == s = t \/ (S[s].base # "" /\ is_sub_schema_of(S, S[s].base, t))

\* A literal is below its kind, and a string below every kind its text names.
SubLiteral(l, r) ==
    CASE r[1] = "lit" -> l = r
      [] r[1] \in NumberFlags \cup {"str"} ->
           \/ r[1] = "float" /\ Flag(l) # "str"
           \/ r[1] = Flag(l)
           \/ Flag(l) = "str" /\ Contains(l[2][2], r[1])
      [] OTHER -> FALSE
RECURSIVE subsume(_, _, _, _)
subsume(S, l, r, left) ==
    CASE (left /\ l = AnyT) \/ r = AnyT \/ l = NoneT -> TRUE
      [] l[1] = "union" -> \A i \in DOMAIN l[2] : subsume(S, l[2][i], r, FALSE)
      [] r[1] = "union" -> \E i \in DOMAIN r[2] : subsume(S, l, r[2][i], FALSE)
      [] l[1] = "schema" -> r[1] = "schema" /\ is_sub_schema_of(S, l[2], r[2])
      [] Flag(l) = "int" /\ Flag(r) = "float" -> TRUE
      [] l[1] = "lit" -> SubLiteral(l, r)
      [] l[1] = "list" /\ r[1] = "list" -> subsume(S, l[2], r[2], left)
      [] l[1] = "dict" /\ r[1] = "dict" -> subsume(S, l[3], r[3], left) /\ subsume(S, l[2], r[2], left)
      [] OTHER -> l = r
assignable_to(S, T, U) == T # Void /\ subsume(S, T, U, TRUE)
is_upper_bound(S, T, U) == subsume(S, U, T, FALSE)

\* The members of unions in place, without void and repetitions.
RECURSIVE add_types(_, _)
add_types(set, types) ==
    Thru(types, set, LAMBDA q, T : IF T[1] = "union" THEN add_types(q, T[2]) ELSE IF T = Void THEN q ELSE AppendNew(q, T))
\* The first of the types.
SupFirst(S, types) == IF types = <<>> THEN AnyT ELSE types[1]
\* The least type above all: those below another are left out.
sup(S, types) ==
    LET Above(q) == SelectSeq([i \in DOMAIN q |-> i], LAMBDA i : ~\E j \in DOMAIN q : i # j /\ subsume(S, q[i], q[j], FALSE))
        UnionOf(q, keep) == CASE keep = <<>> -> AnyT
                             [] Len(keep) = 1 -> q[keep[1]]
                             [] OTHER -> <<"union", [i \in DOMAIN keep |-> q[keep[i]]]>>
        Least(q) == UnionOf(q, Above(q))
    IN Least(add_types(<<>>, types))

\* The type of a variable that is given a value of the type.
RECURSIVE infer_to_variable_type(_, _)
infer_to_variable_type(S, T) ==
    CASE T = NoneT -> AnyT
      [] T[1] = "lit"  -> Prim(Flag(T))
      [] T[1] = "list" -> ListOf(infer_to_variable_type(S, T[2]))
      [] T[1] = "dict" -> DictOf(infer_to_variable_type(S, T[3]), infer_to_variable_type(S, T[2]))
      [] T[1] = "union" -> sup(S, [i \in DOMAIN T[2] |-> infer_to_variable_type(S, T[2][i])])
      [] OTHER -> T
literal_union_type_to_variable_type(S, T) == IF T[1] = "union" THEN infer_to_variable_type(S, T) ELSE T

-----------------------------------------------------------------------------
(* Operators (resolver/calculation.rs).                                      *)

ZeroLits == {<<"lit", VInt(0)>>, <<"lit", VFloat(<<0, 1>>)>>, <<"lit", VBool(FALSE)>>}
MulFlags == NumberFlags \cup {"str", "list"}
\* Binary operators whose operands are not looked at.
BinaryLax(k, left, right, op) == Give(k, AnyT)
\* <<>> where the operands do not fit.
BinaryType(S, t1, t2, op) ==
    LET numbers == Has1(t1, NumberFlags) /\ Has1(t2, NumberFlags)
        ints    == Flag(t1) = "int" /\ Flag(t2) = "int"
        lists   == t1[1] = "list" /\ t2[1] = "list"
        number  == IF Flag(t1) = "float" \/ Flag(t2) = "float" THEN Prim("float") ELSE Prim("int")
        both    == ListOf(sup(S, <<t1[2], t2[2]>>))
    IN CASE op = "or"  -> sup(S, <<t1, t2>>)
         [] op = "and" -> Prim("bool")
         [] op = "%" -> IF numbers THEN Prim("int") ELSE <<>>
         [] op \in NumberOps /\ numbers -> number
         [] op = "+" /\ Flag(t1) = "str" /\ Flag(t2) = "str" -> Prim("str")
         [] op = "+" /\ lists -> both
         [] op = "*" /\ Flag(t1) = "int" /\ AllOf(t2, MulFlags) -> t2
         [] op = "*" /\ Flag(t2) = "int" /\ AllOf(t1, MulFlags) -> t1
         [] op \in {"<<", ">>", "^", "&", "|"} /\ ints -> Prim("int")
         [] op = "|" /\ t1 = NoneT -> t2
         [] op = "|" /\ t2 = NoneT -> t1
         [] op = "|" /\ lists -> both
         [] op = "|" /\ t1[1] = "dict" /\ t2[1] = "dict" -> DictOf(sup(S, <<t1[3], t2[3]>>), sup(S, <<t1[2], t2[2]>>))
         [] op = "|" /\ t1[1] = "schema" /\ t2[1] \in {"schema", "dict"} -> t1
         [] OTHER -> <<>>
binary(k, left, right, op) ==
    LET Typed(T, t2) == IF T = <<>> THEN Give(Err(k, "operand"), AnyT)
                        ELSE Give(ErrIf(k, op \in {"/", "//", "%"} /\ t2 \in ZeroLits, "zero"), T)
        Of(t1, t2) == IF t1 = AnyT \/ t2 = AnyT THEN Give(k, AnyT) ELSE Typed(BinaryType(k.S, t1, t2, op), t2)
    IN Of(literal_union_type_to_variable_type(k.S, left), literal_union_type_to_variable_type(k.S, right))
unary(k, T, op) ==
    LET Fitted(V) == CASE op = "not" -> TRUE
                     [] op = "~" -> Has1(V, {"int", "bool"})
                     [] OTHER -> Has1(V, NumberFlags)
        Of(V) == IF T = AnyT \/ Fitted(V) THEN Give(k, V) ELSE Give(Err(k, "operand"), AnyT)
    IN Of(literal_union_type_to_variable_type(k.S, T))
Comparable(t1, t2, op) ==
    LET isIn == op \in {"in", "not in"}
        isEq == op \in {"==", "!="}
        Both(flags) == AllOf(t1, flags) /\ AllOf(t2, flags)
    IN \/ ~isIn /\ Both(NumberFlags)
       \/ isEq /\ Both(NumberFlags \cup {"str"})
       \/ t1[1] = "list" /\ t2[1] = "list"
       \/ {t1[1], t2[1]} \subseteq {"dict", "schema"}
       \/ isIn /\ Iterable(t2)
       \/ isEq /\ (t1 = NoneT \/ t2 = NoneT)
compare(k, left, right, op) ==
    LET Of(t1, t2) == CASE t1 = AnyT \/ t2 = AnyT -> Give(k, AnyT)
                        [] Comparable(t1, t2, op) -> Give(k, Prim("bool"))
                        [] OTHER -> Give(Err(k, "operand"), AnyT)
    IN Of(literal_union_type_to_variable_type(k.S, left), literal_union_type_to_variable_type(k.S, right))
-----------------------------------------------------------------------------
(* Scopes, schema types and names.                                           *)

enter(k) == [k EXCEPT !.sc = Append(@, <<>>)]
leave(k) == [k EXCEPT !.sc = SubSeq(@, 1, Len(@) - 1), !.lv = {}]
contains_object(k, n) == n \in DOMAIN Last(k.sc)
insert_object(k, n, T) == [k EXCEPT !.sc[Len(k.sc)] = (n :> T) @@ @]
\* <<>> or <<type>>.
find_type_in_scope(k, n) ==
    LET D == {i \in DOMAIN k.sc : n \in DOMAIN k.sc[i]} IN IF D = {} THEN <<>> ELSE <<k.sc[Innermost(D)][n]>>
lookup_type_from_scope(k, n) ==
    LET T == find_type_in_scope(k, n) IN IF T = <<>> THEN Give(Err(k, "name"), AnyT) ELSE Give(k, T[1])
set_type_to_scope(k, n, T) ==
    IF contains_object(k, n) THEN insert_object(k, n, infer_to_variable_type(k.S, T)) ELSE Err(k, "name")

\* The attribute of a schema or of its bases: <<>> or <<[ty, opt]>>.
RECURSIVE get_obj_of_attr(_, _, _)
get_obj_of_attr(S, d, a) ==
    CASE a \in DOMAIN d.attrs -> <<d.attrs[a]>>
      [] d.base # "" -> get_obj_of_attr(S, S[d.base], a)
      [] OTHER -> <<>>
val_ty(S, s) == IF S[s].index = <<>> THEN AnyT ELSE S[s].index.type
\* What the iteration over a config gives.
ConfigKey(T) == IF T[1] = "dict" THEN T[3] ELSE Prim("str")
ConfigVal(S, T) == IF T[1] = "dict" THEN T[2] ELSE val_ty(S, T[2])

\* resolve_var of one name.  In a schema an attribute's declared type comes
\* before what the scope says.
resolve_var(k, n, store) ==
    LET a   == IF k.cur = <<>> THEN <<>> ELSE get_obj_of_attr(k.S, k.cur, n)
        s   == find_type_in_scope(k, n)
        new == insert_object(k, n, AnyT)
        T   == CASE n \in k.lv /\ s # <<>> -> s[1]
                 [] n \notin k.lv /\ a # <<>> /\ a[1].ty # AnyT -> a[1].ty
                 [] OTHER -> IF s = <<>> THEN AnyT ELSE s[1]
    IN CASE k.cur = <<>> /\ store /\ ~contains_object(k, n) -> Give(new, AnyT)
         [] k.cur = <<>> -> lookup_type_from_scope(k, n)
         [] ~store -> Give(k, T)
         [] a = <<>> -> Give([new EXCEPT !.cur.attrs = (n :> [ty |-> AnyT, opt |-> TRUE]) @@ @], AnyT)
         [] ~contains_object(k, n) -> Give(new, AnyT)
         [] OTHER -> Give(k, a[1].ty)
\* Global names are known in the order of the text.
InsertGlobal(k, n) == IF Len(k.sc) = 1 THEN [k EXCEPT !.gl = @ \cup {n}] ELSE k
resolve_unique_key(k, n) == IF n \in k.gl THEN Err(k, "unique") ELSE InsertGlobal(k, n)

\* parse_ty_with_scope: names in an annotation are looked up.
RECURSIVE upgrade_named_ty(_, _)
upgrade_named_ty(k, T) ==
    CASE T[1] = "list" -> LET p == upgrade_named_ty(k, T[2]) IN Give(p, ListOf(p.t))
      [] T[1] = "dict" -> LET p == upgrade_named_ty(k, T[3])
                              q == upgrade_named_ty(p, T[2])
                          IN Give(q, DictOf(p.t, q.t))
      [] T[1] = "union" -> LET p == Thru(T[2], Give(k, <<>>), LAMBDA q, U : LET r == upgrade_named_ty(q, U) IN Give(r, Append(q.t, r.t)))
                           IN Give(p, <<"union", p.t>>)
      [] T[1] = "schema" -> resolve_var(k, T[2], FALSE)
      [] OTHER -> Give(k, T)

-----------------------------------------------------------------------------
(* Assignability (resolver/ty.rs) and attributes (attr.rs, config.rs).       *)

\* <<whether the dict can become the schema, whether an error is reported>>.
dict_assignable_to_schema(S, T, s) ==
    LET ix == S[s].index
        fits == assignable_to(S, T[2], ix.type)
    IN IF ix = <<>> THEN <<TRUE, FALSE>>
       ELSE <<ix.other => assignable_to(S, T[3], Prim("str")) /\ fits, ~fits>>
\* <<result, error>>; what follows a decided all or any is not looked at.
RECURSIVE check_ty(_, _, _)
check_ty(S, T, U) ==
    LET Both(x, y) == <<x[1] /\ y[1], x[2] \/ (x[1] /\ y[2])>>
        All[i \in 0..Len(T[2])] == IF i = 0 THEN <<TRUE, FALSE>>
                                   ELSE LET w == All[i - 1] IN IF w[1] THEN Both(w, check_ty(S, T[2][i], U)) ELSE w
        Some[i \in 0..Len(U[2])] == IF i = 0 THEN <<FALSE, FALSE>>
                                    ELSE LET w == Some[i - 1] IN
                                         IF w[1] THEN w ELSE LET c == check_ty(S, T, U[2][i]) IN <<c[1], w[2] \/ c[2]>>
    IN CASE T[1] = "list" /\ U[1] = "list" -> check_ty(S, T[2], U[2])
         [] T[1] = "dict" /\ U[1] = "dict" -> Both(check_ty(S, T[3], U[3]), check_ty(S, T[2], U[2]))
         [] T[1] = "dict" /\ U[1] = "schema" -> dict_assignable_to_schema(S, T, U[2])
         [] T[1] = "union" -> All[Len(T[2])]
         [] U[1] = "union" -> Some[Len(U[2])]
         [] OTHER -> <<assignable_to(S, T, U), FALSE>>
must_assignable_to(k, T, U) ==
    LET c == check_ty(k.S, T, U) IN ErrIf(k, ~c[1] \/ c[2], "type")

check_attr_ty(k, T) == ErrIf(k, T # AnyT /\ ~IsKey(T), "key")
check_config_attr(k, s, a) ==
    ErrIf(k, get_obj_of_attr(k.S, k.S[s], a) = <<>> /\ ~k.S[s].mixin /\ k.S[s].index = <<>>, "member")
\* What the member functions of strings return.
StrMember(f) ==
    CASE f = "capitalize" -> AnyT
      [] f \in {"count", "find", "index", "rfind", "rindex"} -> Prim("int")
      [] f \in {"endswith", "startswith", "isalnum", "isalpha", "isdigit", "islower", "isspace", "istitle", "isupper"} -> Prim("bool")
      [] f \in {"split", "rsplit", "splitlines"} -> ListOf(Prim("str"))
      [] OTHER -> Prim("str")
StrMembers == {"capitalize", "count", "endswith", "find", "format", "index", "isalnum", "isalpha", "isdigit", "islower", "isspace",
               "istitle", "isupper", "join", "lower", "upper", "lstrip", "rstrip", "replace", "removeprefix", "removesuffix", "rfind",
               "rindex", "rsplit", "split", "splitlines", "startswith", "strip", "title"}
\* load_attr.
type_of_attr(k, T, a) ==
    LET o == get_obj_of_attr(k.S, k.S[T[2]], a)
        open == k.S[T[2]].mixin \/ k.S[T[2]].index # <<>>
        U == CASE T = AnyT \/ T[1] = "union" -> AnyT
               [] Flag(T) = "str" -> IF a \in StrMembers THEN <<"func", StrMember(a)>> ELSE <<>>
               [] T[1] = "dict" -> T[2]
               [] T[1] = "schema" -> CASE o # <<>> -> o[1].ty
                                       [] open -> AnyT
                                       [] a = "instances" /\ ~T[3] -> <<"func", ListOf(AnyT)>>
                                       [] OTHER -> <<>>
               [] OTHER -> <<>>
    IN IF U = <<>> THEN Give(Err(k, "attribute"), AnyT) ELSE Give(k, U)

\* config_expr_context: what the key of a config at the top would hold.
push(k, T) == [k EXCEPT !.cx = Append(@, T)]
pop(k) == [k EXCEPT !.cx = SubSeq(@, 1, Len(@) - 1)]
Top(k) == IF k.cx = <<>> THEN <<>> ELSE Last(k.cx)
find_schema_attr_obj(k, n) ==
    LET T == Top(k)
        o == get_obj_of_attr(k.S, k.S[T[2]], n)
    IN CASE T = <<>> \/ n = "" -> <<>>
         [] T[1] = "dict" -> T[2]
         [] T[1] = "schema" -> IF o # <<>> THEN o[1].ty ELSE IF k.S[T[2]].index # <<>> THEN k.S[T[2]].index.type ELSE <<>>
         [] OTHER -> <<>>
switch_by_name(k, n) == push(k, find_schema_attr_obj(k, n))
-----------------------------------------------------------------------------
(* Expressions (resolver/node.rs, config.rs, arg.rs, loop.rs).               *)

RECURSIVE TypeOf(_, _)
\* The types of several expressions, as a sequence.
Types(es, k) == Thru(es, Give(k, <<>>), LAMBDA p, e : LET q == TypeOf(e, p) IN Give(q, Append(p.t, q.t)))
expr_or_any_type(e, k) == IF e = <<>> THEN Give(k, AnyT) ELSE TypeOf(e, k)
must_be_type(e, k, T) == LET p == TypeOf(e, k) IN must_assignable_to(p, p.t, T)
\* An expression under the expectation of a type.
TypeUnder(e, k, T) == pop(TypeOf(e, push(k, T)))
TypeExpected(e, k, T) == IF T[1] = "schema" THEN TypeUnder(e, k, T) ELSE TypeOf(e, k)

type_if_expr(k, e) ==
    LET p == Types(<<e[3], e[2], e[4]>>, k) IN Give(p, sup(p.S, Tail(p.t)))
type_binary_expr(k, op, a, b) ==
    LET p == Types(<<a, b>>, k) IN
    IF op \in IntOps \cup {"and", "or"} THEN binary(p, p.t[1], p.t[2], op) ELSE compare(p, p.t[1], p.t[2], op)
\* A chain: only the first pair is looked at, with all but the second operator.
type_compare(k, e) ==
    LET p == Types(<<e[2], e[4][1]>>, k)
        Pair(q, op) == compare(q, p.t[1], p.t[2], op)
    IN Give(Thru(<<e[3][1]>> \o SubSeq(e[3], 3, Len(e[3])), p, Pair), Prim("bool"))
type_list_expr(k, items) == LET p == Types(items, k) IN Give(p, ListOf(sup(p.S, p.t)))
\* An absent else is an empty list; it has any type.
type_list_if_item_expr(k, e) ==
    LET c == TypeOf(e[2], k)
        o == IF e[4] = <<"list", <<>>>> THEN Give(c, AnyT) ELSE TypeOf(e[4], c)
        O == IF o.t[1] = "list" THEN o.t[2] ELSE o.t
        p == Types(e[3], o)
    IN Give(p, sup(p.S, <<O, sup(p.S, p.t)>>))
\* <<type, whether it can be unpacked>>.
RECURSIVE Starred(_, _)
Starred(S, T) ==
    CASE T = NoneT \/ T = AnyT -> <<T, TRUE>>
      [] T[1] = "list" -> <<T[2], TRUE>>
      [] T[1] \in {"dict", "schema"} -> <<ConfigKey(T), TRUE>>
      [] T[1] = "union" -> LET r == [i \in DOMAIN T[2] |-> Starred(S, T[2][i])] IN
                           <<sup(S, [i \in DOMAIN r |-> r[i][1]]), \A i \in DOMAIN r : r[i][2]>>
      [] OTHER -> <<AnyT, FALSE>>
type_starred_expr(k, e) ==
    LET p == TypeOf(e, k)
        r == Starred(p.S, p.t)
    IN Give(ErrIf(p, ~r[2], "unpack"), r[1])

\* check_config_entry: a key that names an attribute, against its type.  The
\* value is looked at here and again by type_config_entries.
KeyName(key) == IF key[1] = "id" THEN key[2] ELSE IF key[1] = "expr" /\ key[2][1] = "str" THEN key[2][2] ELSE ""
Indexed(key) == key[1] = "id" /\ key[3] # -1
check_config_entry(k, e) ==
    LET n == KeyName(e[1])
        a == IF Top(k)[1] = "schema" THEN check_config_attr(k, Top(k)[2], n) ELSE k
        Fitted(v) == IF Top(v) = <<>> THEN v ELSE must_assignable_to(v, IF Indexed(e[1]) THEN ListOf(v.t) ELSE v.t, Top(v))
    IN IF n = "" \/ Top(k) = <<>> THEN k ELSE pop(Fitted(TypeOf(e[3], switch_by_name(a, n))))
\* What an entry whose value has the type v.t adds: <<state, key types, value
\* types>>.  X is the type of an expression as its key.
EntryTypes(v, key, n, X) ==
    LET V == v.t
        config == IF V[1] = "union" THEN V[2] ELSE <<V>>
        Sup(F(_)) == sup(v.S, [i \in DOMAIN config |-> F(config[i])])
        Named(y, K) == <<check_attr_ty(IF n = "" THEN y ELSE insert_object(y, n, V), K), <<K>>, <<V>>>>
        Key(y) == Named(y, IF key[1] = "expr" THEN X ELSE y.t)
    IN CASE Indexed(key) -> <<v, <<Prim("str")>>, <<ListOf(V)>>>>
         [] key[1] # "unpack" -> Key(IF key[1] = "id" /\ n \in v.lv THEN resolve_var(v, n, FALSE) ELSE Give(v, <<"lit", VStr(n)>>))
         [] V = NoneT \/ V = AnyT -> <<v, <<>>, <<V>>>>
         [] AllOf(V, {"dict", "schema"}) -> <<v, <<Sup(ConfigKey)>>, <<Sup(LAMBDA T : ConfigVal(v.S, T))>>>>
         [] OTHER -> <<Err(v, "unpack"), <<>>, <<>>>>
\* One entry; k.t is <<key types, value types>>.
type_config_entry(k, e) ==
    LET n == KeyName(e[1])
        Switch(c) == IF n = "" THEN c ELSE switch_by_name(c, n)
        Done(z, r) == Give(IF n = "" THEN z ELSE pop(z), <<k.t[1] \o r[2], k.t[2] \o r[3]>>)
        Add(r, V) == Done(ErrIf(r[1], e[2] = "insert" /\ ~Indexed(e[1]) /\ V # AnyT /\ V[1] # "list", "insert"), r)
        Valued(v, X) == Add(EntryTypes(v, e[1], n, X), v.t)
        Keyed(x) == Valued(TypeOf(e[3], x), x.t)
        OfKey(d) == Keyed(IF e[1][1] = "expr" THEN TypeOf(e[1][2], d) ELSE d)
    IN OfKey(Switch(check_config_entry(k, e)))
type_config_entries(k, entries) ==
    LET Config(p) == Give(p, DictOf(sup(p.S, p.t[1]), sup(p.S, p.t[2]))) IN
    Config(leave(Thru(entries, Give(enter(k), <<<<>>, <<>>>>), LAMBDA p, e : TypeOf(<<"entry", e>>, p))))
type_config_if_entry_expr(k, e) ==
    LET d == TypeOf(<<"config", e[3]>>, TypeOf(e[2], k))
        o == TypeOf(e[4], d)
    IN IF e[4] = <<"config", <<>>>> THEN d ELSE Give(o, sup(o.S, <<d.t, o.t>>))

\* do_loop_type_check: the loop variables from each type that is iterated.
do_loop_type_check(k, vars, T) ==
    LET two == Len(vars) = 2
        First(U)  == CASE U[1] = "list" -> IF two THEN Prim("int") ELSE U[2]
                       [] Flag(U) = "str" -> IF two THEN Prim("int") ELSE Prim("str")
                       [] OTHER -> ConfigKey(U)
        Second(S, U) == CASE U[1] = "list" -> U[2]
                          [] Flag(U) = "str" -> Prim("str")
                          [] OTHER -> ConfigVal(S, U)
        Bound(p, ts) ==
            LET q == set_type_to_scope(p, vars[1], ts[1]) IN
            Give(IF two THEN set_type_to_scope(q, vars[2], ts[2]) ELSE q, ts)
        \* p.t holds the types of the two so far
        Step(p, U) ==
            CASE Iterable(U) ->
                   Bound(p, <<sup(p.S, <<First(U), p.t[1]>>), IF two THEN sup(p.S, <<Second(p.S, U), p.t[2]>>) ELSE Void>>)
              [] U = AnyT -> p
              [] OTHER -> Err(p, "iterable")
    IN Thru(IF T[1] = "union" THEN T[2] ELSE <<T>>, Give(k, <<Void, Void>>), Step)
BindVars(k, vars) ==
    Thru(vars, [k EXCEPT !.lv = @ \cup Names(vars)], LAMBDA p, n : insert_object(p, n, AnyT))
\* The condition is not looked at when nothing is known of the elements.
type_comp_clause(k, g) ==
    LET p == TypeOf(g[2], k)
        q == BindVars(p, g[1])
    IN IF p.t = AnyT THEN q ELSE expr_or_any_type(g[3], do_loop_type_check(q, g[1], p.t))
type_list_comp(k, elt, gens) ==
    LET p == TypeOf(elt, Thru(gens, enter(k), LAMBDA q, g : TypeOf(<<"clause", g>>, q))) IN
    Give(leave(ErrIf(p, elt[1] = "star", "unpack")), ListOf(p.t))
type_dict_comp(k, key, value, gens) ==
    LET p == TypeOf(key, Thru(gens, enter(k), LAMBDA q, g : TypeOf(<<"clause", g>>, q)))
        q == TypeOf(value, check_attr_ty(p, p.t))
    IN Give(leave(q), DictOf(p.t, q.t))
type_quant_expr(k, e) ==
    LET x == TypeOf(e[4], k)
        Given(t) == Give(leave(t), CASE e[2] \in {"all", "any"} -> Prim("bool")
                                     [] e[2] = "filter" -> x.t
                                     [] e[2] = "map" -> ListOf(t.t))
    IN IF x.t = AnyT THEN x
       ELSE Given(TypeOf(e[5], expr_or_any_type(e[6], do_loop_type_check(BindVars(enter(x), e[3]), e[3], x.t))))

\* Indices of lists and strings are not looked at closely.
type_subscript(k, e, i) ==
    LET x == TypeOf(e, k)
        y == TypeOf(i, x)
    IN CASE x.t = AnyT -> x
         [] x.t[1] = "list" -> Give(must_be_type(i, x, AnyT), x.t[2])
         [] Flag(x.t) = "str" -> Give(must_be_type(i, x, AnyT), Prim("str"))
         [] x.t[1] \in {"dict", "schema"} ->
              IF y.t = AnyT \/ y.t = NoneT \/ IsKey(y.t) THEN Give(y, ConfigVal(y.S, x.t)) ELSE Give(Err(y, "key"), AnyT)
         [] OTHER -> Give(Err(x, "subscript"), AnyT)
type_slice(k, e, bounds) ==
    LET x == TypeOf(e, k)
        given == SelectSeq(bounds, LAMBDA b : b # None)
        y == Thru(given, x, LAMBDA p, b : must_be_type(b, p, Prim("int")))
    IN CASE x.t = AnyT -> x
         [] x.t[1] = "list" -> Give(y, x.t)
         [] Flag(x.t) = "str" -> Give(y, Prim("str"))
         [] OTHER -> Give(Err(x, "subscript"), AnyT)

\* Nothing is looked at when the parameters are not known; too many positional
\* arguments end the check.
do_arguments_type_check(k, args, kwargs, params) ==
    LET Twice == \E i, j \in DOMAIN kwargs : i # j /\ kwargs[i][1] = kwargs[j][1]
        Upto(n) == [i \in 1..n |-> i]
        \* The types ts of the arguments and us of the keyword arguments.
        Fit(r, ts, us) ==
            LET Pos(w, i) == must_assignable_to(w, ts[i], params[i].ty)
                Kw(w, i) == LET P == SelectSeq(params, LAMBDA x : x.name = kwargs[i][1]) IN
                            IF P = <<>> THEN Err(w, "keyword") ELSE must_assignable_to(w, us[i], P[1].ty)
            IN CASE params = <<>> -> r
                 [] Len(args) > Len(params) -> Err(Thru(Upto(Len(params)), r, Pos), "arguments")
                 [] OTHER -> Thru(Upto(Len(kwargs)), Thru(Upto(Len(args)), r, Pos), Kw)
        p == Types(args, k)
        q == Types([i \in DOMAIN kwargs |-> kwargs[i][2]], p)
    IN Fit(ErrIf(q, Twice, "keyword"), p.t, q.t)
\* A call of a value of type k.t.
type_call(k, args) ==
    LET T == k.t
        schema == T[1] = "schema" /\ ~T[3]
    IN IF T # AnyT /\ T[1] # "func" /\ ~schema THEN Give(Err(k, "callable"), AnyT)
       ELSE Give(do_arguments_type_check(k, args, <<>>, IF schema THEN k.S[T[2]].params ELSE <<>>),
                 CASE schema -> <<"schema", T[2], TRUE>>
                   [] T[1] = "func" -> T[2]
                   [] OTHER -> AnyT)
type_schema_expr(k, s, args, kwargs, config) ==
    LET Configured(c, D) ==
            IF D[1] = "dict" THEN binary(c, D, c.t, "|")
            ELSE Give(IF D[3] THEN ErrIf(c, args # <<>> \/ kwargs # <<>>, "arguments")
                      ELSE do_arguments_type_check(c, args, kwargs, c.S[D[2]].params), <<"schema", D[2], TRUE>>)
        Of(d) == IF d.t[1] \in {"dict", "schema"} THEN Configured(TypeUnder(config, d, d.t), d.t) ELSE Give(Err(d, "schema"), AnyT)
    IN Of(resolve_var(k, s, FALSE))

\* A number is the literal of its digits; a minus before it is an operator.
type_literal(k, e) ==
    Give(k, CASE NoneOrUndefined(e) -> NoneT
              [] e[1] = "int" -> <<"lit", VInt(Abs(e[2]))>>
              [] e[1] = "float" -> <<"lit", VFloat(<<Abs(e[2][1]), e[2][2]>>)>>
              [] OTHER -> <<"lit", e>>)
-----------------------------------------------------------------------------
(* Statements (resolver/node.rs).                                            *)

\* A type that a value gave to a variable without one, also in the schema.
Infer(k, n, T) ==
    LET p == set_type_to_scope(k, n, T) IN
    IF k.cur = <<>> THEN p
    ELSE [p EXCEPT !.cur.attrs = (n :> [ty |-> infer_to_variable_type(k.S, T), opt |-> n \in DOMAIN @ => @[n].opt]) @@ @]
type_assign_stmt(k, st) ==
    LET Assigned(v, n, T) ==
            LET c == must_assignable_to(v, v.t, T) IN IF v.t # AnyT /\ T = AnyT /\ st[5] = AnyT THEN Infer(c, n, v.t) ELSE c
        Of(x, n) == Assigned(TypeExpected(st[4], x, x.t), n, x.t)
    IN Thru(st[3], [k EXCEPT !.lv = {}], LAMBDA p, n : Of(resolve_var(InsertGlobal(p, n), n, TRUE), n))
\* n.key = e.
type_set_stmt(k, st) ==
    LET Fitted(v, T) == must_assignable_to(v, v.t, T)
        Of(a) == Fitted(TypeOf(st[5], a), a.t)
        To(x) == Of(type_of_attr(IF x.t[1] = "schema" THEN check_config_attr(x, x.t[2], st[4]) ELSE x, x.t, st[4]))
    IN To(resolve_var(lookup_type_from_scope(InsertGlobal([k EXCEPT !.lv = {}], st[3]), st[3]), st[3], TRUE))
type_aug_assign_stmt(k, st) ==
    LET free == IsPrivate(st[3]) \/ st[5][1] = "schema" \/ st[3] \notin k.gl
        Fitted(x, T) == must_assignable_to(x, T, x.t)
        Stored(b) == Fitted(resolve_var(b, st[3], TRUE), b.t)
        Of(r, l) == Stored(binary(r, l.t, r.t, st[4]))
        To(l) == Of(TypeOf(st[5], l), l)
    IN To(resolve_var(IF free THEN InsertGlobal(k, st[3]) ELSE Err(k, "immutable"), st[3], FALSE))
type_unification_stmt(k, st) ==
    LET Fitted(v, T) ==
            LET c == must_assignable_to(v, v.t, T) IN IF v.t # AnyT /\ T = AnyT THEN set_type_to_scope(c, st[3], v.t) ELSE c
        Of(x) == Fitted(TypeUnder(st[4], x, x.t), x.t)
    IN Of(resolve_var(k, st[3], TRUE))
type_schema_attr(k, st) ==
    LET o == get_obj_of_attr(k.S, k.cur, st[3])
        Fitted(b, T) == must_assignable_to(b, b.t, T)
        Of(v, T) == Fitted(IF st[5] = "|=" THEN binary(v, v.t, T, "|") ELSE v, T)
        To(p, T) == IF st[6] = <<>> THEN p ELSE Of(TypeExpected(st[6], p, T), T)
        At(T) == To(insert_object([k EXCEPT !.lv = {}], st[3], T), T)
    IN At(IF o = <<>> THEN AnyT ELSE o[1].ty)
TypeStmts(k, sts) == Thru(sts, k, LAMBDA p, st : TypeOf(<<"stmt", st>>, p))
type_stmt(k, st) ==
    CASE st[1] = "assign" -> type_assign_stmt(k, st)
      [] st[1] = "set"    -> type_set_stmt(k, st)
      [] st[1] = "aug"    -> type_aug_assign_stmt(k, st)
      [] st[1] = "unify"  -> type_unification_stmt(k, st)
      [] st[1] = "attr"   -> type_schema_attr(k, st)
      [] st[1] = "assert" -> expr_or_any_type(st[4], TypeOf(st[3], k))
      [] st[1] = "if"     -> TypeStmts(TypeStmts(TypeOf(st[3], k), st[4]), st[5])
      [] st[1] = "expr"   -> TypeOf(st[3], k)

\* resolve_schema_stmt of the schema d with the name s.
do_parameters_check(k, d) ==
    ErrIf(k, \E i, j \in DOMAIN d.defaults : i < j /\ d.defaults[i] # <<>> /\ d.defaults[j] = <<>>, "parameter")
resolve_schema_stmt(k, s, d) ==
    LET Declared(q, x) == IF contains_object(q, x) THEN q ELSE insert_object(q, x, AnyT)
        Index(p) == IF d.index # <<>> /\ d.index.key # "" THEN insert_object(p, d.index.key, Prim("str")) ELSE p
        Params(e) == Thru(k.S[s].params, e, LAMBDA q, x : insert_object(q, x.name, x.ty))
        Body(e) == TypeStmts(Thru(StoresOf(d.body), Index(Params(e)), Declared), d.body)
        Checks(e) == Thru(d.checks, Body(e), LAMBDA q, x : TypeOf(x[1], expr_or_any_type(x[2], q)))
        Of(n) == IF n.t[1] # "schema" THEN Err(n, "schema")
                 ELSE [leave(Checks(enter(do_parameters_check([n EXCEPT !.cur = k.S[s]], d)))) EXCEPT !.cur = <<>>]
    IN Of(lookup_type_from_scope(resolve_unique_key(k, s), s))

-----------------------------------------------------------------------------
(* The types of global names, before any statement (resolver/global.rs).     *)

NoSchema == [base |-> "", mixin |-> FALSE, attrs |-> <<>>, index |-> <<>>, params |-> <<>>]
IsMixin(s) == Len(s) > 5 /\ SubSeq(s, Len(s) - 4, Len(s)) = "Mixin"

\* A public name that is there already.
Redeclared(k, n, unique) == contains_object(k, n) /\ ~IsPrivate(n) /\ unique
\* One target, with the annotation T.
init_scope_with_assign_stmt(k, n, T, unique) ==
    LET old == IF contains_object(k, n) THEN <<k.sc[1][n]>> ELSE <<>>
        u   == upgrade_named_ty(k, T)
        c   == ErrIf(u, old # <<>> /\ ~is_upper_bound(k.S, old[1], u.t), "type")
    IN CASE Redeclared(k, n, unique) -> Err(k, "immutable")
         [] T # AnyT -> insert_object(c, n, u.t)
         [] OTHER -> insert_object(k, n, IF old # <<>> THEN old[1] ELSE AnyT)
init_scope_with_unification_stmt(k, st, unique) ==
    LET T == resolve_var(k, st[4][2], FALSE) IN
    IF Redeclared(k, st[3], unique) THEN Err(k, "immutable") ELSE insert_object(T, st[3], T.t)
RECURSIVE init_scope_with_stmts(_, _, _)
init_scope_with_stmts(k, sts, unique) ==
    Thru(sts, k, LAMBDA p, st :
        CASE st[1] = "assign" -> Thru(st[3], p, LAMBDA q, n : init_scope_with_assign_stmt(q, n, st[5], unique))
          [] st[1] = "set"    -> init_scope_with_assign_stmt(p, st[3], AnyT, unique)
          [] st[1] = "unify"  -> init_scope_with_unification_stmt(p, st, unique)
          [] st[1] = "if"     -> init_scope_with_stmts(init_scope_with_stmts(p, st[4], unique), st[5], unique)
          [] OTHER -> p)

\* k.t is "" or the name of the schema that may be inherited from.
build_schema_parent_type(k, d) ==
    LET b == resolve_var(k, d.base, FALSE)
        fits == b.t[1] = "schema" /\ ~b.t[3] /\ ~b.S[b.t[2]].mixin
    IN CASE d.base = "" -> Give(k, "")
         [] fits -> Give(b, b.t[2])
         [] OTHER -> Give(Err(b, "inherit"), "")
\* The attributes that a statement declares; k.t holds those so far.  The first
\* declaration counts, the others must fit it, the base's and the index's.
AddAttr(k, st, parent, ix) ==
    LET T == IF st[1] = "attr" THEN st[4] ELSE <<"schema", st[4][2]>>
        n == st[3]
        opt == st[1] = "unify" \/ st[7]
        u == upgrade_named_ty(k, T)
        o == IF parent = "" THEN <<>> ELSE get_obj_of_attr(k.S, k.S[parent], n)
        new == [ty |-> u.t, opt |-> IF o = <<>> THEN opt ELSE o[1].opt]
        attrs == IF n \in DOMAIN k.t THEN k.t ELSE (n :> new) @@ k.t
        Above(U) == is_upper_bound(k.S, U, u.t)
        e == ErrIf(u, ~Above(attrs[n].ty) \/ (o # <<>> /\ ~Above(o[1].ty)), "type")
        f == ErrIf(e, opt /\ ~attrs[n].opt, "optional")
    IN IF st[1] \notin {"attr", "unify"} THEN k
       ELSE Give(ErrIf(f, ix # <<>> /\ ~ix.other /\ ~Above(ix.type), "index"), attrs)
AddMixin(k, s) ==
    LET m == resolve_var(ErrIf(k, ~IsMixin(s), "mixin"), s, FALSE) IN
    IF m.t[1] = "schema" /\ ~m.t[3] /\ m.S[m.t[2]].mixin THEN Give(m, k.t @@ m.S[m.t[2]].attrs) ELSE Give(Err(m, "inherit"), k.t)
build_schema_type(k, s, d) ==
    LET p == build_schema_parent_type(k, d)
        names == Names(StoresOf(d.body))
        i == ErrIf(p, d.index # <<>> /\ d.index.key \in names, "index")
        x == upgrade_named_ty(i, IF d.index = <<>> THEN AnyT ELSE d.index.type)
        ix == IF d.index = <<>> THEN <<>> ELSE [d.index EXCEPT !.type = x.t]
        settings == SETTINGS :> [ty |-> DictOf(Prim("str"), AnyT), opt |-> TRUE]
        Entered(m, parent, sig) ==
            LET new == [base |-> parent, mixin |-> IsMixin(s), attrs |-> m.t, index |-> sig,
                        params |-> [j \in DOMAIN d.args |-> [name |-> d.args[j], ty |-> AnyT]]]
            IN insert_object([ErrIf(m, Names(d.args) \cap names # {}, "parameter") EXCEPT !.S = (s :> new) @@ @],
                             s, <<"schema", s, FALSE>>)
        Attrs(q, parent, sig) ==
            Entered(Thru(d.mixins, Thru(d.body, Give(q, settings), LAMBDA w, st : AddAttr(w, st, parent, sig)), AddMixin), parent, sig)
    IN Attrs(x, p.t, ix)
\* The schemas stand in the order of the sequence order.
init_global_types(p, order) ==
    LET All(F(_)) == Thru(order, <<>>, LAMBDA f, s : (s :> F(s)) @@ f)
        k0 == [sc |-> <<All(LAMBDA s : <<"schema", s, FALSE>>)>>, S |-> All(LAMBDA s : [NoSchema EXCEPT !.mixin = IsMixin(s)]),
               lv |-> {}, gl |-> {}, errs |-> {}, cur |-> <<>>, cx |-> <<>>, t |-> AnyT]
        Scan(k, i) == Thru(order, k, LAMBDA q, s : TypeOf(<<"declare", s, p.schemas[s]>>, q))
    IN init_scope_with_stmts(Thru(<<1, 2, 3>>, init_scope_with_stmts(k0, p.stmts, TRUE), Scan), p.stmts, FALSE)
\* The schemas stand before the other statements of the program.
check_program(p, order) ==
    TypeStmts(Thru(order, init_global_types(p, order), LAMBDA q, s : TypeOf(<<"schema stmt", s, p.schemas[s]>>, q)), p.stmts)

\* The resolver's walk over expressions and the other nodes of the tree.
TypeOf(e, k) ==
    CASE e[1] \in {"int", "float", "str", "bool", "none", "undefined"} -> type_literal(k, e)
      [] e[1] = "name"   -> resolve_var(k, e[2], FALSE)
      [] e[1] = "if"     -> type_if_expr(k, e)
      [] e[1] \in {"and", "or"} -> type_binary_expr(k, e[1], e[2], e[3])
      [] e[1] = "bin"    -> type_binary_expr(k, e[2], e[3], e[4])
      [] e[1] = "unary"  -> LET p == TypeOf(e[3], k) IN unary(p, p.t, e[2])
      [] e[1] = "cmp"    -> type_compare(k, e)
      [] e[1] = "attr"   -> LET p == TypeOf(e[2], k) IN type_of_attr(p, p.t, e[3])
      [] e[1] = "sub"    -> type_subscript(k, e[2], e[3])
      [] e[1] = "slice"  -> type_slice(k, e[2], e[3])
      [] e[1] = "list"   -> type_list_expr(k, e[2])
      [] e[1] = "star"   -> type_starred_expr(k, e[2])
      [] e[1] = "listif" -> type_list_if_item_expr(k, e)
      [] e[1] = "config" -> type_config_entries(k, e[2])
      [] e[1] = "cfgif"  -> type_config_if_entry_expr(k, e)
      [] e[1] = "listcomp" -> type_list_comp(k, e[2], e[3])
      [] e[1] = "dictcomp" -> type_dict_comp(k, e[2], e[3], e[5])
      [] e[1] = "quant"  -> type_quant_expr(k, e)
      [] e[1] = "schema" -> type_schema_expr(k, e[2], e[3], e[4], e[5])
      [] e[1] = "call"   -> type_call(resolve_var(k, e[2], FALSE), e[3])
      [] e[1] = "method" -> LET p == TypeOf(e[2], k) IN type_call(type_of_attr(p, p.t, e[3]), e[4])
      [] e[1] = "entry"  -> type_config_entry(k, e[2])
      [] e[1] = "clause" -> type_comp_clause(k, e[2])
      [] e[1] = "stmt"   -> type_stmt(k, e[2])
      [] e[1] = "schema stmt" -> resolve_schema_stmt(k, e[2], e[3])
      [] e[1] = "declare" -> build_schema_type(k, e[2], e[3])
      [] e[1] = "program" -> check_program(e[2], e[3])
check(p) == TypeOf(<<"program", p, Seqs!SetToSeq(DOMAIN p.schemas)>>, <<>>)
=============================================================================
