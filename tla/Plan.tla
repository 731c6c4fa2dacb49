-------------------------------- MODULE Plan --------------------------------
(* How the results of a run become documents (globals_to_json_str of the     *)
(* generator, runtime/src/value/val_plan.rs).  The globals are first written *)
(* as one JSON text, then read back, where a schema has become a dict with   *)
(* __settings__, and divided into documents.  A planned value is a tree:     *)
(* <<"dict", <<<<key, tree>>, ...>>>>, <<"list", trees>> or a cell.          *)
EXTENDS PreProcess

SETTINGS == "__settings__"
IsPrivate(k) == Len(k) > 0 /\ SubSeq(k, 1, 1) = "_"

\* The global names in the order in which the generator meets them.
GlobalNames(m) ==
    LET first == SelectSeq(StoresOf(m.p.stmts), LAMBDA n : n \in m.p.pre)
        later == SelectSeq(StoresOf(m.p.stmts), LAMBDA n : n \notin m.p.pre /\ n \in DOMAIN m.sc[1].v)
        D[i \in 0..Len(first \o later)] == IF i = 0 THEN <<>> ELSE AppendNew(D[i - 1], (first \o later)[i])
    IN D[Len(first \o later)]

Globals(m) == Run(<<"globals", SelectSeq(GlobalNames(m), LAMBDA n : ~IsPrivate(n))>>, m)

\* The method filter_results, and the JSON text of its result.
RECURSIVE Tree(_, _, _)
Tree(H, a, o) ==
    LET c == H[a]
        Kept(x, inSchema) == H[x][1] \notin {"undefined", "func"} /\ (o.disableNone /\ ~inSchema => H[x][1] # "none")
        D == c[2]
    IN CASE c[1] = "list" ->
              LET q == SelectSeq(c[2], LAMBDA x : Kept(x, FALSE)) IN <<"list", [i \in DOMAIN q |-> Tree(H, q[i], o)]>>
         [] IsConfig(c) ->
              LET q == SelectSeq(D.k, LAMBDA k : Kept(D.v[k], c[1] = "schema"))
              IN <<"dict", [i \in DOMAIN q |-> <<q[i], Tree(H, D.v[q[i]], o)>>]>>
         [] OTHER -> c

Entry(t, k) == {t[2][i][2] : i \in {i \in DOMAIN t[2] : t[2][i][1] = k}}
HasSettings(t) == t[1] = "dict" /\ Entry(t, SETTINGS) # {}
OutputType(t) == {x[2] : x \in UNION {Entry(s, "output_type") : s \in {s \in Entry(t, SETTINGS) : s[1] = "dict"}}}
PlannedEmpty(t) == t = <<"dict", <<>>>>

\* Documents so far: a sequence, the first one the inline result.
PutInline(docs, k, t) == [docs EXCEPT ![1] = <<"dict", Append(@[2], <<k, t>>)>>]
NonEmpty(docs) == LET q == SelectSeq(Tail(docs), LAMBDA t : ~PlannedEmpty(t)) IN <<docs[1]>> \o q

RECURSIVE filter_results(_, _)
\* Ignored instances are shown like the others.
ShowIgnored(t, o) == <<filter_results(t, o), "STANDALONE" \in OutputType(t)>>
\* <<documents, standalone>> of an instance.
handle_schema(t, o) ==
    LET f == filter_results(t, o) IN
    CASE "IGNORE" \in OutputType(t) -> <<Tail(f), TRUE>>
      [] OTHER -> <<f, "STANDALONE" \in OutputType(t)>>

\* A list: [in: elements that stay, out: documents of their own, more: those of
\* lists inside, ignored].  What an instance in a list derives stays in the list.
PlanElement(acc, t, o) ==
    LET Instance(h) == CASE h[1] = <<>> -> [acc EXCEPT !.ignored = @ + 1]
                         [] h[2] -> [acc EXCEPT !.out = @ \o h[1]]
                         [] OTHER -> [acc EXCEPT !.in = @ \o h[1]]
        Other(l) == [acc EXCEPT !.in = LET e == Entry(l[1], "$") IN IF e = {} THEN @ ELSE Append(@, CHOOSE x \in e : TRUE),
                                !.more = @ \o Tail(l)]
    IN CASE HasSettings(t) -> Instance(handle_schema(t, o))
         [] t[1] = "dict" -> [acc EXCEPT !.in = @ \o filter_results(t, o)]
         [] t[1] = "none" /\ o.disableNone -> acc
         [] OTHER -> Other(filter_results(<<"dict", <<<<"$", t>>>>>>, o))
PlanList(docs, k, t, o) ==
    LET q == t[2]
        A[i \in 0..Len(q)] == IF i = 0 THEN [in |-> <<>>, out |-> <<>>, more |-> <<>>, ignored |-> 0]
                              ELSE LET was == A[i - 1] IN PlanElement(was, q[i], o)
        With(acc) == (IF (q = <<>> /\ o.planEmptyList) \/ acc.ignored + Len(acc.out) < Len(q)
                      THEN PutInline(docs \o acc.more, k, <<"list", acc.in>>) ELSE docs \o acc.more) \o acc.out
    IN With(A[Len(q)])
PlanEntry(docs, k, t, o) ==
    LET Instance(h) == CASE h[1] = <<>> -> docs
                         [] h[2] -> docs \o h[1]
                         [] OTHER -> PutInline(docs, k, h[1][1]) \o Tail(h[1])
        Inline(f) == PutInline(docs, k, f[1]) \o Tail(f)
    IN CASE IsPrivate(k) \/ (t[1] = "none" /\ o.disableNone) -> docs
         [] HasSettings(t) -> Instance(handle_schema(t, o))
         [] t[1] = "dict" -> Inline(filter_results(t, o))
         [] t[1] = "list" -> PlanList(docs, k, t, o)
         [] OTHER -> PutInline(docs, k, t)
\* The function filter_results: the documents of a value.
filter_results(t, o) ==
    CASE t[1] = "list" -> LET J[i \in 0..Len(t[2])] == IF i = 0 THEN <<>> ELSE J[i - 1] \o filter_results(t[2][i], o)
                          IN J[Len(t[2])]
      [] t[1] = "dict" -> LET D[i \in 0..Len(t[2])] ==
                                  IF i = 0 THEN <<<<"dict", <<>>>>>>
                                  ELSE LET was == D[i - 1] IN PlanEntry(was, t[2][i][1], t[2][i][2], o)
                          IN NonEmpty(D[Len(t[2])])
      [] OTHER -> <<>>

\* plan: the documents of the value read back; a scalar is one by itself.
Documents(t, o) ==
    CASE t[1] = "undefined" \/ PlannedEmpty(t) -> <<>>
      [] t[1] \in {"list", "dict"} -> filter_results(t, o)
      [] OTHER -> <<t>>
=============================================================================
