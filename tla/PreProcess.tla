----------------------------- MODULE PreProcess -----------------------------
(* What happens to the syntax tree of a program before it is checked and     *)
(* compiled (sema/src/pre_process): key paths in configs are nested, and the *)
(* configs given to one name are merged into its last declaration.  A config *)
(* entry with the key <<"path", names, index>> has several names; the others *)
(* are those of Codegen.                                                     *)
EXTENDS Codegen

\* walk_config_entry: {a.b.c = 1} becomes {a: {b: {c = 1}}}; the innermost entry
\* keeps the operator, and the index is that of the outermost.
NestEntry(e) ==
    IF e[1][1] # "path" THEN e
    ELSE LET ns == e[1][2]
             n  == Len(ns)
             V[i \in 1..n] == \* the value under the i-th name from the end
                 IF i = 1 THEN e[3]
                 ELSE <<"config", <<<<<<"id", ns[n - i + 2], -1>>, IF i = 2 THEN e[2] ELSE "union", V[i - 1]>>>>>>
         IN <<<<"id", ns[1], e[1][3]>>, IF n = 1 THEN e[2] ELSE "union", V[n]>>
\* Where an expression of a kind holds expressions, and sequences of them.
ExprsAt == [unary |-> {3}, bin |-> {3, 4}, cmp |-> {2}, and |-> {2, 3}, or |-> {2, 3}, if |-> {2, 3, 4}, attr |-> {2},
            sub |-> {2, 3}, slice |-> {2}, star |-> {2}, listif |-> {2, 4}, cfgif |-> {4}, listcomp |-> {2},
            dictcomp |-> {2, 3}, quant |-> {4, 5, 6}, schema |-> {5}, method |-> {2}]
SeqsAt  == [cmp |-> {4}, slice |-> {3}, list |-> {2}, listif |-> {3}, schema |-> {3}, call |-> {3}, method |-> {4}]
\* fix_config_expr_nest_attr of an expression: every one inside it is visited but
\* the keys of configs and the condition of an if entry.
RECURSIVE NestAttrs(_)
NestAttrs(e) ==
    LET Nested(x, ps) == [i \in DOMAIN x |-> IF i \in ps THEN NestAttrs(x[i]) ELSE x[i]]
        Each1(q, ps) == [i \in DOMAIN q |-> Nested(q[i], ps)]
        Part(i) ==
            CASE i \in Get(ExprsAt, e[1], {}) -> NestAttrs(e[i])
              [] i \in Get(SeqsAt, e[1], {}) -> [j \in DOMAIN e[i] |-> NestAttrs(e[i][j])]
              [] <<e[1], i>> \in {<<"config", 2>>, <<"cfgif", 3>>} ->
                   Each1([j \in DOMAIN e[i] |-> NestEntry(e[i][j])], {3})
              [] <<e[1], i>> \in {<<"listcomp", 3>>, <<"dictcomp", 5>>} -> Each1(e[i], {2, 3})
              [] <<e[1], i>> = <<"schema", 4>> -> Each1(e[i], {2})
              [] OTHER -> e[i]
    IN [i \in DOMAIN e |-> Part(i)]
\* The same of statements and of schemas.
StmtExprsAt == [assign |-> {4}, aug |-> {5}, unify |-> {4}, set |-> {5}, attr |-> {6}, assert |-> {3, 4}, if |-> {3}, expr |-> {3}]
RECURSIVE NestStmts(_)
NestStmts(stmts) ==
    LET Part(s, i) == CASE i \in StmtExprsAt[s[1]] -> NestAttrs(s[i])
                        [] s[1] = "if" /\ i \in {4, 5} -> NestStmts(s[i])
                        [] OTHER -> s[i]
    IN [j \in DOMAIN stmts |-> [i \in DOMAIN stmts[j] |-> Part(stmts[j], i)]]
NestSchema(d) ==
    [d EXCEPT !.defaults = [i \in DOMAIN @ |-> NestAttrs(@[i])],
              !.index = IF @ = <<>> THEN @ ELSE [@ EXCEPT !.value = NestAttrs(@)],
              !.checks = [i \in DOMAIN @ |-> [j \in DOMAIN @[i] |-> NestAttrs(@[i][j])]],
              !.body = NestStmts(@)]

\* unify_config_entries: the entries in the order of the first of each name;
\* `=` drops those of the name before it.  Keys that are no names share a bucket.
NoName == "$name_none"
BucketOf(e) == IF e[1][1] = "id" THEN e[1][2] ELSE IF e[1][1] = "expr" /\ e[1][2][1] = "str" THEN e[1][2][2] ELSE NoName
RECURSIVE unify_config_entries(_)
UnifyValue(v) ==
    CASE v[1] = "config" -> <<"config", unify_config_entries(v[2])>>
      [] v[1] = "schema" /\ v[5][1] = "config" -> [v EXCEPT ![5] = <<"config", unify_config_entries(@[2])>>]
      [] OTHER -> v
unify_config_entries(q) ==
    LET Buckets[i \in 0..Len(q)] ==
            IF i = 0 THEN <<>> ELSE AppendNew(Buckets[i - 1], BucketOf(q[i]))
        ns == Buckets[Len(q)]
        Kept(n) == LET F[i \in 0..Len(q)] ==
                           IF i = 0 THEN <<>>
                           ELSE IF BucketOf(q[i]) # n THEN F[i - 1]
                           ELSE IF q[i][2] = "override" THEN <<q[i]>>
                           ELSE Append(F[i - 1], q[i])
                   IN F[Len(q)]
        All[i \in 0..Len(ns)] == IF i = 0 THEN <<>> ELSE All[i - 1] \o Kept(ns[i])
        all == All[Len(ns)]
    IN [i \in DOMAIN all |-> [all[i] EXCEPT ![3] = UnifyValue(@)]]

\* merge_program: the declarations of a name are its unification statements and
\* its assignments of schema expressions, of which a public name has the first
\* and a private one only what follows its last.
DeclaredBy(s) ==
    CASE s[1] = "unify" -> {s[3]}
      [] s[1] = "assign" /\ s[4][1] = "schema" -> Names(s[3])
      [] OTHER -> {}
Declarations(stmts, n) ==
    LET D[i \in 0..Len(stmts)] ==
            IF i = 0 THEN <<>>
            ELSE LET was == D[i - 1]
                     s == stmts[i]
                 IN CASE n \notin DeclaredBy(s) -> was
                      [] s[1] = "unify" \/ was = <<>> -> Append(was, i)
                      [] SubSeq(n, 1, 1) = "_" -> <<i>>
                      [] OTHER -> was
    IN D[Len(stmts)]
\* Only the last declaration's own entries are kept.
MergeLast(stmts) ==
    LET Dead(i) == \E n \in DeclaredBy(stmts[i]) : \E j \in i + 1..Len(stmts) : n \in DeclaredBy(stmts[j])
        F[i \in 0..Len(stmts)] == IF i = 0 THEN <<>> ELSE IF Dead(i) THEN F[i - 1] ELSE Append(F[i - 1], stmts[i])
    IN F[Len(stmts)]
merge_program(stmts) ==
    LET ns == UNION {DeclaredBy(s) : s \in Names(stmts)}
        merged == {n \in ns : Len(Declarations(stmts, n)) > 1}
        Last(n) == Declarations(stmts, n)[Len(Declarations(stmts, n))]
        Items(n) == LET q == Declarations(stmts, n)
                        I[i \in 0..Len(q)] == IF i = 0 THEN <<>> ELSE I[i - 1] \o stmts[q[i]][4][5][2]
                    IN unify_config_entries(I[Len(q)])
        Merge(i) == LET N == {n \in merged : Last(n) = i} IN
                    IF N = {} THEN stmts[i]
                    ELSE [stmts[i] EXCEPT ![4][5] = <<"config", Items(CHOOSE n \in N : TRUE)>>]
        deleted == UNION {Names(Declarations(stmts, n)) \ {Last(n)} : n \in merged}
        F[i \in 0..Len(stmts)] == IF i = 0 THEN <<>>
                                  ELSE IF i \in deleted THEN F[i - 1] ELSE Append(F[i - 1], Merge(i))
    IN F[Len(stmts)]
pre_process_program(p) ==
    [p EXCEPT !.schemas = [n \in DOMAIN @ |-> NestSchema(@[n])], !.stmts = merge_program(NestStmts(@))]
=============================================================================
