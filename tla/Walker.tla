------------------------------- MODULE Walker -------------------------------
(***************************************************************************)
(* The default traversal of kclvm/ast/src/walker.rs, the same in its three *)
(* walkers: the names and literals it comes to, in order.  Passes that do  *)
(* not override a method (the identifier qualifier, the lints, the name    *)
(* mangler) see these names and no others.                                 *)
(***************************************************************************)
EXTENDS Printer

RECURSIVE walk(_), walk_body(_)

\* walk_list! and walk_if!: F of every element, an option being a sequence.
each(F(_), s) == LET RECURSIVE go(_)
                     go(k) == IF k > Len(s) THEN <<>> ELSE F(s[k]) \o go(k + 1)
                 IN go(1)
ids(names) == names

Keyword(k)    == k[1] \o walk(k[2])
Call(c)       == walk(c[1]) \o each(walk, c[2]) \o each(Keyword, c[3])
CompClauseUnfiltered(g) == each(ids, g[1]) \o walk(g[2])
CompClause(g) == each(ids, g[1]) \o walk(g[2]) \o each(walk, g[3])
Entry(e)      == each(walk, e[3]) \o walk(e[4])
Check(c)      == walk(c[3]) \o each(walk, c[4]) \o each(walk, c[5])

\* The names of all arguments, then their defaults.
Arguments(as) == LET name(a) == a[1]
                     default(a) == each(walk, a[3])
                 IN each(name, as) \o each(default, as)

\* The expressions with operands only.
Operands(n) ==
    CASE n[1] = "Unary"    -> walk(n[4])
      [] n[1] = "Binary"   -> walk(n[4]) \o walk(n[5])
      [] n[1] = "Compare"  -> walk(n[3]) \o each(walk, n[5])
      [] n[1] = "If"       -> walk(n[4]) \o walk(n[3]) \o walk(n[5])
      [] n[1] = "Selector" -> walk(n[3]) \o n[4]
      [] n[1] = "Call"     -> Call(<<n[3], n[4], n[5]>>)
      [] n[1] = "Subscript" -> walk(n[3]) \o each(walk, n[4])
                                 \o LET slot(s) == each(walk, s) IN each(slot, n[5])
      [] n[1] \in {"Paren", "Starred", "Joined"} -> walk(n[3])

\* Lists, configs and what contains them.
Containers(n) ==
    CASE n[1] = "List"     -> each(walk, n[3])
      [] n[1] = "ListIfItem" -> walk(n[3]) \o each(walk, n[4]) \o each(walk, n[5])
      [] n[1] = "ListComp" -> walk(n[3]) \o each(CompClause, n[4])
      [] n[1] = "DictComp" -> Entry(n[3]) \o each(CompClause, n[4])
      [] n[1] = "ConfigIfEntry" -> walk(n[3]) \o each(Entry, n[4]) \o each(walk, n[5])
      [] n[1] = "Config"   -> each(Entry, n[3])
      [] n[1] = "Schema"   -> n[3] \o each(walk, n[4]) \o each(Keyword, n[5]) \o walk(n[6])
      [] n[1] = "Quant"    -> walk(n[5]) \o each(ids, n[4]) \o walk(n[6]) \o each(walk, n[7])
      [] n[1] = "Lambda"   -> each(Arguments, n[3]) \o walk_body(n[5])

\* walk_expr.
walk(n) ==
    CASE n[1] = "Identifier" -> n[3]
      [] n[1] \in {"Number", "Str", "Const"} -> <<n[3]>>
      [] n[1] = "Missing" -> <<>>
      [] n[1] \in {"Unary", "Binary", "Compare", "If", "Selector", "Call", "Subscript", "Paren", "Starred", "Joined"} ->
           Operands(n)
      [] OTHER -> Containers(n)

\* A schema: parent, host, arguments, index signature, mixins, decorators,
\* checks and body; of the index signature only the value.
walk_schema(x, b) ==
    LET value(sig) == each(walk, sig[5])
    IN each(ids, x.parent) \o each(ids, x.host) \o each(Arguments, x.args) \o each(value, b.sig)
         \o each(ids, b.mixins) \o each(Call, x.decorators) \o each(Check, b.checks) \o walk_body(b.body)

walk_rule(x) ==
    each(ids, x.parents) \o each(Call, x.decorators) \o each(Check, x.checks)
      \o each(Arguments, x.args) \o each(ids, x.host)

Statement(n) ==
    CASE n[1] = "ExprStmt"    -> each(walk, n[3])
      [] n[1] = "Unification" -> n[3] \o walk(n[4])
      [] n[1] = "TypeAlias"   -> n[3]
      [] n[1] = "Assign"      -> each(ids, n[3]) \o walk(n[4])
      [] n[1] = "AugAssign"   -> n[3] \o walk(n[5])
      [] n[1] = "Assert"      -> Check(n)
      [] n[1] = "Import"      -> <<>>
      [] n[1] = "IfStmt"      -> walk(n[3]) \o walk_body(n[4]) \o walk_body(n[5])
      [] n[1] = "SchemaAttr"  -> each(Call, n[8]) \o each(walk, n[6])
      [] n[1] = "SchemaStmt"  -> walk_schema(n[3], n[4])
      [] n[1] = "Rule"        -> walk_rule(n[3])

walk_body(body) == each(Statement, body)

\* walk_module.
Walked(m) == walk_body(m.body)

-----------------------------------------------------------------------------
\* The names the tree holds that no walk comes to: what a statement declares
\* or imports, and types.
RECURSIVE DeclaredIn(_)
DeclaredIn(body) ==
    LET type(o) == IF o = <<>> THEN <<>> ELSE type_tokens(o[1])
        argtype(a) == type(a[2])
        argtypes(as) == each(argtype, as)
        sig(s) == each(ids, s[1]) \o type_tokens(s[2]) \o type_tokens(s[4])
        one(n) ==
          CASE n[1] = "TypeAlias"  -> type_tokens(n[4])
            [] n[1] = "Assign"     -> type(n[5])
                                        \o (IF n[4][1] = "Lambda" THEN each(argtypes, n[4][3]) \o type(n[4][4]) \o DeclaredIn(n[4][5]) ELSE <<>>)
            [] n[1] = "Import"     -> n[4] \o each(ids, n[5])
            [] n[1] = "IfStmt"     -> DeclaredIn(n[4]) \o DeclaredIn(n[5])
            [] n[1] = "SchemaAttr" -> n[3] \o type_tokens(n[4])
            [] n[1] = "SchemaStmt" -> n[3].name \o each(argtypes, n[3].args) \o n[4].doc \o each(sig, n[4].sig)
                                        \o DeclaredIn(n[4].body)
            [] n[1] = "Rule"       -> n[3].name \o each(argtypes, n[3].args) \o n[3].doc
            [] OTHER -> <<>>
    IN each(one, body)
Declared(m) == m.doc \o DeclaredIn(m.body)
=============================================================================
