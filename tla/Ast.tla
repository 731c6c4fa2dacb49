-------------------------------- MODULE Ast --------------------------------
(***************************************************************************)
(* The shapes of kclvm/ast/src/ast.rs.  A node is a tuple: its kind, its   *)
(* line and its fields; the tables give the sort of every field.  A sort   *)
(* ending in * is a sequence, in ? an option (a sequence of at most one).  *)
(***************************************************************************)
EXTENDS Integers, Sequences, FiniteSets

\* Expr and the nodes that are operators applied to operands.
OperandFields ==
    [Identifier |-> <<"names">>,
     Unary      |-> <<"unary op", "expr">>,
     Binary     |-> <<"bin op", "expr", "expr">>,
     If         |-> <<"expr", "expr", "expr">>,
     Selector   |-> <<"expr", "names", "bool">>,
     Call       |-> <<"expr", "expr*", "keyword*">>,
     Paren      |-> <<"expr">>,
     Quant      |-> <<"quant op", "names*", "expr", "expr", "expr?">>]

\* Lists, configs, comprehensions, schema instances, lambdas.
ContainerFields ==
    [List          |-> <<"expr*">>,
     ListIfItem    |-> <<"expr", "expr*", "expr?">>,
     ListComp      |-> <<"expr", "clause*">>,
     Starred       |-> <<"expr">>,
     DictComp      |-> <<"entry", "clause*">>,
     ConfigIfEntry |-> <<"expr", "entry*", "expr?">>,
     Schema        |-> <<"names", "expr*", "keyword*", "expr">>,
     Config        |-> <<"entry*">>,
     Lambda        |-> <<"arguments?", "type?", "stmt*">>]

\* Subscripts, comparisons, literals and the placeholder of a missing expression.
LiteralFields ==
    [Subscript |-> <<"expr", "expr?", "slots", "bool">>,
     Compare   |-> <<"expr", "cmp op*", "expr*">>,
     Number    |-> <<"text">>,
     Str       |-> <<"text">>,
     Const     |-> <<"constant">>,
     Joined    |-> <<"expr", "bool">>,
     Missing   |-> <<>>]

SimpleStmtFields ==
    [TypeAlias   |-> <<"names", "type">>,
     ExprStmt    |-> <<"expr*">>,
     Unification |-> <<"names", "expr">>,
     Assign      |-> <<"names*", "expr", "type?">>,
     AugAssign   |-> <<"names", "aug op", "expr">>,
     Assert      |-> <<"expr", "expr?", "expr?">>,
     IfStmt      |-> <<"expr", "stmt*", "stmt*">>,
     Import      |-> <<"names", "names", "names?">>]

SchemaFields ==
    [SchemaAttr |-> <<"names", "type", "assign op?", "expr?", "bool", "call*">>,
     SchemaStmt |-> <<"schema", "schema body">>,
     Rule       |-> <<"rule">>]

BinOp   == {"+", "-", "*", "/", "%", "**", "//", "<<", ">>", "^", "&", "|", "and", "or", "as"}
AugOp   == {"=", "+=", "-=", "*=", "/=", "%=", "**=", "//=", "<<=", ">>=", "^=", "&=", "|="}
UnaryOp == {"+", "~", "-", "not"}
CmpOp   == {"==", "!=", "<", "<=", ">", ">=", "is", "in", "not in", "is not"}
NameConstant   == {"True", "False", "None", "Undefined"}
QuantOperation == {"all", "any", "filter", "map"}
ConfigEntryOperation == {"Union", "Override", "Insert"}

\* Types.
TypeFields ==
    [Any |-> <<>>, Named |-> <<"names">>, Basic |-> <<"text">>, Literal |-> <<"text">>,
     ListType |-> <<"type?">>, DictType |-> <<"type?", "type?">>, UnionType |-> <<"type*">>]

-----------------------------------------------------------------------------
AllFields(x, table, from) ==
    LET kinds == table[x[1]] IN
    <<Len(x) = Len(kinds) + from, {<<kinds[k], x[k + from]>> : k \in 1..Len(kinds)}>>

\* The optional and the repeated sorts, with the sort of their elements.
Repeated ==
    [s \in {"expr*", "names*", "keyword*", "clause*", "entry*", "stmt*", "type*", "call*", "cmp op*", "check*",
            "parameter*"} |->
        CASE s = "expr*" -> "expr" [] s = "names*" -> "names" [] s = "keyword*" -> "keyword"
          [] s = "clause*" -> "clause" [] s = "entry*" -> "entry" [] s = "stmt*" -> "stmt"
          [] s = "type*" -> "type" [] s = "call*" -> "call" [] s = "cmp op*" -> "cmp op"
          [] s = "check*" -> "check" [] s = "parameter*" -> "parameter"]
Optional ==
    [s \in {"expr?", "type?", "names?", "arguments?", "assign op?", "signature?"} |->
        CASE s = "expr?" -> "expr" [] s = "type?" -> "type" [] s = "names?" -> "names"
          [] s = "arguments?" -> "parameter*" [] s = "assign op?" -> "aug op" [] s = "signature?" -> "signature"]
Symbols ==
    [s \in {"unary op", "bin op", "cmp op", "aug op", "quant op", "constant", "entry op"} |->
        CASE s = "unary op" -> UnaryOp [] s = "bin op" -> BinOp [] s = "cmp op" -> CmpOp [] s = "aug op" -> AugOp
          [] s = "quant op" -> QuantOperation [] s = "constant" -> NameConstant
          [] s = "entry op" -> ConfigEntryOperation]

\* The nodes that are no expression and no statement, as fields: Keyword,
\* CompClause, ConfigEntry, CheckExpr, Arguments, SchemaIndexSignature and the
\* slots of a slice.
Parts(sort, x) ==
    CASE sort = "keyword"   -> {<<"names", x[1]>>, <<"expr", x[2]>>}
      [] sort = "call"      -> {<<"expr", x[1]>>, <<"expr*", x[2]>>, <<"keyword*", x[3]>>}
      [] sort = "clause"    -> {<<"names*", x[1]>>, <<"expr", x[2]>>, <<"expr*", x[3]>>}
      [] sort = "entry"     -> {<<"expr?", x[3]>>, <<"expr", x[4]>>, <<"entry op", x[5]>>}
      [] sort = "check"     -> {<<"expr", x[3]>>, <<"expr?", x[4]>>, <<"expr?", x[5]>>}
      [] sort = "parameter" -> {<<"names", x[1]>>, <<"type?", x[2]>>, <<"expr?", x[3]>>}
      [] sort = "signature" -> {<<"names?", x[1]>>, <<"type", x[2]>>, <<"bool", x[3]>>, <<"type", x[4]>>, <<"expr?", x[5]>>}
      [] sort = "slots"     -> {<<"expr?", x[k]>> : k \in 1..3}

\* SchemaStmt and RuleStmt.
Declaration(sort, x) ==
    CASE sort = "schema"      -> {<<"names", x.name>>, <<"arguments?", x.args>>, <<"names?", x.parent>>, <<"names?", x.host>>,
                                  <<"call*", x.decorators>>, <<"bool", x.mixin>>, <<"bool", x.protocol>>}
      [] sort = "schema body" -> {<<"names", x.doc>>, <<"names*", x.mixins>>, <<"stmt*", x.body>>, <<"signature?", x.sig>>,
                                  <<"check*", x.checks>>}
      [] sort = "rule"        -> {<<"names", x.name>>, <<"arguments?", x.args>>, <<"names*", x.parents>>, <<"names?", x.host>>,
                                  <<"call*", x.decorators>>, <<"names", x.doc>>, <<"check*", x.checks>>}

ExprFields == [k \in DOMAIN OperandFields \cup DOMAIN ContainerFields \cup DOMAIN LiteralFields |->
                  IF k \in DOMAIN OperandFields THEN OperandFields[k]
                  ELSE IF k \in DOMAIN ContainerFields THEN ContainerFields[k] ELSE LiteralFields[k]]
StmtFields == [k \in DOMAIN SimpleStmtFields \cup DOMAIN SchemaFields |->
                  IF k \in DOMAIN SimpleStmtFields THEN SimpleStmtFields[k] ELSE SchemaFields[k]]

\* x is a value of the sort.
RECURSIVE Is(_, _)
Is(sort, x) ==
    LET node(table, from) ==
            /\ x[1] \in DOMAIN table
            /\ AllFields(x, table, from)[1]
            /\ \A f \in AllFields(x, table, from)[2] : Is(f[1], f[2])
    IN CASE sort \in DOMAIN Repeated -> \A k \in 1..Len(x) : Is(Repeated[sort], x[k])
         [] sort \in DOMAIN Optional -> Len(x) <= 1 /\ \A k \in 1..Len(x) : Is(Optional[sort], x[k])
         [] sort \in DOMAIN Symbols  -> x \in Symbols[sort]
         [] sort = "names" -> \A k \in 1..Len(x) : x[k] \in STRING
         [] sort = "text"  -> x \in STRING
         [] sort = "bool"  -> x \in BOOLEAN
         [] sort = "expr"  -> node(ExprFields, 2)
         [] sort = "stmt"  -> node(StmtFields, 2)
         [] sort = "type"  -> node(TypeFields, 1)
         [] sort \in {"schema", "schema body", "rule"} -> \A f \in Declaration(sort, x) : Is(f[1], f[2])
         [] OTHER -> \A f \in Parts(sort, x) : Is(f[1], f[2])
=============================================================================
