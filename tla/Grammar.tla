------------------------------ MODULE Grammar ------------------------------
(***************************************************************************)
(* Every short text over a small vocabulary, read by the parser, written   *)
(* by the formatter and read again.  A theme is what surrounds the text    *)
(* (pre, post), its pieces (a token or a line each) and how many of them   *)
(* may follow each other.  The properties are about the step that writes   *)
(* the last piece: Source' is the text after it.                           *)
(***************************************************************************)
EXTENDS Walker, Ast

CONSTANT Themes

VARIABLES theme, pieces, text

vars == <<theme, pieces, text>>

Init == /\ theme \in Themes
        /\ pieces = 0
        /\ text = <<>>

Write == /\ pieces < theme.max
         /\ \E piece \in theme.pieces : text' = text \o piece
         /\ pieces' = pieces + 1
         /\ UNCHANGED theme

Next == Write

Spec == Init /\ [][Next]_vars

-----------------------------------------------------------------------------
Source == theme.pre \o text \o theme.post

\* The strength of the operator an expression is made with; an expression
\* without one binds more than any operator.
Strength(n) ==
    CASE n[1] = "Binary"  -> Precedence(n[3])
      [] n[1] = "Compare" -> LET op == n[4][Len(n[4])] IN
                             Precedence(IF op = "not in" THEN "in" ELSE IF op = "is not" THEN "is" ELSE op)
      [] n[1] = "If"      -> 0
      [] OTHER            -> 16

RECURSIVE WellBound(_)
WellBound(n) ==
    CASE n[1] = "Binary" ->
           /\ Strength(n[4]) >= Strength(n) /\ Strength(n[5]) > Strength(n)
           /\ WellBound(n[4]) /\ WellBound(n[5])
      [] n[1] = "Compare" ->
           /\ WellBound(n[3]) /\ \A k \in DOMAIN n[5] : WellBound(n[5][k])
           /\ \A k \in DOMAIN n[5] : Strength(n[5][k]) > Strength(<<"Compare", 0, 0, <<n[4][k]>>>>)
           /\ Strength(n[3]) >= Strength(<<"Compare", 0, 0, <<n[4][1]>>>>)
      [] n[1] = "If" -> WellBound(n[3]) /\ WellBound(n[4]) /\ WellBound(n[5])
      [] n[1] \in {"Paren", "Starred"} -> WellBound(n[3])
      [] n[1] = "Unary" -> WellBound(n[4])
      [] OTHER -> TRUE

\* do_parse_simple_expr climbs precedences: in the tree of an accepted
\* expression an operator's right operand binds tighter than the operator and
\* its left operand at least as tight, whatever order the operators came in.
OperatorsBind(src) ==
    LET r == Parse(src, FALSE) IN
    Accepted(r) =>
        \A k \in DOMAIN r.module.body :
            r.module.body[k][1] = "Assign" => WellBound(r.module.body[k][4])

ReadIfAccepted(src) ==
    LET r == Parse(src, FALSE) IN r.e = 0 => r.h = "" /\ r.i = Len(Lex(src).t)
\* A source the parser reports no error for is one it comes back from, with
\* every token read: the loops that discard nothing (parse_parameters,
\* parse_mixins, parse_block_stmt_list, parse_if_item_exec_block) are reached
\* only after an error.
AcceptedIsRead == [][\A src \in {Source'} : ReadIfAccepted(src)]_vars

Count(t, s) == Cardinality({k \in DOMAIN s : s[k] = t})
IsWord(t) == /\ IsIdent(t) \/ t \in {"1", "2", "'s'", "'d'"}
             /\ t \notin Keywords \cup Comments \cup {"\n", "\t"}

\* The source with the text of interpolations in place of their strings.
Spelled(src) == LET tokens(t) == IF Interpolation(t) = <<>> THEN <<t>> ELSE Interpolation(t) IN each(tokens, src)

\* parse_compound_stmt forgets decorators that no schema, rule or attribute follows.
StrayDecorator(src) ==
    \E k \in 1..(Len(src) - 3) :
        src[k] = "@" /\ src[k + 2] = "\n" /\ src[k + 3] \notin {"@", "schema", "rule", "\t"}

\* A name or literal of an accepted source stands as often in the tree as in
\* the text: the walkers come to it, or it is declared, imported or a type.
EveryWordInTree(src) ==
    LET r == Parse(src, FALSE)
        tree == Walked(r.module) \o Declared(r.module)
    IN Accepted(r) /\ ~StrayDecorator(src) =>
           \A k \in DOMAIN src :
               IsWord(src[k]) => Count(src[k], Spelled(src)) = Count(src[k], tree)

\* What the parser gives, for a source with errors too, is a tree of ast.rs:
\* every operator, operand and statement is of the sort its node declares.
TreeOK(src) == LET m == Parse(src, FALSE).module IN Is("names", m.doc) /\ Is("stmt*", m.body)

\* Whatever is written, the tree that parse_file gives is one of ast.rs, has every
\* word of the source, and its operators bind by their precedence.
TreeExact ==
    [][\A src \in {Source'} : TreeOK(src) /\ EveryWordInTree(src) /\ OperatorsBind(src)]_vars

\* walk_if_stmt writes the first statement of such an else only.
RECURSIVE ElseCut(_)
ElseCut(body) ==
    \E k \in DOMAIN body :
        /\ body[k][1] = "IfStmt"
        /\ LET else == body[k][5] IN
           \/ Len(else) > 1 /\ else[1][1] = "IfStmt"
           \/ ElseCut(body[k][4]) \/ ElseCut(else)

\* parse_selector_expr reads a dot without a name and reports nothing.
DanglingDot(src) == \E k \in 1..(Len(src) - 1) : src[k] = "." /\ ~IsIdent(src[k + 1])

\* What the formatter is known to get wrong.
Excepted(src) == ElseCut(Parse(src, FALSE).module.body) \/ DanglingDot(src)

\* format_source rewrites the layout and nothing else: what it writes is
\* accepted, and is the program that was read.  The forms of
\* Excepted are left out.
FormatKeepsMeaning(src) ==
    LET r == Parse(src, FALSE)
        f == format_source(src)
        again == Parse(f.out, TRUE)
    IN Accepted(r) /\ ~Excepted(src) =>
           ~f.panic /\ Accepted(again) /\ again.module = Parse(src, TRUE).module

Texts(comments) == [k \in DOMAIN comments |-> comments[k][1]]

\* The printer takes comments out of a queue by line numbers, before the
\* nodes that stand below them: none is lost, doubled or overtaken by another.
CommentsKept(src) ==
    LET r == Parse(src, FALSE) IN
    Accepted(r) => Texts(Lex(format_source(src).out).comments) = Texts(r.comments)

\* Formatting a formatted source changes nothing (format_source reports
\* whether it did).
FormatIsStable(src) ==
    LET r == Parse(src, FALSE)
        f == format_source(src).out
    IN Accepted(r) /\ ~Excepted(src) => format_source(f).out = f

\* Whatever is written, format_source keeps the program and its comments and is
\* done in one pass.
FormatExact ==
    [][\A src \in {Source'} :
          FormatKeepsMeaning(src) /\ CommentsKept(src) /\ FormatIsStable(src)]_vars
=============================================================================
