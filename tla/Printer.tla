------------------------------ MODULE Printer ------------------------------
(***************************************************************************)
(* The AST printer of kclvm/ast_pretty, the formatter built on it, and the *)
(* lexer that reads what it writes.  A text is a sequence of tokens,       *)
(* comments, "\n" for a line end and "\t" for one step of indentation.     *)
(* A printer is a record: the text out, the indentation, the line last of  *)
(* the last node, the comments still to write, and panic.                  *)
(***************************************************************************)
EXTENDS Parser

Comments == {"#c", "#d"}

-----------------------------------------------------------------------------
(* From text to tokens, as module Lexer does it, for indentation by steps *)

Closer(o) == CASE o = "(" -> ")" [] o = "[" -> "]" [] o = "{" -> "}"

\* lex_indent, lex_token and eof; split_token_stream takes the comments out
\* and ends the last line.
Lex(src) ==
    LET RECURSIVE scan(_, _)
        scan(k, s) ==
            IF k > Len(src) THEN s
            ELSE LET c == src[k] IN
            scan(k + 1,
                 CASE c = "\n" -> [s EXCEPT !.t = Append(@, "NL"), !.ls = Append(@, s.line),
                                            !.line = @ + 1, !.start = TRUE, !.level = 0]
                   [] c = "\t" -> [s EXCEPT !.level = IF s.start THEN @ + 1 ELSE @]
                   [] c \in Comments -> [s EXCEPT !.comments = Append(@, <<c, s.line>>),
                                                  !.level = IF s.start THEN 0 ELSE @]
                   [] OTHER ->
                        LET top  == s.stack[Len(s.stack)]
                            keep == Cardinality({j \in 1..Len(s.stack) : s.stack[j] <= s.level})
                            ind  == IF ~s.start THEN <<>>
                                    ELSE IF s.level > top THEN <<"INDENT">>
                                    ELSE [j \in 1..(Len(s.stack) - keep) |-> "DEDENT"]
                            stack == IF ~s.start THEN s.stack
                                     ELSE IF s.level > top THEN Append(s.stack, s.level)
                                     ELSE SubSeq(s.stack, 1, keep)
                            bad   == s.start /\ stack[Len(stack)] # s.level
                            close == c \in {")", "]", "}"}
                            want  == IF close /\ s.delims # <<>> THEN Closer(s.delims[Len(s.delims)]) ELSE c
                            toks  == ind \o <<want>>
                        IN [s EXCEPT !.t = @ \o toks, !.ls = @ \o [j \in 1..Len(toks) |-> s.line],
                                     !.start = FALSE, !.stack = stack,
                                     !.delims = IF c \in Open THEN Append(@, c)
                                                ELSE IF close /\ @ # <<>> THEN SubSeq(@, 1, Len(@) - 1) ELSE @,
                                     !.e = @ + (IF bad THEN 1 ELSE 0)
                                             + (IF want # c \/ (close /\ s.delims = <<>>) THEN 1 ELSE 0)])
        z == scan(1, [t |-> <<>>, ls |-> <<>>, line |-> 1, start |-> FALSE, level |-> 0, stack |-> <<0>>,
                      delims |-> <<>>, comments |-> <<>>, e |-> 0])
        end == (IF z.start THEN <<>> ELSE <<"NL">>) \o [j \in 1..(Len(z.stack) - 1) |-> "DEDENT"]
                 \o (IF z.start /\ Len(z.stack) = 1 /\ z.t # <<>> THEN <<>> ELSE <<"NL">>) \o <<"EOF">>
    IN [t |-> z.t \o end, ls |-> z.ls \o [j \in 1..Len(end) |-> z.line],
        comments |-> z.comments, e |-> z.e]

\* parse_file: the module and whether there were errors, or the reason why
\* the parser never returns.  With bare, lines are forgotten.
Parse(src, bare) ==
    LET x == Lex(src)
        r == parse_module([t |-> x.t, ls |-> IF bare THEN [k \in 1..Len(x.t) |-> 0] ELSE x.ls,
                           i |-> 1, e |-> x.e, h |-> ""])
    IN [e |-> r[1].e, h |-> r[1].h, i |-> r[1].i, module |-> r[2],
        comments |-> IF bare THEN [k \in 1..Len(x.comments) |-> <<x.comments[k][1], 0>>] ELSE x.comments]

Accepted(r) == r.e = 0 /\ r.h = ""

-----------------------------------------------------------------------------
(* Writing *)

write(w, toks) == [w EXCEPT !.out = @ \o toks]
fill(w)        == write(w, [k \in 1..w.indent |-> "\t"])
enter(w)       == [w EXCEPT !.indent = @ + 1]
leave(w)       == [w EXCEPT !.indent = @ - 1]
newline_without_fill(w) == write(w, <<"\n">>)
write_newline(w) == fill(write(w, <<"\n">>))
writeln(w, t)    == write_newline(write(w, <<t>>))
IndentWithNewline(w) == write_newline(enter(w))
DedentWithNewline(w) == write_newline(leave(w))

comma(w) == write(w, <<",">>)

\* interleave!: F for each element of s, Sep between them.
interleave(w, Sep(_), F(_, _), s) ==
    LET RECURSIVE go(_, _)
        go(v, k) == IF k > Len(s) THEN v
                    ELSE go(F(IF k = 1 THEN v ELSE Sep(v), s[k]), k + 1)
    IN go(w, 1)

\* Whether a comment stands above the line.
has_comments_on_node(w, line) == w.comments # <<>> /\ w.comments[1][2] <= line

\* Every new line writes the comments that stand above it first.
write_ast_comments(w, line) ==
    LET RECURSIVE go(_)
        go(v) == IF has_comments_on_node(v, line)
                 THEN go(writeln([v EXCEPT !.comments = Tail(@)], v.comments[1][1])) ELSE v
    IN IF line > w.last THEN go([w EXCEPT !.last = line]) ELSE w

OpTokens(op) == IF op = "not in" THEN <<"not", "in">>
                ELSE IF op = "is not" THEN <<"is", "not">> ELSE <<op>>

RECURSIVE walk_expr(_, _), walk_stmt(_, _), type_tokens(_)

expr(w, n)   == walk_expr(write_ast_comments(w, n[2]), n)
stmt(w, n)   == walk_stmt(write_ast_comments(fill(w), n[2]), n)
stmts(w, ns) == LET none(v) == v IN interleave(w, none, stmt, ns)

\* An optional part: the token t and the expression.
option(w, t, o) == IF o = <<>> THEN w ELSE expr(write(w, <<t>>), o[1])

dotted(names) == LET RECURSIVE go(_)
                     go(k) == IF k > Len(names) THEN <<>>
                              ELSE (IF k = 1 THEN <<>> ELSE <<".">>) \o <<names[k]>> \o go(k + 1)
                 IN go(1)
walk_identifier(w, names) == write(w, dotted(names))

\* Type::to_string.
type_tokens(t) ==
    LET opt(o) == IF o = <<>> THEN <<>> ELSE type_tokens(o[1])
        RECURSIVE union(_, _)
        union(ts, k) == IF k > Len(ts) THEN <<>>
                        ELSE (IF k = 1 THEN <<>> ELSE <<"|">>) \o type_tokens(ts[k]) \o union(ts, k + 1)
    IN CASE t[1] = "Any" -> <<"any">>
         [] t[1] \in {"Basic", "Literal"} -> <<t[2]>>
         [] t[1] = "Named" -> dotted(t[2])
         [] t[1] = "ListType" -> <<"[">> \o opt(t[2]) \o <<"]">>
         [] t[1] = "DictType" -> <<"{">> \o opt(t[2]) \o <<":">> \o opt(t[3]) \o <<"}">>
         [] t[1] = "UnionType" -> union(t[2], 1)

-----------------------------------------------------------------------------
(* Expressions *)

walk_keyword(w, k) == expr(write(walk_identifier(w, k[1]), <<"=">>), k[2])

write_args_and_kwargs(w, args, kws) ==
    LET a == interleave(w, comma, expr, args)
    IN interleave(IF args # <<>> /\ kws # <<>> THEN comma(a) ELSE a, comma, walk_keyword, kws)

walk_arguments(w, as) ==
    LET one(v, a) == LET n == walk_identifier(v, a[1])
                         t == IF a[2] = <<>> THEN n ELSE write(n, <<":">> \o type_tokens(a[2][1]))
                     IN option(t, "=", a[3])
    IN interleave(w, comma, one, as)

walk_call_expr(w, func, args, kws) ==
    write(write_args_and_kwargs(write(expr(w, func), <<"(">>), args, kws), <<")">>)

walk_if_expr(w, n) ==
    expr(write(expr(write(expr(w, n[3]), <<"if">>), n[4]), <<"else">>), n[5])

walk_compare(w, n) ==
    LET RECURSIVE go(_, _)
        go(v, k) == IF k > Len(n[4]) THEN v ELSE go(expr(write(v, OpTokens(n[4][k])), n[5][k]), k + 1)
    IN go(expr(w, n[3]), 1)

\* Mutant: the question mark is not written back.
walk_subscript_plain(w, n) ==
    LET o == write(expr(w, n[3]), <<"[">>)
    IN write(IF n[4] # <<>> THEN expr(o, n[4][1]) ELSE write(o, <<":", ":">>), <<"]">>)

walk_subscript(w, n) ==
    LET o == write(expr(w, n[3]), (IF n[6] THEN <<"?">> ELSE <<>>) \o <<"[">>)
        slot(v, s) == IF s = <<>> THEN v ELSE expr(v, s[1])
        colon(v) == write(v, <<":">>)
        b == IF n[4] # <<>> THEN expr(o, n[4][1])
             ELSE slot(colon(slot(colon(slot(o, n[5][1])), n[5][2])), n[5][3])
    IN write(b, <<"]">>)

walk_quant_expr(w, n) ==
    LET v == write(interleave(write(w, <<n[3]>>), comma, walk_identifier, n[4]), <<"in">>)
        b == IndentWithNewline(write(expr(v, n[5]), <<"{">>))
    IN write(DedentWithNewline(option(expr(b, n[6]), "if", n[7])), <<"}">>)

\* Distinct lines of the elements, or comments above them, make it many lines.
on_one_line(w, ns) ==
    /\ Cardinality({ns[k][2] : k \in 1..Len(ns)}) <= 1
    /\ ~(ns # <<>> /\ \A k \in 1..Len(ns) : has_comments_on_node(w, ns[k][2]))

walk_list_expr(w, n) ==
    LET one == on_one_line(w, n[3]) /\ (n[3] = <<>> \/ n[3][1][1] # "ListIfItem")
        sep(v) == IF one THEN comma(v) ELSE write_newline(v)
        o == write(w, <<"[">>)
        b == interleave(IF one THEN o ELSE IndentWithNewline(o), sep, expr, n[3])
    IN write(IF one THEN b ELSE DedentWithNewline(b), <<"]">>)

walk_comp_clause(w, c) ==
    LET v == write(interleave(write(w, <<"for">>), comma, walk_identifier, c[1]), <<"in">>)
        RECURSIVE ifs(_, _)
        ifs(u, k) == IF k > Len(c[3]) THEN u ELSE ifs(expr(write(u, <<"if">>), c[3][k]), k + 1)
    IN ifs(expr(v, c[2]), 1)

walk_list_comp(w, n) ==
    LET none(v) == v
    IN write(interleave(expr(write(w, <<"[">>), n[3]), none, walk_comp_clause, n[4]), <<"]">>)

OpSymbol(op) == IF op = "Union" THEN ":" ELSE IF op = "Insert" THEN "+=" ELSE "="

\* A comprehension over an entry without key is a panic.
walk_dict_comp(w, n) ==
    LET none(v) == v
        e == n[3]
    IN IF e[3] = <<>> THEN [w EXCEPT !.panic = TRUE]
       ELSE LET k == expr(write(w, <<"{">>), e[3][1])
                v == expr(write(k, <<OpSymbol(e[5])>>), e[4])
            IN write(interleave(v, none, walk_comp_clause, n[4]), <<"}">>)

\* The two stars come before the comments of the value.
write_entry(w, e) ==
    IF e[3] # <<>>
    THEN expr(write(expr(w, e[3][1]), <<OpSymbol(e[5])>>), e[4])
    ELSE expr(IF e[4][1] = "ConfigIfEntry" THEN w ELSE write(w, <<"**">>), e[4])

\* "if", which makes an elif of an "el" it directly follows.
write_if(w) == LET n == Len(w.out) IN
               IF n > 0 /\ w.out[n] = "el" THEN [w EXCEPT !.out[n] = "elif"] ELSE write(w, <<"if">>)

\* The if of a list or a config, F writes an item: the else block is left
\* without a line end.
walk_if_item(w, n, else, F(_, _)) ==
    LET c == write(expr(write_if(w), n[3]), <<":">>)
        b == DedentWithNewline(interleave(IndentWithNewline(c), write_newline, F, n[4]))
        o == IF n[5] = <<>> THEN <<>> ELSE n[5][1]
    IN IF o = <<>> THEN b
       ELSE IF o[1] = else
       THEN leave(interleave(IndentWithNewline(write(b, <<"else", ":">>)), write_newline, F, o[3]))
       ELSE expr(write(b, <<"el">>), o)

walk_list_if_item_expr(w, n)    == walk_if_item(w, n, "List", expr)
walk_config_if_entry_expr(w, n) == walk_if_item(w, n, "Config", write_entry)

walk_config_expr(w, n) ==
    LET one == /\ on_one_line(w, n[3])
               /\ ~(Len(n[3]) = 1 /\ n[3][1][4][1] \in {"ConfigIfEntry", "Config", "Schema"})
        sep(v) == IF one THEN comma(v) ELSE write_newline(v)
        o == write(w, <<"{">>)
        b == interleave(IF one THEN o ELSE IndentWithNewline(o), sep, write_entry, n[3])
    IN IF n[3] = <<>> THEN write(o, <<"}">>)
       ELSE write(IF one THEN b ELSE DedentWithNewline(b), <<"}">>)

walk_schema_expr(w, n) ==
    LET i == walk_identifier(w, n[3])
        a == IF n[4] = <<>> /\ n[5] = <<>> THEN i
             ELSE write(write_args_and_kwargs(write(i, <<"(">>), n[4], n[5]), <<")">>)
    IN expr(a, n[6])

walk_check_expr(w, n) == option(option(expr(w, n[3]), "if", n[4]), ",", n[5])

walk_lambda_expr(w, n) ==
    LET a == IF n[3] = <<>> THEN write(w, <<"lambda">>)
             ELSE walk_arguments(write(w, <<"lambda">>), n[3][1])
        t == IF n[4] = <<>> THEN a ELSE write(a, <<"->">> \o type_tokens(n[4][1]))
        b == stmts(enter(newline_without_fill(write(t, <<"{">>))), n[5])
    IN write(DedentWithNewline(b), <<"}">>)

\* The string whose interpolation is the expression.
walk_joined_string(w, n) ==
    LET inner == expr([w EXCEPT !.out = <<>>], n[3]).out
                   \o (IF n[4] THEN <<":", "#json">> ELSE <<>>)
        same  == {s \in Strs \ {"'s'", "'d'", "'${}'"} : Interpolation(s) = inner}
    IN IF same = {} THEN [w EXCEPT !.panic = TRUE] ELSE write(w, <<CHOOSE s \in same : TRUE>>)

\* MutSelfTypedResultWalker::walk_expr for the printer.
walk_expr(w, n) ==
    CASE n[1] = "Identifier" -> walk_identifier(w, n[3])
      [] n[1] = "Missing" -> w
      [] n[1] \in {"Number", "Str", "Const"} -> write(w, <<n[3]>>)
      [] n[1] = "Joined" -> walk_joined_string(w, n)
      [] n[1] = "Unary" -> expr(write(w, <<n[3]>>), n[4])
      [] n[1] = "Binary" -> expr(write(expr(w, n[4]), <<n[3]>>), n[5])
      [] n[1] = "Compare" -> walk_compare(w, n)
      [] n[1] = "If" -> walk_if_expr(w, n)
      [] n[1] = "Selector" -> walk_identifier(write(expr(w, n[3]), IF n[5] THEN <<"?", ".">> ELSE <<".">>), n[4])
      [] n[1] = "Call" -> walk_call_expr(w, n[3], n[4], n[5])
      [] n[1] = "Paren" -> write(expr(write(w, <<"(">>), n[3]), <<")">>)
      [] n[1] = "Quant" -> walk_quant_expr(w, n)
      [] n[1] = "List" -> walk_list_expr(w, n)
      [] n[1] = "ListIfItem" -> walk_list_if_item_expr(w, n)
      [] n[1] = "ListComp" -> walk_list_comp(w, n)
      [] n[1] = "Starred" -> expr(write(w, <<"*">>), n[3])
      [] n[1] = "DictComp" -> walk_dict_comp(w, n)
      [] n[1] = "ConfigIfEntry" -> walk_config_if_entry_expr(w, n)
      [] n[1] = "Config" -> walk_config_expr(w, n)
      [] n[1] = "Schema" -> walk_schema_expr(w, n)
      [] n[1] = "Lambda" -> walk_lambda_expr(w, n)
      [] n[1] = "Subscript" -> walk_subscript(w, n)

-----------------------------------------------------------------------------
(* Statements *)

write_decorators(w, ds) ==
    LET one(v, d) == walk_call_expr(write(v, <<"@">>), d[1], d[2], d[3])
        v == interleave(w, write_newline, one, ds)
    IN IF ds = <<>> THEN w ELSE write_newline(v)

\* An else that begins with an if is written as elif, and what follows that
\* if in the else is not written.
walk_if_stmt(w, n) ==
    LET RECURSIVE go(_, _)
        go(v, m) ==
            LET c == newline_without_fill(write(expr(write_if(v), m[3]), <<":">>))
                b == leave(stmts(enter(c), m[4]))
            IN IF m[5] = <<>> THEN newline_without_fill(b)
               ELSE IF m[5][1][1] = "IfStmt" THEN go(write(fill(b), <<"el">>), m[5][1])
               ELSE leave(stmts(enter(newline_without_fill(write(fill(b), <<"else", ":">>))), m[5]))
    IN go(w, n)

newlines(w, b) == IF b THEN newline_without_fill(newline_without_fill(w)) ELSE newline_without_fill(w)

\* The type follows the first target; a schema gets an empty line after it.
walk_assign_stmt(w, n) ==
    LET target(v, k) == write(walk_identifier(v, n[3][k]),
                              (IF k = 1 /\ n[5] # <<>> THEN <<":">> \o type_tokens(n[5][1]) ELSE <<>>) \o <<"=">>)
        none(v) == v
    IN newlines(expr(interleave(w, none, target, [k \in 1..Len(n[3]) |-> k]), n[4]), n[4][1] = "Schema")

walk_assert_stmt(w, n) ==
    newline_without_fill(option(option(expr(write(w, <<"assert">>), n[3]), "if", n[4]), ",", n[5]))

walk_import_stmt(w, n) ==
    newline_without_fill(write(w, <<"import">> \o n[3] \o dotted(n[4])
                                    \o (IF n[5] = <<>> THEN <<>> ELSE <<"as">> \o dotted(n[5][1]))))

walk_schema_attr(w, n) ==
    LET d == write_decorators(w, n[8])
        t == write(d, dotted(n[3]) \o (IF n[7] THEN <<"?">> ELSE <<>>) \o <<":">> \o type_tokens(n[4]) \o n[5])
    IN newline_without_fill(IF n[6] = <<>> THEN t ELSE expr(t, n[6][1]))

write_mixins(w, ms) ==
    LET sep(v) == write_newline(comma(v))
        o == IndentWithNewline(write(fill(w), <<"mixin", "[">>))
    IN IF ms = <<>> THEN w
       ELSE newline_without_fill(write(write_newline(leave(interleave(o, sep, walk_identifier, ms))), <<"]">>))

\* The dots come before the name of the key.
write_index_signature(w, sig) ==
    LET s == sig[1]
        h == write(fill(w), <<"[">> \o (IF s[3] THEN <<"...">> ELSE <<>>)
                              \o (IF s[1] = <<>> THEN <<>> ELSE dotted(s[1][1]) \o <<":">>)
                              \o type_tokens(s[2]) \o <<"]", ":">> \o type_tokens(s[4]))
    IN IF sig = <<>> THEN w ELSE newline_without_fill(option(h, "=", s[5]))

\* The words before the colon of a schema or rule.
write_header(w, kind, x, parents) ==
    LET d == write(write_decorators(w, x.decorators), <<kind>> \o dotted(x.name))
        a == IF x.args = <<>> THEN d ELSE write(walk_arguments(write(d, <<"[">>), x.args[1]), <<"]">>)
        p == IF parents = <<>> THEN a
             ELSE write(interleave(write(a, <<"(">>), comma, walk_identifier, parents), <<")">>)
    IN write(p, (IF x.host = <<>> THEN <<>> ELSE <<"for">> \o dotted(x.host[1])) \o <<":">>)

walk_schema_stmt(w, x, b) ==
    LET kind == IF x.mixin THEN "mixin" ELSE IF x.protocol THEN "protocol" ELSE "schema"
        o == enter(newline_without_fill(write_header(w, kind, x, x.parent)))
        d == IF b.doc = <<>> THEN o ELSE newline_without_fill(write(fill(o), b.doc))
        s == newline_without_fill(stmts(write_index_signature(write_mixins(d, b.mixins), b.sig), b.body))
        c == interleave(IndentWithNewline(write(fill(s), <<"check", ":">>)), write_newline, walk_check_expr, b.checks)
    IN leave(IF b.checks = <<>> THEN s ELSE newline_without_fill(leave(newline_without_fill(c))))

\* Without checks the line after the doc is left open.
walk_rule_stmt(w, x) ==
    LET o == IndentWithNewline(write_header(w, "rule", x, x.parents))
        d == IF x.doc = <<>> THEN o ELSE write_newline(write(o, x.doc))
        c == newline_without_fill(interleave(d, write_newline, walk_check_expr, x.checks))
    IN leave(IF x.checks = <<>> THEN d ELSE c)

\* MutSelfTypedResultWalker::walk_stmt for the printer.
walk_stmt(w, n) ==
    LET nl(v) == newline_without_fill(v) IN
    CASE n[1] = "ExprStmt" -> nl(interleave(w, comma, expr, n[3]))
      [] n[1] = "Unification" ->
           nl(walk_schema_expr(write(walk_identifier(w, n[3]), <<":">>), n[4]))
      [] n[1] = "TypeAlias" -> nl(write(w, <<"type">> \o dotted(n[3]) \o <<"=">> \o type_tokens(n[4])))
      [] n[1] = "Assign" -> walk_assign_stmt(w, n)
      [] n[1] = "AugAssign" -> nl(expr(write(walk_identifier(w, n[3]), <<n[4]>>), n[5]))
      [] n[1] = "Assert" -> walk_assert_stmt(w, n)
      [] n[1] = "Import" -> walk_import_stmt(w, n)
      [] n[1] = "IfStmt" -> walk_if_stmt(w, n)
      [] n[1] = "SchemaAttr" -> walk_schema_attr(w, n)
      [] n[1] = "SchemaStmt" -> walk_schema_stmt(w, n[3], n[4])
      [] n[1] = "Rule" -> walk_rule_stmt(w, n[3])

\* What is left of the comments follows the last statement.
write_module(m, comments) ==
    LET w0 == [out |-> <<>>, indent |-> 0, last |-> 0, comments |-> comments, panic |-> FALSE]
        d  == IF m.doc = <<>> THEN w0 ELSE write_newline(write(w0, m.doc))
        s  == stmts(d, m.body)
        text(v, c) == writeln(v, c[1])
        none(v) == v
    IN interleave(s, none, text, s.comments)

\* format_source, for a source without errors.
format_source(src) == LET r == Parse(src, FALSE) IN write_module(r.module, r.comments)
=============================================================================
