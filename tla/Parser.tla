------------------------------- MODULE Parser -------------------------------
(***************************************************************************)
(* The recursive-descent parser of kclvm/parser, with its error recovery.  *)
(* A parser is a record: the tokens t, their lines ls, the index i of the  *)
(* current token, the number e of reported errors and the reason h why it  *)
(* never returns ("" when it does).  A parse function takes a parser and   *)
(* gives <<parser, node>>.                                                 *)
(*                                                                         *)
(* A token is a string: its text for keywords, operators and brackets, one *)
(* of a few names and literals otherwise.  Error messages and columns are  *)
(* left out; a node keeps its line, because the printer looks at it.       *)
(*                                                                         *)
(* A loop of the source that comes round with the same current token will  *)
(* do the same again for ever: nothing but the token decides what it does. *)
(* The model stops there and says so in h.  It does the same for an index  *)
(* out of bounds and an unwrap of an error, which abort the program.       *)
(***************************************************************************)
EXTENDS Integers, Sequences, FiniteSets

Keywords == {"as", "import", "rule", "schema", "mixin", "protocol", "check", "for",
             "assert", "if", "elif", "else", "or", "and", "not", "in", "is", "lambda",
             "all", "any", "filter", "map", "type", "True", "False", "None",
             "Undefined"}
Ints   == {"1", "2", "0x1"}
Strs   == {"'s'", "'d'", "'${x}'", "'${x + 1}'", "'${x y}'", "'${x: #json}'", "'${}'"}
Open   == {"(", "[", "{"}
AugOps == {"+=", "-=", "|="}
UnOps  == {"~"}
Puncts == Open \cup AugOps \cup UnOps
            \cup {")", "]", "}", ",", ":", "=", ".", "...", "?", "@", "->",
                  "+", "-", "*", "**", "/", "|", "&", "==", "<", ">"}
Layout == {"NL", "INDENT", "DEDENT", "EOF"}

IsIdent(t)   == t \notin Ints \cup Strs \cup Puncts \cup Layout \cup {"#json"}
IsLiteral(t) == t \in Ints \cup Strs

\* The names that end in "Mixin" or "Protocol".
MixinNames    == {"AMixin"}
ProtocolNames == {"AProtocol"}

\* What stands between ${ and } in a string, as tokens.
Interpolation(s) ==
    CASE s = "'${x}'"        -> <<"x">>
      [] s = "'${x + 1}'"    -> <<"x", "+", "1">>
      [] s = "'${x y}'"      -> <<"x", "y">>
      [] s = "'${x: #json}'" -> <<"x", ":", "#json">>
      [] OTHER               -> <<>>

-----------------------------------------------------------------------------
(* The parser's own state *)

Tok(p)   == p.t[p.i]
Line(p)  == p.ls[p.i]
Peek(p)  == IF p.i < Len(p.t) THEN p.t[p.i + 1] ELSE "EOF"
Peek2(p) == IF p.i + 1 < Len(p.t) THEN p.t[p.i + 2] ELSE "EOF"

err(p)      == [p EXCEPT !.e = @ + 1]
stuck(p, w) == [p EXCEPT !.h = IF @ = "" THEN w ELSE @]

\* The cursor stays on the last token once it is there.
bump(p) == [p EXCEPT !.i = IF @ < Len(p.t) THEN @ + 1 ELSE @]

\* Mutant: the token is taken unseen.
bump_token_unchecked(p, k) == bump(p)

bump_token(p, k) == bump(IF Tok(p) = k THEN p ELSE err(p))

\* The other way to ask for a token: without it nothing is consumed.
expect(p, k) == IF Tok(p) = k THEN bump(p) ELSE err(p)

RECURSIVE skip_newlines(_)
skip_newlines(p) == IF Tok(p) = "NL" THEN skip_newlines(bump(p)) ELSE p

\* drop: without progress since the mark, report and discard a token.
drop(p, mark) == IF p.i = mark THEN bump(err(p)) ELSE p

MissingExpr(p) == <<"Missing", Line(p)>>

\* NEWLINE _INDENT, optional; the second component says whether it was there.
open_block(p) ==
    IF Tok(p) = "NL" THEN <<expect(skip_newlines(p), "INDENT"), TRUE>> ELSE <<p, FALSE>>

Precedence(t) ==
    CASE t = "as" -> 1
      [] t = "or" -> 2
      [] t = "and" -> 3
      [] t = "==" -> 4
      [] t = "in" -> 5
      [] t = "is" -> 6
      [] t \in {"<", ">"} -> 7
      [] t = "|" -> 8
      [] t = "&" -> 10
      [] t \in {"+", "-"} -> 12
      [] t \in {"*", "/"} -> 13
      [] t = "**" -> 14
      [] t \in UnOps -> 15
      [] OTHER -> 0

\* The comparisons among BinOrCmpOp::try_from.
CmpOps == {"==", "<", ">", "in", "is", "not in", "is not"}

\* UnaryOp::try_from.
UnaryOps == UnOps \cup {"+", "-", "not"}

-----------------------------------------------------------------------------
\* The rules of the grammar that call each other go through one operator.
RECURSIVE parse(_, _, _)
Expr(p)        == parse("expr", p, 0)
Climb(p, prec) == parse("simple", p, prec)
Primary(p)     == parse("primary", p, 0)
ConfigOf(p)    == parse("config", p, 0)
ListItem(p)    == parse("list item", p, 0)
IfEntry(p)     == parse("if entry", p, 0)
TypeOf(p)      == parse("type", p, 0)
Stmt(p)        == parse("stmt", p, 0)
IfStmtOf(p)    == parse("if stmt", p, 0)

parse_simple_expr(p) == Climb(p, 0)

\* Parse with F after the token k, if it is there: an optional part.
optional(p, k, F(_)) ==
    IF Tok(p) = k THEN LET r == F(bump(p)) IN <<r[1], <<r[2]>>>> ELSE <<p, <<>>>>

(* Identifiers and literals *)

\* NAME (DOT NAME)*; keywords are names too, a missing name is the empty one.
parse_identifier(p) ==
    LET RECURSIVE more(_, _)
        more(q, names) ==
            IF Tok(q) # "." THEN <<q, names>>
            ELSE LET d == bump(q) IN
                 IF IsIdent(Tok(d)) THEN more(bump(d), Append(names, Tok(d)))
                                    ELSE more(err(d), Append(names, ""))
    IN IF IsIdent(Tok(p)) THEN more(bump(p), <<Tok(p)>>) ELSE <<err(p), <<"">>>>

parse_identifier_expr(p) ==
    LET r == parse_identifier(p) IN <<r[1], <<"Identifier", Line(p), r[2]>>>>

\* The identifier an expression is, or with an error the missing one.
expr_as_identifier(p, n) == IF n[1] = "Identifier" THEN <<p, n[3]>> ELSE <<err(p), <<>>>>

\* A number is kept by its value.
parse_num_expr(p)      == <<bump(p), <<"Number", Line(p), IF Tok(p) = "0x1" THEN "1" ELSE Tok(p)>>>>
parse_constant_expr(p) == <<bump(p), <<"Const", Line(p), Tok(p)>>>>

\* The tokens between the braces are parsed by a parser of their own that
\* reports to the same session; tokens left over are an error.
parse_joined_string(p, s, l) ==
    LET inner == Interpolation(s) \o <<"NL", "EOF">>
        r0 == [t |-> inner, ls |-> [k \in 1..Len(inner) |-> l], i |-> 1,
               e |-> IF Interpolation(s) = <<>> THEN 1 ELSE 0, h |-> ""]
        r  == Expr(r0)
        spec == Tok(r[1]) = ":"
        q  == IF spec THEN LET c == bump(r[1]) IN
                           bump(IF Tok(c) = "#json" THEN c ELSE err(c))
                      ELSE r[1]
        z  == skip_newlines(q)
        f  == IF Interpolation(s) # <<>> /\ z.i < Len(z.t) THEN err(z) ELSE z
    IN <<stuck([p EXCEPT !.e = @ + f.e], f.h), <<"Joined", l, r[2], spec>>>>

parse_str_expr(p) ==
    IF Tok(p) \in {"'s'", "'d'"} THEN <<bump(p), <<"Str", Line(p), Tok(p)>>>>
    ELSE parse_joined_string(bump(p), Tok(p), Line(p))

\* A leading string is the doc of a module, a schema or a rule.
parse_doc(p) ==
    IF Tok(p) \in Strs
    THEN <<skip_newlines(parse_str_expr(p)[1]), <<Tok(p)>>>> ELSE <<p, <<>>>>

(* Operators *)

parse_if_expr(p, body, l) ==
    LET c == parse_simple_expr(bump(p)) IN
    IF Tok(c[1]) = "else"
    THEN LET o == Expr(bump(c[1])) IN <<o[1], <<"If", l, body, c[2], o[2]>>>>
    ELSE <<err(c[1]), <<"If", l, body, c[2], MissingExpr(c[1])>>>>

parse_expr(p) ==
    LET r == parse_simple_expr(p) IN
    IF Tok(r[1]) = "if" THEN parse_if_expr(r[1], r[2], Line(p)) ELSE r

\* One prefix operator at most, and its operand is a primary expression.
parse_unary_expr(p) ==
    IF Tok(p) \in UnaryOps
    THEN LET r == Primary(bump(p)) IN <<r[1], <<"Unary", Line(p), Tok(p), r[2]>>>>
    ELSE Primary(p)

\* The operator at the current token, of one token or two, or "".
BinaryOp(p) ==
    CASE Tok(p) = "not" /\ Peek(p) = "in" -> "not in"
      [] Tok(p) = "is" /\ Peek(p) = "not" -> "is not"
      [] OTHER -> Tok(p)

\* One strength for sums and powers.
OpPrecedence(op) == IF op = "not in" THEN 5 ELSE IF op = "is not" THEN 6 ELSE Precedence(op)

\* Precedence climbing.  Comparisons are collected in a chain that the next
\* other operator, or the end, closes.
do_parse_simple_expr(p, prec1) ==
    LET l == Line(p)
        close(x, ops, cs) == IF ops = <<>> THEN x ELSE <<"Compare", l, x, ops, cs>>
        RECURSIVE loop(_, _, _, _)
        loop(q, x, ops, cs) ==
            LET op   == BinaryOp(q)
                prec == OpPrecedence(op)
            IN IF prec <= prec1 THEN <<q, close(x, ops, cs)>>
               ELSE IF op \in UnOps THEN <<err(q), x>>
               ELSE LET two == op \in {"not in", "is not"}
                        y   == Climb(IF two THEN bump(bump(q)) ELSE bump(q), prec)
                    IN IF op \in CmpOps
                       THEN loop(y[1], x, Append(ops, op), Append(cs, y[2]))
                       ELSE loop(y[1], <<"Binary", l, op, close(x, ops, cs), y[2]>>, <<>>, <<>>)
        u == parse_unary_expr(p)
    IN loop(u[1], u[2], <<>>, <<>>)

(* Suffixes *)

\* [QUESTION] DOT NAME
parse_selector_expr(p, value, l) ==
    LET q == Tok(p) = "?"
        d == bump(IF q THEN bump(p) ELSE p)
    IN IF IsIdent(Tok(d))
       THEN LET r == parse_identifier(d) IN <<r[1], <<"Selector", l, value, r[2], q>>>>
       ELSE <<d, <<"Selector", l, value, <<"">>, q>>>>

\* argument: expr | Identifier ASSIGN expr
parse_argument_expr(p) ==
    LET x == Expr(p) IN
    IF Tok(x[1]) # "=" THEN <<x[1], <<"arg", x[2]>>>>
    ELSE LET a == expr_as_identifier(bump(x[1]), x[2])
             v == Expr(a[1])
         IN <<v[1], <<"kw", a[2], v[2]>>>>

parse_arguments_expr(p) ==
    LET RECURSIVE loop(_, _, _)
        loop(q, args, kws) ==
            LET a  == parse_argument_expr(q)
                is == a[2][1] = "kw"
                r  == IF ~is /\ kws # <<>> THEN err(a[1]) ELSE a[1]
                as == IF is THEN args ELSE Append(args, a[2][2])
                ks == IF is THEN Append(kws, <<a[2][2], a[2][3]>>) ELSE kws
            IN IF Tok(r) = "," THEN loop(bump(r), as, ks) ELSE <<r, as, ks>>
    IN loop(p, <<>>, <<>>)

\* LEFT_PARENTHESES [arguments [COMMA]] RIGHT_PARENTHESES
parse_call(p, func) ==
    LET o == expect(p, "(")
        a == IF Tok(o) = ")" THEN <<o, <<>>, <<>>>> ELSE parse_arguments_expr(o)
        c == IF Tok(a[1]) = "," THEN bump(a[1]) ELSE a[1]
    IN <<expect(c, ")"), <<func, a[2], a[3]>>>>

parse_call_expr(p, func, l) ==
    LET c == parse_call(p, func) IN <<c[1], <<"Call", l, c[2][1], c[2][2], c[2][3]>>>>

\* Five rounds of the loop over colons and expressions, which go into three
\* slots; the fourth slot does not exist.
parse_subscript_expr(p, value, l) ==
    LET q == Tok(p) = "?"
        o == expect(IF q THEN bump(p) ELSE p, "[")
        RECURSIVE loop(_, _)
        loop(s, a) ==    \* a: round, colons, consecutive expressions, slots
            IF a.round > 4 \/ Tok(s) = "]" THEN <<s, a>>
            ELSE IF Tok(s) = ":"
            THEN LET b == bump(s) IN
                 loop(IF a.colons >= 2 THEN err(b) ELSE b,
                      [a EXCEPT !.round = @ + 1, !.colons = @ + 1, !.run = @ - 1])
            ELSE LET b == IF a.colons = 0 /\ a.round = 1 THEN err(s) ELSE s
                     r == Expr(b)
                 IN IF a.colons > 2 THEN <<stuck(r[1], "subscript slot"), a>>
                    ELSE loop(IF a.run >= 1 THEN err(r[1]) ELSE r[1],
                              [a EXCEPT !.round = @ + 1, !.run = @ + 1,
                                        !.slot[a.colons + 1] = <<r[2]>>])
        r  == loop(o, [round |-> 0, colons |-> 0, run |-> 0, slot |-> <<<<>>, <<>>, <<>>>>])
        c  == expect(r[1], "]")
        sl == r[2].slot
        is == r[2].colons > 0
    IN <<IF ~is /\ sl[1] = <<>> THEN err(c) ELSE c,
         <<"Subscript", l, value, IF is THEN <<>> ELSE sl[1],
           IF is THEN sl ELSE <<<<>>, <<>>, <<>>>>, q>>>>

(* Operands *)

\* schema_expr: identifier config_expr
parse_schema_expr(p, expr, args, kws, l) ==
    LET n == expr_as_identifier(p, expr)
        c == ConfigOf(n[1])
    IN <<c[1], <<"Schema", l, n[2], args, kws, c[2]>>>>

parse_schema_expr_with_args(p, call, l) == parse_schema_expr(p, call[1], call[2], call[3], l)

parse_paren_expr(p) ==
    LET r == Expr(bump(p)) IN <<expect(r[1], ")"), <<"Paren", Line(p), r[2]>>>>

\* comp_clause: FOR loop_variables IN simple_expr [NEWLINE] (IF expr)*
parse_comp_clause(p) ==
    LET RECURSIVE vars(_, _), ifs(_, _)
        vars(q, ns) == IF Tok(q) # "," THEN <<q, ns>>
                       ELSE LET r == parse_identifier(bump(q)) IN vars(r[1], Append(ns, r[2]))
        ifs(q, es) == IF Tok(q) # "if" THEN <<q, es>>
                      ELSE LET r == Expr(bump(q)) IN ifs(r[1], Append(es, r[2]))
        f == parse_identifier(bump(p))
        v == vars(f[1], <<f[2]>>)
        it == parse_simple_expr(bump_token(v[1], "in"))
        c == ifs(skip_newlines(it[1]), <<>>)
    IN <<c[1], <<v[2], it[2], c[2]>>>>

parse_comp_clauses(p) ==
    LET RECURSIVE loop(_, _)
        loop(q, cs) == IF Tok(q) # "for" THEN <<q, cs>>
                       ELSE LET r == parse_comp_clause(q) IN loop(r[1], Append(cs, r[2]))
    IN loop(p, <<>>)

\* The items of a list or the entries of a config, separated by commas or
\* newlines; with F an item is parsed.  Only a list throws missing items away.
parse_items(p, close, newline, dropMissing, F(_)) ==
    LET ends(q) == Tok(q) \in {close, "DEDENT", "EOF", "for"} \/ (Tok(q) = "NL" /\ ~newline)
        after(q) == LET c == IF Tok(q) = "," THEN bump(q) ELSE q IN
                    IF newline THEN skip_newlines(c) ELSE c
        RECURSIVE loop(_, _)
        loop(q, items) ==
            IF ends(q) THEN <<q, items>>
            ELSE LET r    == F(q)
                     none == dropMissing /\ r[2][1] = "Missing"
                     z    == drop(after(IF none THEN bump(err(r[1])) ELSE r[1]), q.i)
                 IN loop(z, IF none THEN items ELSE Append(items, r[2]))
        f == F(p)
    IN IF ends(p) THEN <<p, <<>>>> ELSE loop(after(f[1]), <<f[2]>>)

parse_list_items(p, newline) == parse_items(p, "]", newline, TRUE, ListItem)

\* What a list and a config share: brackets, layout, comprehension.  many and
\* comp build the node; a comprehension needs exactly one item.
bracketed(p, close, items(_, _), many(_), comp(_, _)) ==
    LET s == skip_newlines(p)
        b == open_block(p)
        it == items(b[1], b[2])
        g == parse_comp_clauses(it[1])
        d == IF b[2] THEN expect(skip_newlines(g[1]), "DEDENT") ELSE g[1]
        c == expect(d, close)
        q == IF g[2] # <<>> /\ Len(it[2]) # 1 THEN err(c) ELSE c
    IN IF Tok(s) = close THEN <<bump(s), many(<<>>)>>
       ELSE IF Tok(p) = "NL" /\ Tok(s) # "INDENT" THEN <<err(s), many(<<>>)>>
       ELSE <<q, IF g[2] = <<>> \/ it[2] = <<>> THEN many(it[2]) ELSE comp(it[2][1], g[2])>>

\* p is behind the left bracket, whose line is l.
parse_list_expr(p, l) ==
    LET list(es) == <<"List", l, es>>
        comp(x, gs) == <<"ListComp", l, x, gs>>
    IN bracketed(p, "]", parse_list_items, list, comp)

\* if_item_exec_block: nothing but a Dedent ends the loop.
parse_if_item_exec_block(p, newline) ==
    LET RECURSIVE loop(_, _)
        loop(q, body) ==
            IF Tok(q) = "DEDENT" THEN <<bump(q), body>>
            ELSE LET r == ListItem(q)
                     c == IF Tok(r[1]) = "," THEN bump(r[1]) ELSE r[1]
                     z == skip_newlines(c)
                 IN IF z.i = q.i THEN <<stuck(z, "if_item_exec_block"), body>>
                    ELSE loop(z, Append(body, r[2]))
        one == ListItem(p)
    IN IF newline THEN loop(bump_token(skip_newlines(p), "INDENT"), <<>>)
                  ELSE <<one[1], <<one[2]>>>>

\* An elif becomes the orelse of the branch before it.
RECURSIVE fold_elif(_, _, _)
fold_elif(tag, branches, orelse) ==
    IF branches = <<>> THEN orelse
    ELSE LET b == branches[Len(branches)] IN
         fold_elif(tag, SubSeq(branches, 1, Len(branches) - 1),
                   <<<<tag, b[1], b[2], b[3], orelse>>>>)

\* The flag that newlines must be skipped, once set, stays set for the
\* branches that follow.
parse_if_item_expr(p) ==
    LET branch(q, nl) ==      \* the keyword, a condition, a colon, a block
            LET c == Expr(bump(q))
                o == bump_token(c[1], ":")
                n == nl \/ Tok(o) = "NL"
                b == parse_if_item_exec_block(o, n)
            IN <<b[1], <<Line(q), c[2], b[2]>>, n>>
        RECURSIVE elifs(_, _, _)
        elifs(q, bs, nl) ==
            IF Tok(q) # "elif" THEN <<q, bs, nl>>
            ELSE LET r == branch(q, nl) IN elifs(r[1], Append(bs, r[2]), r[3])
        f == branch(p, FALSE)
        e == elifs(skip_newlines(f[1]), <<f[2]>>, f[3])
        s == skip_newlines(e[1])
        o == bump_token(bump(s), ":")
        b == parse_if_item_exec_block(o, e[3] \/ Tok(o) = "NL")
        r == IF Tok(s) = "else" THEN <<b[1], <<<<"List", Line(s), b[2]>>>>>> ELSE <<s, <<>>>>
    IN <<r[1], fold_elif("ListIfItem", e[2], r[2])[1]>>

\* list_item: test | star_expr | if_item
parse_list_item(p) ==
    CASE Tok(p) = "*"  -> LET r == Expr(bump(p)) IN <<r[1], <<"Starred", Line(p), r[2]>>>>
      [] Tok(p) = "if" -> parse_if_item_expr(p)
      [] OTHER -> Expr(p)

ConfigOp(t) == IF t = ":" THEN "Union" ELSE IF t = "+=" THEN "Insert" ELSE "Override"

\* config_entry: expr (COLON | ASSIGN | COMP_PLUS) expr | double_star_expr | if_entry.
\* A wrong operator is reported and consumed.
parse_config_entry(p) ==
    CASE Tok(p) = "**" -> LET r == Expr(bump(p)) IN
                          <<r[1], <<"entry", Line(p), <<>>, r[2], "Union">>>>
      [] Tok(p) = "if" -> LET r == IfEntry(p) IN
                          <<r[1], <<"entry", Line(p), <<>>, r[2], "Union">>>>
      [] OTHER ->
           LET k == Expr(p)
               o == IF Tok(k[1]) \in {":", "=", "+="} THEN k[1] ELSE err(k[1])
               v == Expr(bump(o))
           IN <<v[1], <<"entry", Line(p), <<k[2]>>, v[2], ConfigOp(Tok(o))>>>>

parse_config_entries(p, newline) == parse_items(p, "}", newline, FALSE, parse_config_entry)

\* p is at the left brace.
parse_config_expr(p) ==
    LET config(es) == <<"Config", Line(p), es>>
        comp(e, gs) == <<"DictComp", Line(p), e, gs>>
    IN bracketed(bump(p), "}", parse_config_entries, config, comp)

\* One entry of an if block.  <<parser, <<>>>> when there is none; a wrong
\* operator is reported and left, entries without a key override.
parse_body_item(p, newline) ==
    CASE Tok(p) \in {"DEDENT", "NL", "elif", "else"} -> <<p, <<>>>>
      [] Tok(p) = "if" ->
           LET r == IfEntry(p) IN <<r[1], <<<<"entry", r[2][2], <<>>, r[2], "Override">>>>>>
      [] Tok(p) = "**" ->
           LET r == Primary(bump(p)) IN
           <<r[1], <<<<"entry", r[2][2], <<>>, r[2], "Override">>>>>>
      [] OTHER ->
           LET k == Expr(p)
               o == IF Tok(k[1]) \in {":", "=", "+="} THEN bump(k[1]) ELSE err(k[1])
               v == Expr(o)
           IN <<drop(v[1], p.i),
                <<<<"entry", v[2][2], <<k[2]>>, v[2], ConfigOp(Tok(k[1]))>>>>>>

parse_if_entry_exec_block(p, newline) ==
    LET RECURSIVE loop(_, _)
        loop(q, items) ==
            LET r == parse_body_item(q, newline)
                c == IF Tok(r[1]) = "," THEN bump(r[1]) ELSE r[1]
                z == skip_newlines(c)
            IN IF r[2] = <<>> THEN <<r[1], items>>
               ELSE IF z.i = q.i THEN <<stuck(z, "if_entry_exec_block"), items>>
               ELSE loop(z, items \o r[2])
        o == IF newline THEN bump_token(skip_newlines(p), "INDENT") ELSE p
        b == loop(o, <<>>)
        one == parse_body_item(p, newline)
    IN IF newline THEN <<bump_token(skip_newlines(b[1]), "DEDENT"), b[2], Line(o)>>
                  ELSE <<one[1], one[2], Line(o)>>

\* Here the flag is reset before the elifs and before the else, and the
\* entry has the line of its first block, not of its if.
parse_if_entry_expr(p) ==
    LET branch(q, nl) ==
            LET c == Expr(bump(q))
                o == bump_token(c[1], ":")
                n == nl \/ Tok(o) = "NL"
                b == parse_if_entry_exec_block(o, n)
            IN <<b[1], <<IF Tok(q) = "if" THEN b[3] ELSE Line(q), c[2], b[2]>>, n>>
        RECURSIVE elifs(_, _, _)
        elifs(q, bs, nl) ==
            IF Tok(q) # "elif" THEN <<q, bs>>
            ELSE LET r == branch(q, nl) IN elifs(r[1], Append(bs, r[2]), r[3])
        f == branch(p, FALSE)
        e == elifs(skip_newlines(f[1]), <<f[2]>>, FALSE)
        s == skip_newlines(e[1])
        o == bump_token(bump(s), ":")
        b == parse_if_entry_exec_block(o, Tok(o) = "NL")
        r == IF Tok(s) = "else" THEN <<b[1], <<<<"Config", Line(s), b[2]>>>>>> ELSE <<s, <<>>>>
        z == skip_newlines(IF Tok(r[1]) = "," THEN bump(r[1]) ELSE r[1])
    IN <<z, fold_elif("ConfigIfEntry", e[2], r[2])[1]>>

\* quant_target: string | identifier | list | config
parse_quant_target_expr(p) ==
    CASE IsIdent(Tok(p)) ->
           IF Tok(p) \in {"None", "Undefined", "lambda", "any", "all", "map", "filter"}
           THEN <<err(p), MissingExpr(p)>> ELSE parse_identifier_expr(p)
      [] Tok(p) \in Strs -> parse_str_expr(p)
      [] Tok(p) = "[" -> parse_list_expr(bump(p), Line(p))
      [] Tok(p) = "{" -> ConfigOf(p)
      [] OTHER -> <<err(p), MissingExpr(p)>>

parse_quant_expr(p) ==
    LET v1 == parse_identifier(bump(p))
        v2 == parse_identifier(bump(v1[1]))
        vs == IF Tok(v1[1]) = "," THEN <<v2[1], <<v1[2], v2[2]>>>> ELSE <<v1[1], <<v1[2]>>>>
        t  == parse_quant_target_expr(expect(vs[1], "in"))
        b  == open_block(expect(t[1], "{"))
        e  == parse_simple_expr(b[1])
        c  == optional(e[1], "if", Expr)
        n  == IF Tok(c[1]) = "NL" THEN skip_newlines(c[1]) ELSE err(c[1])
        d  == IF b[2] THEN expect(n, "DEDENT") ELSE c[1]
    IN <<expect(d, "}"), <<"Quant", Line(p), Tok(p), vs[2], t[2], e[2], c[2]>>>>

\* NAME [COLON type] [ASSIGN test], until one of the closing tokens.
parse_parameters(p, close, bumpClose) ==
    LET RECURSIVE loop(_, _)
        loop(q, as) ==
            IF Tok(q) \in close THEN <<IF bumpClose THEN bump(q) ELSE q, as>>
            ELSE IF Tok(q) \in {"NL", "EOF"} THEN <<err(q), as>>
            ELSE LET n == parse_identifier(q)
                     t == optional(n[1], ":", TypeOf)
                     d == optional(t[1], "=", Expr)
                     z == IF Tok(d[1]) = "," THEN bump(d[1]) ELSE d[1]
                 IN IF z.i = q.i THEN <<stuck(z, "parameters"), as>>
                    ELSE loop(z, Append(as, <<n[2], t[2], d[2]>>))
        r == loop(p, <<>>)
    IN <<skip_newlines(r[1]), <<r[2]>>>>

parse_lambda_expr(p) ==
    LET q == bump(p)
        a == IF Tok(q) \in Open \cup {"->"} THEN <<q, <<>>>>
             ELSE parse_parameters(q, {"->", "{"}, FALSE)
        t == optional(a[1], "->", TypeOf)
        b == open_block(bump_token(t[1], "{"))
        RECURSIVE loop(_, _)
        loop(s, body) ==
            IF Tok(s) \in {"}", "DEDENT", "EOF"} THEN <<s, body>>
            ELSE LET r == Stmt(s) IN
                 IF r[2] = <<>> THEN loop(bump(r[1]), body)
                 ELSE loop(skip_newlines(r[1]), body \o r[2])
        s == loop(b[1], <<>>)
        d == IF b[2] THEN expect(s[1], "DEDENT") ELSE s[1]
    IN <<bump_token(d, "}"), <<"Lambda", Line(p), a[2], t[2], s[2]>>>>

\* A name may be followed by a config, or by arguments and a config.
parse_operand_ident(p) ==
    LET n == parse_identifier_expr(p)
        c == parse_call(n[1], n[2])
    IN CASE Tok(n[1]) = "{" -> parse_schema_expr(n[1], n[2], <<>>, <<>>, Line(p))
         [] Tok(n[1]) = "(" ->
              IF Tok(c[1]) = "{" THEN parse_schema_expr_with_args(c[1], c[2], Line(p))
              ELSE <<c[1], <<"Call", Line(p), c[2][1], c[2][2], c[2][3]>>>>
         [] OTHER -> n

parse_operand_expr(p) ==
    CASE Tok(p) \in {"None", "Undefined", "True", "False"} -> parse_constant_expr(p)
      [] Tok(p) = "lambda" -> parse_lambda_expr(p)
      [] Tok(p) \in {"any", "all", "map", "filter"} -> parse_quant_expr(p)
      [] IsIdent(Tok(p)) /\ Tok(p) \notin {"None", "Undefined", "True", "False", "lambda",
                                            "any", "all", "map", "filter"} -> parse_operand_ident(p)
      [] Tok(p) \in Ints -> parse_num_expr(p)
      [] Tok(p) \in Strs -> parse_str_expr(p)
      [] Tok(p) = "(" -> parse_paren_expr(p)
      [] Tok(p) = "[" -> parse_list_expr(bump(p), Line(p))
      [] Tok(p) = "{" -> ConfigOf(p)
      [] OTHER -> <<err(p), MissingExpr(p)>>

parse_primary_expr(p) ==
    LET RECURSIVE loop(_, _)
        loop(q, x) ==
            LET r == CASE Tok(q) = "." \/ (Tok(q) = "?" /\ Peek(q) = ".") -> parse_selector_expr(q, x, Line(p))
                       [] Tok(q) = "[" \/ (Tok(q) = "?" /\ Peek(q) = "[") -> parse_subscript_expr(q, x, Line(p))
                       [] Tok(q) = "(" -> parse_call_expr(q, x, Line(p))
                       [] OTHER -> <<q, x>>
            IN IF r[1].i = q.i THEN r ELSE loop(r[1], r[2])
        o == parse_operand_expr(p)
    IN loop(o[1], o[2])

\* check_expr: simple_expr [IF simple_expr] [COMMA primary_expr]
parse_check_expr(p) ==
    LET t == parse_simple_expr(p)
        c == optional(t[1], "if", parse_simple_expr)
        m == optional(c[1], ",", Primary)
    IN <<m[1], <<"Check", Line(p), t[2], c[2], m[2]>>>>

-----------------------------------------------------------------------------
(* Types *)

BasicTypes == {"bool", "int", "float", "str"}

\* A literal type unwraps the conversion of its text to a decimal number.
parse_type_element(p) ==
    CASE Tok(p) = "any" -> <<bump(p), <<"Any">>>>
      [] Tok(p) \in BasicTypes -> <<bump(p), <<"Basic", Tok(p)>>>>
      [] Tok(p) \in Ints \cup Strs \cup {"True", "False"} ->
           <<bump(IF Tok(p) = "0x1" THEN stuck(p, "type literal") ELSE p), <<"Literal", Tok(p)>>>>
      [] IsIdent(Tok(p)) /\ Tok(p) \notin BasicTypes \cup {"any", "True", "False"} ->
           LET r == parse_identifier(p) IN <<r[1], <<"Named", r[2]>>>>
      [] Tok(p) = "[" ->
           LET q == bump(p)
               r == TypeOf(q)
           IN IF Tok(q) = "]" THEN <<bump(q), <<"ListType", <<>>>>>>
              ELSE <<bump_token(r[1], "]"), <<"ListType", <<r[2]>>>>>>
      [] Tok(p) = "{" ->
           LET some(q) == LET r == TypeOf(q) IN <<r[1], <<r[2]>>>>
               k == IF Peek(p) = ":" THEN <<bump(p), <<>>>> ELSE some(bump(p))
               c == bump_token(k[1], ":")
               v == IF Tok(c) = "}" THEN <<c, <<>>>> ELSE some(c)
           IN <<bump_token(v[1], "}"), <<"DictType", k[2], v[2]>>>>
      [] OTHER -> <<err(p), <<"Any">>>>

\* type: type_element (OR type_element)*
parse_type_annotation(p) ==
    LET RECURSIVE more(_, _)
        more(q, ts) == IF Tok(q) # "|" THEN <<q, ts>>
                       ELSE LET r == parse_type_element(bump(q)) IN more(r[1], Append(ts, r[2]))
        f == parse_type_element(p)
        r == more(f[1], <<f[2]>>)
    IN <<r[1], IF Len(r[2]) > 1 THEN <<"UnionType", r[2]>> ELSE r[2][1]>>

-----------------------------------------------------------------------------
(* Statements.  A function that may find none gives <<parser, <<>>>>. *)

\* identifier [COLON type] (ASSIGN identifier)* ASSIGN test, and the forms
\* that begin like it: unification, augmented assignment, schema attribute,
\* expression statement.
parse_expr_or_assign_stmt(p, inSchema) ==
    LET l  == Line(p)
        x  == Expr(p)
        ty == optional(x[1], ":", TypeOf)
        RECURSIVE values(_, _)
        values(q, vs) == IF Tok(q) # "=" THEN <<q, vs>>
                         ELSE LET r == Expr(bump(q)) IN values(r[1], Append(vs, r[2]))
        vs == values(ty[1], <<>>)
        attr == ty[2] # <<>> /\ inSchema /\ Len(vs[2]) <= 1   \* one target
        aug  == Tok(vs[1]) \in AugOps /\ attr
        av   == Expr(bump(vs[1]))
        end  == IF aug THEN av[1] ELSE vs[1]
        isId == x[2][1] = "Identifier"
        targets == <<x[2]>> \o SubSeq(vs[2], 1, Len(vs[2]) - 1)
        wrong == Cardinality({k \in 1..Len(targets) : targets[k][1] # "Identifier"})
        names == [k \in 1..Len(targets) |->
                     IF targets[k][1] = "Identifier" THEN targets[k][3] ELSE <<>>]
        schemaAttr(q, op, v) == <<skip_newlines(q),
            <<<<"SchemaAttr", l, x[2][3], ty[2][1], op, v, FALSE, <<>>>>>>>>
    IN CASE ty[2] # <<>> /\ Tok(ty[1]) = "{" /\ ty[2][1][1] = "Named" ->
              LET s == parse_schema_expr(ty[1], <<"Identifier", l, ty[2][1][2]>>, <<>>, <<>>, l)
                  n == expr_as_identifier(s[1], x[2])
              IN <<skip_newlines(n[1]), <<<<"Unification", l, n[2], s[2]>>>>>>
         [] ty[2] = <<>> /\ Tok(x[1]) \in AugOps ->
              LET v == Expr(bump(x[1]))
                  n == expr_as_identifier(v[1], x[2])
              IN <<skip_newlines(n[1]), <<<<"AugAssign", l, n[2], Tok(x[1]), v[2]>>>>>>
         [] ~(ty[2] # <<>> /\ Tok(ty[1]) = "{" /\ ty[2][1][1] = "Named")
            /\ ~(ty[2] = <<>> /\ Tok(x[1]) \in AugOps) ->
              IF aug /\ isId THEN schemaAttr(av[1], <<Tok(vs[1])>>, <<av[2]>>)
              ELSE IF vs[2] # <<>>
              THEN <<skip_newlines([end EXCEPT !.e = @ + wrong]),
                     <<<<"Assign", l, names, vs[2][Len(vs[2])], ty[2]>>>>>>
              ELSE IF attr /\ isId THEN schemaAttr(end, <<>>, <<>>)
              ELSE IF ty[2] = <<>> THEN <<skip_newlines(end), <<<<"ExprStmt", l, <<x[2]>>>>>>>>
              ELSE <<err(end), <<>>>>

parse_expr_stmt(p) ==
    LET r == Expr(p) IN <<skip_newlines(r[1]), <<"ExprStmt", Line(p), <<r[2]>>>>>>

\* ASSERT simple_expr (IF simple_expr)? (COMMA test)?
parse_assert_stmt(p) ==
    LET t == parse_simple_expr(bump(p))
        c == optional(t[1], "if", parse_simple_expr)
        m == optional(c[1], ",", Expr)
    IN <<skip_newlines(m[1]), <<"Assert", Line(p), t[2], c[2], m[2]>>>>

\* IMPORT dot_name (AS NAME)?
parse_import_stmt(p) ==
    LET RECURSIVE dots(_, _, _)
        dots(q, d, ds) == IF Tok(q) = d THEN dots(bump(q), d, Append(ds, d)) ELSE <<q, ds>>
        d3 == dots(bump(p), "...", <<>>)
        d1 == dots(d3[1], ".", d3[2])
        n  == parse_identifier(d1[1])
        a  == optional(n[1], "as", parse_identifier)
    IN <<skip_newlines(a[1]), <<"Import", Line(p), d1[2], n[2], a[2]>>>>

\* "type" NAME ASSIGN type
parse_type_alias_stmt(p) ==
    LET x == Expr(bump(p))
        n == expr_as_identifier(x[1], x[2])
        t == TypeOf(bump_token(n[1], "="))
    IN <<skip_newlines(t[1]), <<"TypeAlias", Line(p), n[2], t[2]>>>>

\* Statements up to the closing token.  At the end of the file bump no longer
\* discards anything.
parse_block_stmt_list(p, open, close) ==
    LET RECURSIVE loop(_, _)
        loop(q, body) ==
            IF Tok(q) = close THEN <<skip_newlines(bump(q)), body>>
            ELSE LET r == Stmt(q)
                     z == IF r[2] = <<>> THEN bump(r[1]) ELSE r[1]
                 IN IF z.i = q.i THEN <<stuck(z, "block_stmt_list"), body>>
                    ELSE loop(z, body \o r[2])
    IN loop(bump_token(p, open), <<>>)

\* execution_block: a statement on the same line or an indented block.
execution_block(p) ==
    IF Tok(p) = "NL" THEN parse_block_stmt_list(skip_newlines(p), "INDENT", "DEDENT")
    ELSE LET r == parse_expr_or_assign_stmt(p, FALSE) IN
         IF r[2] = <<>> THEN <<bump(r[1]), <<>>>> ELSE r

RECURSIVE fold_elif_stmts(_, _)
fold_elif_stmts(branches, orelse) ==
    IF branches = <<>> THEN orelse
    ELSE LET b == branches[Len(branches)] IN
         fold_elif_stmts(SubSeq(branches, 1, Len(branches) - 1),
                         <<<<"IfStmt", b[1], b[2], b[3], orelse>>>>)

parse_if_stmt(p) ==
    LET branch(q) == LET c == Expr(bump(q))
                         b == execution_block(bump_token(c[1], ":"))
                     IN <<b[1], <<Line(q), c[2], b[2]>>>>
        RECURSIVE elifs(_, _)
        elifs(q, bs) == IF Tok(q) # "elif" THEN <<q, bs>>
                        ELSE LET r == branch(q) IN elifs(r[1], Append(bs, r[2]))
        f == branch(p)
        e == elifs(skip_newlines(f[1]), <<f[2]>>)
        s == skip_newlines(e[1])
        b == execution_block(bump_token(bump(s), ":"))
        r == IF Tok(s) = "else" THEN b ELSE <<s, <<>>>>
    IN <<skip_newlines(r[1]), fold_elif_stmts(e[2], r[2])[1]>>

\* (AT decorator_expr NEWLINE)+
parse_decorators(p) ==
    LET RECURSIVE loop(_, _)
        loop(q, ds) ==
            IF Tok(q) # "@" THEN <<skip_newlines(q), ds>>
            ELSE LET r == Expr(bump(q)) IN
                 CASE r[2][1] = "Identifier" ->
                        loop(skip_newlines(r[1]), Append(ds, <<r[2], <<>>, <<>>>>))
                   [] r[2][1] = "Call" ->
                        loop(skip_newlines(r[1]), Append(ds, <<r[2][3], r[2][4], r[2][5]>>))
                   [] OTHER -> loop(skip_newlines(err(r[1])), ds)
    IN loop(p, <<>>)

\* MIXIN LEFT_BRACKETS [mixins] RIGHT_BRACKETS: only ] and a Dedent end it.
parse_mixins(p) ==
    LET b == open_block(bump_token(bump(p), "["))
        RECURSIVE loop(_, _)
        loop(q, ms) ==
            IF Tok(q) \in {"]", "DEDENT"} THEN <<q, ms>>
            ELSE LET r == parse_identifier(q)
                     z == skip_newlines(IF Tok(r[1]) = "," THEN bump(r[1]) ELSE r[1])
                 IN IF z.i = q.i THEN <<stuck(z, "mixins"), ms>>
                    ELSE loop(z, Append(ms, r[2]))
        m == loop(b[1], <<>>)
        d == IF b[2] THEN expect(m[1], "DEDENT") ELSE m[1]
    IN <<bump_token(d, "]"), m[2]>>

\* [decorators] identifier [QUESTION] COLON type [(ASSIGN|COMP_OR) test]
parse_schema_attribute(p) ==
    LET d == IF Tok(p) = "@" THEN parse_decorators(p) ELSE <<p, <<>>>>
        n == parse_identifier(d[1])
        o == Tok(n[1]) = "?"
        t == TypeOf(bump_token(IF o THEN bump(n[1]) ELSE n[1], ":"))
        v == IF Tok(t[1]) \in AugOps \cup {"="}
             THEN LET r == Expr(bump(t[1])) IN <<r[1], <<Tok(t[1])>>, <<r[2]>>>>
             ELSE <<t[1], <<>>, <<>>>>
    IN <<skip_newlines(v[1]), <<"SchemaAttr", Line(p), n[2], t[2], v[2], v[3], o, d[2]>>>>

\* LEFT_BRACKETS [NAME COLON] [ELLIPSIS] basic_type RIGHT_BRACKETS COLON type
\* [ASSIGN test]; p is behind the left bracket.
parse_schema_index_signature(p) ==
    LET n == parse_identifier(p)
        any == Tok(n[1]) = ":" /\ Peek(n[1]) = "..."
        c == bump_token(n[1], ":")
        k == CASE Tok(p) = "..." -> LET t == TypeOf(bump(p)) IN <<t[1], <<>>, t[2], TRUE>>
               [] Tok(p) # "..." /\ Tok(n[1]) = "]" -> <<n[1], <<>>, <<"Named", n[2]>>, FALSE>>
               [] Tok(p) # "..." /\ Tok(n[1]) # "]" ->
                    LET a == Tok(c) = "..."
                        t == TypeOf(IF a THEN bump(c) ELSE c)
                    IN <<t[1], <<n[2]>>, t[2], a>>
        v == TypeOf(bump_token(bump_token(k[1], "]"), ":"))
        d == optional(v[1], "=", Expr)
    IN <<skip_newlines(d[1]), <<k[2], k[3], k[4], v[2], d[2]>>>>

\* Two tokens of look-ahead tell an index signature from a list.  The node is
\* <<"sig", s>>, <<"list", e>> or <<"none">>.
parse_schema_index_signature_or_list(p) ==
    LET q == bump(p)
        list == parse_list_expr(q, Line(p))
        sig  == parse_schema_index_signature(q)
    IN CASE Tok(q) \in {"NL", "]"}
            \/ (IsIdent(Tok(q)) /\ Peek(q) # ":" /\ Peek2(q) # ":") -> <<list[1], <<"list", list[2]>>>>
         [] (Tok(q) = "..." /\ IsIdent(Peek(q)))
            \/ (IsIdent(Tok(q)) /\ (Peek(q) = ":" \/ Peek2(q) = ":")) -> <<sig[1], <<"sig", sig[2]>>>>
         [] OTHER -> <<q, <<"none">>>>

\* check_expr+ up to a Dedent or the end of the file.
parse_checks(p) ==
    LET RECURSIVE loop(_, _)
        loop(q, cs) ==
            IF Tok(q) = "DEDENT" THEN <<q, cs>>
            ELSE IF Tok(q) = "EOF" THEN <<err(q), cs>>
            ELSE LET r == parse_check_expr(q) IN
                 loop(drop(skip_newlines(r[1]), q.i), Append(cs, r[2]))
        r == loop(p, <<>>)
    IN <<bump_token(r[1], "DEDENT"), r[2]>>

parse_schema_check_block(p) ==
    IF Tok(p) # "check" THEN <<p, <<>>>>
    ELSE parse_checks(bump_token(skip_newlines(bump_token(bump(p), ":")), "INDENT"))

\* The statements of a schema body; sig is its index signature so far.  An
\* annotated assignment to one name is an attribute.
parse_schema_stmts(p) ==
    LET asAttr(x) == IF x[1] = "Assign" /\ Len(x[3]) = 1 /\ x[5] # <<>>
                     THEN <<"SchemaAttr", x[2], x[3][1], x[5][1], <<"=">>, <<x[4]>>, FALSE, <<>>>> ELSE x
        RECURSIVE loop(_, _, _)
        loop(q, body, sig) ==
            IF Tok(q) \in {"DEDENT", "EOF", "check"} THEN <<q, body, sig>>
            ELSE IF Tok(q) \in {"assert", "if", "@"} \/ Peek(q) = "?"
            THEN LET r == IF Tok(q) = "assert" THEN parse_assert_stmt(q)
                          ELSE IF Tok(q) = "if" THEN IfStmtOf(q) ELSE parse_schema_attribute(q)
                 IN loop(r[1], Append(body, r[2]), sig)
            ELSE IF Tok(q) = "["
            THEN LET r == parse_schema_index_signature_or_list(q)
                     k == r[2][1]
                     e == IF k = "none" \/ (k = "sig" /\ sig # <<>>) THEN err(r[1]) ELSE r[1]
                 IN loop(skip_newlines(e),
                         IF k = "list" THEN Append(body, <<"ExprStmt", Line(q), <<r[2][2]>>>>) ELSE body,
                         IF k = "sig" THEN <<r[2][2]>> ELSE sig)
            ELSE LET r == parse_expr_or_assign_stmt(q, TRUE) IN
                 IF r[2] = <<>> THEN loop(drop(bump(r[1]), q.i), body, sig)
                 ELSE LET x == asAttr(r[2][1]) IN
                      loop(IF x[1] = "SchemaAttr" THEN r[1] ELSE drop(r[1], q.i), Append(body, x), sig)
    IN loop(p, <<>>, <<>>)

\* The fields of a schema that its body gives.
parse_schema_body(p) ==
    LET d == parse_doc(bump(p))
        m == IF Tok(d[1]) = "mixin"
             THEN LET r == parse_mixins(d[1]) IN <<skip_newlines(r[1]), r[2]>> ELSE <<d[1], <<>>>>
        b == parse_schema_stmts(m[1])
        c == parse_schema_check_block(b[1])
    IN <<skip_newlines(bump_token(c[1], "DEDENT")),
         [doc |-> d[2], mixins |-> m[2], body |-> b[2], sig |-> b[3], checks |-> c[2]]>>

\* for_host, of a schema or a rule.
for_host(p) ==
    IF Tok(p) # "for" THEN <<p, <<>>>>
    ELSE LET x == Expr(bump(p))
             n == expr_as_identifier(x[1], x[2])
         IN <<n[1], <<n[2]>>>>

\* [LEFT_BRACKETS [schema_arguments] RIGHT_BRACKETS]
schema_args(p) == IF Tok(p) = "[" THEN parse_parameters(bump(p), {"]"}, TRUE) ELSE <<p, <<>>>>

\* A name that ends in Mixin or Protocol makes the schema one.
parse_schema_stmt(p, decorators) ==
    LET n == parse_identifier(bump(p))
        last == n[2][Len(n[2])]
        a == schema_args(n[1])
        b == IF Tok(a[1]) = "(" THEN LET i == parse_identifier(bump(a[1])) IN
                                     <<bump_token(i[1], ")"), <<i[2]>>>>
             ELSE <<a[1], <<>>>>
        h == for_host(b[1])
        s == skip_newlines(bump_token(h[1], ":"))
        r == IF Tok(s) = "INDENT" THEN parse_schema_body(s)
             ELSE <<s, [doc |-> <<>>, mixins |-> <<>>, body |-> <<>>, sig |-> <<>>, checks |-> <<>>]>>
    IN <<r[1], <<"SchemaStmt", Line(p),
                 [mixin |-> Tok(p) = "mixin" \/ last \in MixinNames,
                  protocol |-> Tok(p) = "protocol" \/ (last \in ProtocolNames \ MixinNames),
                  name |-> n[2], args |-> a[2], parent |-> b[2], host |-> h[2],
                  decorators |-> decorators], r[2]>>>>

parse_rule_stmt(p, decorators) ==
    LET n == parse_identifier(bump(p))
        a == schema_args(n[1])
        RECURSIVE parents(_, _)
        parents(q, ns) ==
            IF Tok(q) = ")" THEN <<bump(q), ns>>
            ELSE IF Tok(q) \in {"NL", "EOF"} THEN <<err(q), ns>>
            ELSE LET x == Expr(q)
                     i == expr_as_identifier(x[1], x[2])
                     z == IF Tok(i[1]) \in {",", ")", "NL", "EOF"} THEN i[1] ELSE bump(err(i[1]))
                 IN parents(IF Tok(z) = "," THEN bump(z) ELSE z, Append(ns, i[2]))
        b == IF Tok(a[1]) = "(" THEN parents(bump(a[1]), <<>>) ELSE <<a[1], <<>>>>
        h == for_host(b[1])
        d == parse_doc(bump_token(skip_newlines(bump_token(h[1], ":")), "INDENT"))
        c == parse_checks(d[1])
    IN <<c[1], <<"Rule", Line(p),
                 [name |-> n[2], args |-> a[2], parents |-> b[2], host |-> h[2],
                  decorators |-> decorators, doc |-> d[2], checks |-> c[2]]>>>>

\* if_stmt | [decorators] schema_stmt | [decorators] rule_stmt.  Decorators
\* before anything else are read and forgotten.
parse_compound_stmt(p) ==
    LET d == IF Tok(p) = "@" THEN parse_decorators(p) ELSE <<p, <<>>>>
        some(r) == <<r[1], <<r[2]>>>>
    IN CASE Tok(p) = "EOF" -> <<p, <<>>>>
         [] Tok(p) = "if" -> some(IfStmtOf(p))
         [] Tok(p) \notin {"EOF", "if"} ->
              IF Tok(d[1]) \in {"schema", "mixin", "protocol"} THEN some(parse_schema_stmt(d[1], d[2]))
              ELSE IF Tok(d[1]) = "rule" THEN some(parse_rule_stmt(d[1], d[2])) ELSE <<d[1], <<>>>>

parse_simple_stmt(p) ==
    LET q == skip_newlines(p)
        some(r) == <<r[1], <<r[2]>>>>
    IN CASE Tok(q) = "import" -> some(parse_import_stmt(q))
         [] Tok(q) = "type" -> some(parse_type_alias_stmt(q))
         [] Tok(q) = "assert" -> some(parse_assert_stmt(q))
         [] Tok(q) \in UnOps -> some(parse_expr_stmt(q))
         [] Tok(q) \notin {"import", "type", "assert"} /\ (IsIdent(Tok(q)) \/ IsLiteral(Tok(q)) \/ Tok(q) \in Open) ->
              parse_expr_or_assign_stmt(q, FALSE)
         [] OTHER -> <<q, <<>>>>

parse_stmt(p) ==
    LET s == skip_newlines(p)
        c == parse_compound_stmt(s)
        m == parse_simple_stmt(c[1])
    IN IF Tok(s) = "EOF" THEN <<s, <<>>>>
       ELSE IF c[2] # <<>> THEN c
       ELSE IF m[2] # <<>> THEN m ELSE <<err(m[1]), <<>>>>

parse(rule, p, prec) ==
    CASE rule = "expr"      -> parse_expr(p)
      [] rule = "simple"    -> do_parse_simple_expr(p, prec)
      [] rule = "primary"   -> parse_primary_expr(p)
      [] rule = "config"    -> parse_config_expr(p)
      [] rule = "list item" -> parse_list_item(p)
      [] rule = "if entry"  -> parse_if_entry_expr(p)
      [] rule = "type"      -> parse_type_annotation(p)
      [] rule = "stmt"      -> parse_stmt(p)
      [] rule = "if stmt"   -> parse_if_stmt(p)

\* start: (NEWLINE | statement)*
parse_body(p) ==
    LET RECURSIVE loop(_, _)
        loop(q, body) ==
            IF Tok(q) = "EOF" THEN <<q, body>>
            ELSE LET r == Stmt(q) IN
                 loop(IF r[2] = <<>> THEN bump(r[1]) ELSE r[1], body \o r[2])
    IN loop(p, <<>>)

parse_module(p) ==
    LET d == parse_doc(p)
        b == parse_body(d[1])
    IN <<b[1], [doc |-> d[2], body |-> b[2]]>>
=============================================================================
