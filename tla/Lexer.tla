------------------------------- MODULE Lexer -------------------------------
(***************************************************************************)
(* The KCL lexer of kclvm/parser: it turns the raw tokens of kclvm/lexer   *)
(* into the stream the parser reads, inserting Indent and Dedent tokens,   *)
(* checking bracket nesting and literals, and recovering from errors by    *)
(* going on.  One action per class of raw token; the text of identifiers,  *)
(* numbers and operators is left out.                                      *)
(*                                                                         *)
(* The raw token is looked at twice: lex_indent_context first decides what *)
(* to insert before it, lex_token then what it becomes.  A token that      *)
(* becomes nothing takes the Indent or Dedents found before it with it     *)
(* (the ghost lost).                                                       *)
(***************************************************************************)
EXTENDS Integers, Sequences, SequencesExt

CONSTANTS MaxRaw,   \* bound: raw tokens of a source text
          MaxOpen   \* bound: brackets open at a time

ASSUME LexerAssumption == MaxRaw \in Nat /\ MaxOpen \in Nat

VARIABLES
    newLine,   \* indent_cxt.new_line_beginning
    delims,    \* indent_cxt.delims, the open brackets, innermost last
    tabs, spaces,  \* the counters of the line being started
    indents,   \* indent_cxt.indents, the levels of the enclosing blocks
    out,       \* the tokens the last step appended to the stream
    depth,     \* Indents minus Dedents in the stream
    nest,      \* the brackets open in the stream, or <<"mismatch">>
    clean,     \* no diagnostic has been given
    lost,      \* Indents minus Dedents that were dropped, a ghost
    level,     \* the level of the line being read, a ghost
    raw,       \* raw tokens read
    done       \* Eof has been pushed

vars == <<newLine, delims, tabs, spaces, indents, out, depth, nest, clean,
          lost, level, raw, done>>

Delims == {"Paren", "Bracket", "Brace"}

Token(k)      == [kind |-> k, delim |-> "none"]
Bracket(k, d) == [kind |-> k, delim |-> d]

Base   == [tabs |-> 0, spaces |-> 0]

Init ==
    /\ newLine = FALSE /\ delims = <<>> /\ tabs = 0 /\ spaces = 0
    /\ indents = <<Base>>
    /\ out = <<>> /\ depth = 0 /\ nest = <<>> /\ clean = TRUE
    /\ lost = 0 /\ level = Base /\ raw = 0 /\ done = FALSE

-----------------------------------------------------------------------------
(* Indentation *)

\* IndentLevel::cmp: levels whose tabs and spaces disagree cannot be compared.
Cmp(a, b) ==
    CASE a.tabs < b.tabs -> IF a.spaces <= b.spaces THEN "Less" ELSE "Err"
      [] a.tabs > b.tabs -> IF a.spaces >= b.spaces THEN "Greater" ELSE "Err"
      [] OTHER -> IF a.spaces < b.spaces THEN "Less"
                  ELSE IF a.spaces > b.spaces THEN "Greater" ELSE "Equal"

\* The loop that pops levels until one is not deeper than the new one.
Keep(l, stack) ==
    CHOOSE k \in 0..Len(stack) :
        /\ \A j \in (k + 1)..Len(stack) : Cmp(l, stack[j]) = "Less"
        /\ k = 0 \/ Cmp(l, stack[k]) # "Less"

\* Popping one level only, however many blocks the line closes.
LexIndentPopsOne(l, stack) ==
    LET o == Cmp(l, Last(stack)) IN
    CASE o = "Greater" -> [stack |-> Append(stack, l), toks |-> <<Token("Indent")>>, errs |-> 0]
      [] o = "Less"    -> [stack |-> Front(stack), toks |-> <<Token("Dedent")>>, errs |-> 0]
      [] o = "Equal"   -> [stack |-> stack, toks |-> <<>>, errs |-> 0]
      [] o = "Err"     -> [stack |-> stack, toks |-> <<>>, errs |-> 1]

\* lex_indent: the new stack, the tokens to insert and the errors to report.
\* A dedent to no enclosing level is reported, and the stack stays popped.
LexIndent(l, stack) ==
    LET o == Cmp(l, Last(stack))
        k == Keep(l, stack)
    IN CASE o = "Greater" -> [stack |-> Append(stack, l), toks |-> <<Token("Indent")>>, errs |-> 0]
         [] o = "Less"    -> [stack |-> SubSeq(stack, 1, k),
                              toks  |-> [i \in 1..(Len(stack) - k) |-> Token("Dedent")],
                              errs  |-> IF Cmp(l, stack[k]) = "Equal" THEN 0 ELSE 1]
         [] o = "Equal"   -> [stack |-> stack, toks |-> <<>>, errs |-> 0]
         [] o = "Err"     -> [stack |-> stack, toks |-> <<>>, errs |-> 1]

\* Indents minus Dedents among toks.
Net(toks) == IF toks = <<>> THEN 0 ELSE IF toks[1] = Token("Indent") THEN 1 ELSE -Len(toks)

\* TokenStreamBuilder::push of the indentation found and of the token itself;
\* a reader that opens and closes brackets keeps them in nest.
Push(ind, tok) ==
    /\ out' = ind \o <<tok>>
    /\ depth' = depth + Net(ind)
    /\ nest' = CASE tok.kind = "Open" -> Append(nest, tok.delim)
                 [] tok.kind = "Close" /\ nest # <<>> ->
                      IF tok.delim = Last(nest) THEN Front(nest) ELSE <<"mismatch">>
                 [] OTHER -> nest

PushNothing == out' = <<>> /\ UNCHANGED <<depth, nest>>

\* lex_indent_context for a token that is not blank.
LineStart ==
    IF newLine THEN LexIndent([tabs |-> tabs, spaces |-> spaces], indents)
               ELSE [stack |-> indents, toks |-> <<>>, errs |-> 0]

OpensLine ==
    /\ indents' = LineStart.stack
    /\ newLine' = FALSE
    /\ IF newLine THEN tabs' = 0 /\ spaces' = 0 /\ level' = [tabs |-> tabs, spaces |-> spaces]
                  ELSE UNCHANGED <<tabs, spaces, level>>

\* The token tok, found faulty or not by lex_token, after its indentation.
Emit(tok, ok) ==
    /\ OpensLine
    /\ Push(LineStart.toks, tok)
    /\ clean' = (clean /\ LineStart.errs = 0 /\ ok)
    /\ UNCHANGED lost

\* lex_token returned None: the indentation goes with the token.
EmitNothing(ok) ==
    /\ OpensLine
    /\ PushNothing
    /\ clean' = (clean /\ LineStart.errs = 0 /\ ok)
    /\ lost' = lost + Net(LineStart.toks)

-----------------------------------------------------------------------------
(* Raw tokens *)

Read == ~done /\ raw < MaxRaw /\ raw' = raw + 1 /\ UNCHANGED done

\* A tab or a space counts only at the start of a line.
Blank ==
    /\ Read
    /\ \/ /\ newLine
          /\ \/ tabs' = tabs + 1 /\ UNCHANGED spaces
             \/ spaces' = spaces + 1 /\ UNCHANGED tabs
       \/ ~newLine /\ UNCHANGED <<tabs, spaces>>
    /\ PushNothing
    /\ UNCHANGED <<newLine, delims, indents, clean, lost, level>>

\* A newline or a comment: an empty line has no level.
NewlineOrComment ==
    /\ Read
    /\ IF newLine THEN tabs' = 0 /\ spaces' = 0 ELSE UNCHANGED <<tabs, spaces>>
    /\ \/ newLine' = TRUE /\ Push(<<>>, Token("Newline"))
       \/ UNCHANGED newLine /\ Push(<<>>, Token("Comment"))
    /\ UNCHANGED <<delims, indents, clean, lost, level>>

\* Identifiers, literals and operators become one token; a malformed literal
\* is reported and becomes an empty one.
Word == Read /\ (\E ok \in BOOLEAN : Emit(Token("Word"), ok)) /\ UNCHANGED delims

\* Carriage returns, other white space, line continuations, and, with an error,
\* invalid continuations and unknown characters become nothing.
Skipped == Read /\ (\E ok \in BOOLEAN : EmitNothing(ok)) /\ UNCHANGED delims

Open ==
    /\ Read /\ Len(delims) < MaxOpen
    /\ \E d \in Delims :
         /\ Emit(Bracket("Open", d), TRUE)
         /\ delims' = Append(delims, d)

\* A closing bracket that trusts the source.
CloseTrusting ==
    /\ Read
    /\ \E d \in Delims : Emit(Bracket("Close", d), TRUE)
    /\ delims' = IF delims = <<>> THEN <<>> ELSE Front(delims)

\* A closing bracket closes the innermost open one, whichever it is: a
\* mismatch is reported and the expected bracket emitted in its place.
Close ==
    /\ Read
    /\ \E d \in Delims :
         IF delims = <<>>
         THEN Emit(Bracket("Close", d), FALSE) /\ UNCHANGED delims
         ELSE /\ Emit(Bracket("Close", Last(delims)), d = Last(delims))
              /\ delims' = Front(delims)

\* eof: end the last line, close every open block.
Eof ==
    LET dedents == [i \in 1..(Len(indents) - 1) |-> Token("Dedent")] IN
    /\ ~done /\ done' = TRUE
    /\ newLine' = TRUE
    /\ out' = (IF newLine THEN <<>> ELSE <<Token("Newline")>>) \o dedents \o <<Token("Eof")>>
    /\ depth' = depth + Net(dedents)
    /\ indents' = <<Head(indents)>>
    /\ UNCHANGED <<delims, tabs, spaces, nest, clean, lost, level, raw>>

Next == Blank \/ NewlineOrComment \/ Word \/ Skipped \/ Open \/ Close \/ Eof

Spec == Init /\ [][Next]_vars /\ WF_vars(Eof)

-----------------------------------------------------------------------------
(* String literals: lex_literal cuts prefix and quotes off the token's text *)

\* Where the content ends in a token of n characters, and where it starts.
StrOffset(is_raw, triple) == (IF triple THEN 3 ELSE 1) + (IF is_raw THEN 1 ELSE 0)

StrEnd(n, is_raw, triple, terminated) ==
    n - StrOffset(is_raw, triple) + (IF is_raw THEN 1 ELSE 0)
      + (IF terminated THEN 0 ELSE IF triple THEN 3 ELSE 1)

-----------------------------------------------------------------------------
(* Properties *)

(* The stack of levels starts at the margin and deepens strictly, whatever *)
(* the mixture of tabs, spaces and earlier errors: so the popping loop of  *)
(* lex_indent always stops above the bottom, and last_indent never finds   *)
(* the stack empty and has to repair it.                                   *)
StackOK ==
    /\ indents # <<>> /\ indents[1] = Base
    /\ \A i \in 2..Len(indents) : Cmp(indents[i], indents[i - 1]) = "Greater"

(* Indent and Dedent tokens in the stream balance the stack at every       *)
(* point, and so each other at the end, after any number of errors; the    *)
(* only ones missing are those a skipped token took away.                  *)
Balanced == depth + lost = Len(indents) - 1

(* Without an error report, the innermost block is the one of the line     *)
(* being read: a dedent has stopped exactly at a level that was opened.    *)
BlockOfLine == clean /\ ~newLine /\ ~done => Last(indents) = level

(* Blocks are what the margins say, after any errors: the stack, the       *)
(* Indent and Dedent tokens and the margin of the line agree.              *)
BlocksMatch == StackOK /\ Balanced /\ BlockOfLine

(* The brackets of the stream nest, also where those of the source do not: *)
(* the recovery emits the closing bracket that fits, and the parser never  *)
(* meets a closing bracket of another kind than the one it has open.       *)
BracketsNest == nest = delims

(* The content of a string literal is exactly what stands between prefix   *)
(* and quotes, raw or not, long or not, terminated or not.                 *)
StringContent ==
    \A is_raw, triple, terminated \in BOOLEAN : \A len \in 0..raw :
        LET q == IF triple THEN 3 ELSE 1
            n == (IF is_raw THEN 1 ELSE 0) + q + len + (IF terminated THEN q ELSE 0)
        IN StrEnd(n, is_raw, triple, terminated) - StrOffset(is_raw, triple) = len

(* The tokens that the parser is given: brackets that nest, and strings    *)
(* with their exact content.                                               *)
TokensExact == BracketsNest /\ StringContent
=============================================================================
