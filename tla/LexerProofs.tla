---------------------------- MODULE LexerProofs ----------------------------
(* Theorems about Lexer, for source texts of any length and nesting. *)
EXTENDS Lexer, WellFoundedInduction, TLAPS

Levels == [tabs : Nat, spaces : Nat]

TypeOK ==
    /\ newLine \in BOOLEAN /\ clean \in BOOLEAN /\ done \in BOOLEAN
    /\ tabs \in Nat /\ spaces \in Nat /\ raw \in Nat
    /\ indents \in Seq(Levels) /\ level \in Levels
    /\ depth \in Int /\ lost \in Int
    /\ delims \in Seq(Delims)

IInv == TypeOK /\ BlocksMatch /\ TokensExact

\* IndentLevel::cmp: equal levels are the same, and nothing is left of the margin.
LEMMA CmpFacts ==
  ASSUME NEW a \in Levels, NEW b \in Levels
  PROVE  /\ Cmp(a, b) \in {"Less", "Greater", "Equal", "Err"}
         /\ Cmp(a, b) = "Equal" => a = b
         /\ Base \in Levels /\ Cmp(a, Base) # "Less"
  <1>1. a.tabs \in Nat /\ a.spaces \in Nat /\ b.tabs \in Nat /\ b.spaces \in Nat
        /\ a = [tabs |-> a.tabs, spaces |-> a.spaces] /\ b = [tabs |-> b.tabs, spaces |-> b.spaces]
    BY DEF Levels
  <1>2. Base \in Levels /\ Base.tabs = 0 /\ Base.spaces = 0
    BY DEF Base, Levels
  <1>3. Cmp(a, b) \in {"Less", "Greater", "Equal", "Err"}
    BY <1>1 DEF Cmp
  <1>4. Cmp(a, b) = "Equal" => a.tabs = b.tabs /\ a.spaces = b.spaces
    BY <1>1 DEF Cmp
  <1>5. Cmp(a, Base) # "Less"
    BY <1>1, <1>2 DEF Cmp
  <1> QED BY <1>1, <1>2, <1>3, <1>4, <1>5

\* A nonempty set of numbers up to n has a greatest one.
LEMMA Greatest ==
  ASSUME NEW n \in Nat, NEW S \in SUBSET (0..n), S # {}
  PROVE  \E k \in S : \A j \in S : j <= k
  <1> DEFINE T == {i \in Nat : \E k \in S : i = n - k}
             R == OpToRel(<, Nat)
  <1>1. T \subseteq Nat /\ T # {}
    <2>1. PICK k \in S : k \in 0..n
      OBVIOUS
    <2>2. n - k \in T
      BY <2>1
    <2> QED BY <2>2
  <1>2. PICK x \in T : \A y \in T : ~(<<y, x>> \in R)
    <2> HIDE DEF T, R
    <2>1. IsWellFoundedOn(R, Nat)
      BY NatLessThanWellFounded DEF R
    <2> QED BY <1>1, <2>1, WFMin
  <1>3. \A y \in T : ~(y < x)
    BY <1>1, <1>2 DEF OpToRel
  <1>4. PICK k \in S : x = n - k
    OBVIOUS
  <1>5. ASSUME NEW j \in S PROVE j <= k
    <2>1. j \in 0..n /\ k \in 0..n
      OBVIOUS
    <2>2. n - j \in T
      BY <2>1
    <2>3. ~(n - j < n - k)
      BY <1>3, <1>4, <2>2
    <2> QED BY <2>1, <2>3
  <1> QED BY <1>5

\* The popping loop stops at a level that is not deeper than the new one, and
\* never below the margin.
LEMMA KeepFacts ==
  ASSUME NEW l \in Levels, NEW stack \in Seq(Levels), stack # <<>>, stack[1] = Base
  PROVE  Keep(l, stack) \in 1..Len(stack)
  <1> DEFINE P(k) == /\ \A j \in (k + 1)..Len(stack) : Cmp(l, stack[j]) = "Less"
                     /\ k = 0 \/ Cmp(l, stack[k]) # "Less"
             S == {k \in 0..Len(stack) : k = 0 \/ Cmp(l, stack[k]) # "Less"}
  <1>n. Len(stack) \in Nat /\ 1 \in 1..Len(stack)
    OBVIOUS
  <1>1. PICK k \in S : \A j \in S : j <= k
    <2>1. S \in SUBSET (0..Len(stack)) /\ 0 \in S
      BY <1>n
    <2> HIDE DEF S
    <2> QED BY <2>1, <1>n, Greatest
  <1>2. k \in 0..Len(stack) /\ P(k)
    <2>1. ASSUME NEW j \in (k + 1)..Len(stack) PROVE Cmp(l, stack[j]) = "Less"
      <3>1. j \in 0..Len(stack) /\ ~(j <= k)
        BY <1>n
      <3>2. j \notin S
        BY <1>1, <3>1
      <3> QED BY <3>1, <3>2
    <2> QED BY <2>1
  <1>3. Keep(l, stack) \in 0..Len(stack) /\ P(Keep(l, stack))
    <2> HIDE DEF P
    <2>1. Keep(l, stack) = CHOOSE i \in 0..Len(stack) : P(i)
      BY DEF Keep, P
    <2> QED BY <1>2, <2>1
  <1>4. Keep(l, stack) # 0
    <2> SUFFICES ASSUME Keep(l, stack) = 0 PROVE FALSE
      OBVIOUS
    <2>1. Cmp(l, stack[1]) = "Less"
      BY <1>3, <1>n
    <2>2. Cmp(l, Base) # "Less"
      BY CmpFacts
    <2> QED BY <2>1, <2>2
  <1> QED BY <1>3, <1>4

\* Each level of the stack is deeper than the one below it, from the margin up.
Deepens(stack) ==
    /\ stack # <<>> /\ stack[1] = Base
    /\ \A i \in 2..Len(stack) : Cmp(stack[i], stack[i - 1]) = "Greater"

\* lex_indent keeps a deepening stack, accounts for it with the tokens it
\* returns, and ends on the new level itself unless it reports an error.
LEMMA LexIndentFacts ==
  ASSUME NEW l \in Levels, NEW stack \in Seq(Levels), Deepens(stack)
  PROVE  LET r == LexIndent(l, stack) IN
         /\ r.stack \in Seq(Levels) /\ Deepens(r.stack)
         /\ Net(r.toks) \in Int /\ Len(r.stack) = Len(stack) + Net(r.toks)
         /\ r.errs = 0 => Last(r.stack) = l
  <1> DEFINE r == LexIndent(l, stack)
             o == Cmp(l, Last(stack))
             k == Keep(l, stack)
  <1>n. Len(stack) \in Nat /\ Len(stack) \in 1..Len(stack) /\ Last(stack) = stack[Len(stack)]
        /\ Last(stack) \in Levels /\ 1 \in 1..Len(stack)
    BY DEF Last, Deepens
  <1>0. o \in {"Less", "Greater", "Equal", "Err"} /\ (o = "Equal" => l = Last(stack))
    BY <1>n, CmpFacts
  <1>1. CASE o = "Greater"
    <2>1. r = [stack |-> Append(stack, l), toks |-> <<Token("Indent")>>, errs |-> 0]
      BY <1>1 DEF LexIndent
    <2>2. r.stack = Append(stack, l) /\ r.toks = <<Token("Indent")>>
      BY <2>1
    <2>3. Net(r.toks) = 1
      BY <2>2 DEF Net
    <2> DEFINE s == r.stack
    <2> HIDE DEF r
    <2>4. /\ s \in Seq(Levels) /\ Len(s) = Len(stack) + 1 /\ s # <<>>
          /\ s[Len(s)] = l /\ \A i \in 1..Len(stack) : s[i] = stack[i]
      BY <2>2
    <2>5. \A i \in 2..Len(s) : Cmp(s[i], s[i - 1]) = "Greater"
      <3> SUFFICES ASSUME NEW i \in 2..Len(s) PROVE Cmp(s[i], s[i - 1]) = "Greater"
        OBVIOUS
      <3>1. CASE i = Len(s)
        <4>1. s[i - 1] = stack[Len(stack)] /\ s[i] = l
          BY <3>1, <2>4, <1>n
        <4> QED BY <4>1, <1>1, <1>n
      <3>2. CASE i # Len(s)
        <4>1. i \in 2..Len(stack) /\ i - 1 \in 1..Len(stack) /\ i \in 1..Len(stack)
          BY <3>2, <2>4, <1>n
        <4>2. s[i] = stack[i] /\ s[i - 1] = stack[i - 1]
          BY <4>1, <2>4
        <4> QED BY <4>1, <4>2 DEF Deepens
      <3> QED BY <3>1, <3>2
    <2>6. s[1] = Base
      BY <2>4, <1>n DEF Deepens
    <2> QED BY <2>3, <2>4, <2>5, <2>6 DEF Deepens, Last, r
  <1>2. CASE o = "Less"
    <2> DEFINE d == [i \in 1..(Len(stack) - k) |-> Token("Dedent")]
               e == IF Cmp(l, stack[k]) = "Equal" THEN 0 ELSE 1
               p == SubSeq(stack, 1, k)
    <2>1. r = [stack |-> p, toks |-> d, errs |-> e]
      BY <1>2 DEF LexIndent
    <2>2. /\ r.stack = SubSeq(stack, 1, k)
          /\ r.toks = [i \in 1..(Len(stack) - k) |-> Token("Dedent")]
          /\ r.errs = 0 => Cmp(l, stack[k]) = "Equal"
      <3>1. e = 0 => Cmp(l, stack[k]) = "Equal"
        OBVIOUS
      <3>2. r.stack = p /\ r.toks = d /\ r.errs = e
        <4> HIDE DEF r, p, d, e
        <4> QED BY <2>1
      <3> QED BY <3>1, <3>2
    <2>3. k \in 1..Len(stack)
      BY KeepFacts DEF Deepens
    <2> DEFINE s == r.stack
    <2> HIDE DEF r, k
    <2>4. /\ s \in Seq(Levels) /\ Len(s) = k /\ s # <<>> /\ \A i \in 1..k : s[i] = stack[i]
      <3>1. 1 \in 1..Len(stack) /\ k \in Nat /\ k >= 1 /\ k <= Len(stack)
        BY <2>3, <1>n
      <3>2. p \in Seq(Levels) /\ Len(p) = k /\ \A i \in 1..k : p[i] = stack[i]
        BY <3>1
      <3>3. s = p
        BY <2>2
      <3>4. p # <<>>
        BY <3>1, <3>2
      <3> HIDE DEF s, p
      <3> QED BY <3>2, <3>3, <3>4
    <2>5. Net(r.toks) = -(Len(stack) - k)
      <3>1. Len(stack) - k \in Nat
        BY <2>3, <1>n
      <3>2. r.toks \in Seq({Token("Dedent")}) /\ Len(r.toks) = Len(stack) - k
        BY <2>2, <3>1
      <3>3. Len(stack) - k # 0 => r.toks # <<>> /\ r.toks[1] = Token("Dedent")
        BY <2>2, <3>1, <3>2
      <3>4. Len(stack) - k = 0 => r.toks = <<>>
        BY <3>2
      <3>5. Token("Dedent") # Token("Indent")
        BY DEF Token
      <3> QED BY <3>1, <3>2, <3>3, <3>4, <3>5 DEF Net
    <2>6. \A i \in 2..Len(s) : Cmp(s[i], s[i - 1]) = "Greater"
      BY <2>3, <2>4, <1>n DEF Deepens
    <2>7. s[1] = Base
      BY <2>3, <2>4 DEF Deepens
    <2>8. r.errs = 0 => s[Len(s)] = l
      <3>1. stack[k] \in Levels
        BY <2>3
      <3> QED BY <2>2, <2>3, <2>4, <3>1, CmpFacts
    <2>9. Net(r.toks) \in Int /\ Len(s) = Len(stack) + Net(r.toks)
      BY <2>3, <2>4, <2>5, <1>n
    <2> QED BY <2>4, <2>6, <2>7, <2>8, <2>9 DEF Deepens, Last, r
  <1>3. CASE o = "Equal"
    <2>1. r = [stack |-> stack, toks |-> <<>>, errs |-> 0]
      BY <1>3 DEF LexIndent
    <2>2. r.stack = stack /\ Net(r.toks) = 0
      BY <2>1 DEF Net
    <2> QED BY <2>2, <1>n, <1>0, <1>3
  <1>4. CASE o = "Err"
    <2>1. r = [stack |-> stack, toks |-> <<>>, errs |-> 1]
      BY <1>4 DEF LexIndent
    <2>2. r.stack = stack /\ Net(r.toks) = 0 /\ r.errs = 1
      BY <2>1 DEF Net
    <2> QED BY <2>2, <1>n
  <1> QED BY <1>0, <1>1, <1>2, <1>3, <1>4

\* lex_literal: prefix, quotes and content add up to the token, whatever the literal.
LEMMA StringsCut ==
  ASSUME NEW is_raw \in BOOLEAN, NEW triple \in BOOLEAN, NEW terminated \in BOOLEAN, NEW len \in Nat
  PROVE  LET q == IF triple THEN 3 ELSE 1
             n == (IF is_raw THEN 1 ELSE 0) + q + len + (IF terminated THEN q ELSE 0)
         IN StrEnd(n, is_raw, triple, terminated) - StrOffset(is_raw, triple) = len
  BY DEF StrEnd, StrOffset

\* What the lines read so far have left behind does not matter: the margin of
\* the next line is accounted for, with or without its first token.
LEMMA LineStartFacts ==
  ASSUME IInv
  PROVE  /\ LineStart.stack \in Seq(Levels) /\ Deepens(LineStart.stack)
         /\ Net(LineStart.toks) \in Int
         /\ Len(LineStart.stack) = Len(indents) + Net(LineStart.toks)
         /\ newLine /\ LineStart.errs = 0 => Last(LineStart.stack) = [tabs |-> tabs, spaces |-> spaces]
         /\ ~newLine => LineStart.stack = indents
  <1> DEFINE l == [tabs |-> tabs, spaces |-> spaces]
  <1>1. l \in Levels /\ indents \in Seq(Levels) /\ Deepens(indents)
    BY DEF IInv, TypeOK, BlocksMatch, StackOK, Deepens, Levels
  <1>2. CASE newLine
    <2>1. LineStart = LexIndent(l, indents)
      BY <1>2 DEF LineStart
    <2> HIDE DEF l
    <2>2. LineStart.errs = 0 => Last(LineStart.stack) = l
      BY <1>1, <2>1, LexIndentFacts
    <2>3. /\ LineStart.stack \in Seq(Levels) /\ Deepens(LineStart.stack)
          /\ Net(LineStart.toks) \in Int
          /\ Len(LineStart.stack) = Len(indents) + Net(LineStart.toks)
      BY <1>1, <2>1, LexIndentFacts
    <2> QED BY <1>2, <2>2, <2>3 DEF l
  <1>3. CASE ~newLine
    <2>1. LineStart = [stack |-> indents, toks |-> <<>>, errs |-> 0]
      BY <1>3 DEF LineStart
    <2>2. LineStart.stack = indents /\ LineStart.toks = <<>>
      BY <2>1
    <2>3. Net(LineStart.toks) = 0
      BY <2>2 DEF Net
    <2> QED BY <1>1, <1>3, <2>2, <2>3
  <1> QED BY <1>2, <1>3

\* The indentation half of a token that is not blank, kept or dropped.
LEMMA OpensLineFacts ==
  ASSUME IInv, OpensLine, ~done, UNCHANGED done,
         clean' = TRUE => clean /\ LineStart.errs = 0, clean' \in BOOLEAN,
         \/ depth' = depth + Net(LineStart.toks) /\ UNCHANGED lost
         \/ lost' = lost + Net(LineStart.toks) /\ UNCHANGED depth
  PROVE  /\ BlocksMatch'
         /\ newLine' \in BOOLEAN /\ tabs' \in Nat /\ spaces' \in Nat
         /\ indents' \in Seq(Levels) /\ level' \in Levels /\ depth' \in Int /\ lost' \in Int
  <1>t. /\ newLine \in BOOLEAN /\ tabs \in Nat /\ spaces \in Nat /\ depth \in Int /\ lost \in Int
        /\ indents \in Seq(Levels) /\ level \in Levels
        /\ depth + lost = Len(indents) - 1
    BY DEF IInv, TypeOK, BlocksMatch, Balanced
  <1>1. /\ indents' \in Seq(Levels) /\ Deepens(indents')
        /\ Net(LineStart.toks) \in Int
        /\ Len(indents') = Len(indents) + Net(LineStart.toks)
        /\ newLine /\ LineStart.errs = 0 => Last(indents') = [tabs |-> tabs, spaces |-> spaces]
        /\ ~newLine => indents' = indents
    BY LineStartFacts DEF OpensLine
  <1>2. StackOK'
    BY <1>1 DEF StackOK, Deepens
  <1>3. Len(indents) \in Nat
    BY <1>t
  <1>4. Balanced' /\ depth' \in Int /\ lost' \in Int
    BY <1>1, <1>3, <1>t DEF Balanced
  <1>5. /\ newLine' = FALSE
        /\ newLine => tabs' = 0 /\ spaces' = 0 /\ level' = [tabs |-> tabs, spaces |-> spaces]
        /\ ~newLine => UNCHANGED <<tabs, spaces, level>>
    BY DEF OpensLine
  <1>6. tabs' \in Nat /\ spaces' \in Nat /\ level' \in Levels
    BY <1>5, <1>t DEF Levels
  <1>7. BlockOfLine'
    <2> SUFFICES ASSUME clean' PROVE Last(indents') = level'
      BY DEF BlockOfLine
    <2>1. clean /\ LineStart.errs = 0
      OBVIOUS
    <2>2. CASE newLine
      BY <2>1, <2>2, <1>1, <1>5
    <2>3. CASE ~newLine
      <3>1. Last(indents) = level
        BY <2>1, <2>3 DEF IInv, BlocksMatch, BlockOfLine
      <3> QED BY <3>1, <2>3, <1>1, <1>5
    <2> QED BY <2>2, <2>3
  <1> QED BY <1>1, <1>2, <1>4, <1>5, <1>6, <1>7 DEF BlocksMatch

\* The lexer starts at the margin with nothing open.
LEMMA InvInit == Init => IInv
  <1> SUFFICES ASSUME Init PROVE IInv
    OBVIOUS
  <1>1. Base \in Levels /\ <<Base>> \in Seq(Levels) /\ Len(<<Base>>) = 1 /\ <<Base>>[1] = Base /\ <<Base>> # <<>>
    BY DEF Base, Levels
  <1>2. TypeOK
    <2>1. <<>> \in Seq(Delims)
      OBVIOUS
    <2>2. delims \in Seq(Delims) /\ indents \in Seq(Levels) /\ level \in Levels
      BY <1>1, <2>1 DEF Init
    <2>3. depth \in Int /\ lost \in Int /\ tabs \in Nat /\ spaces \in Nat /\ raw \in Nat
      BY DEF Init
    <2>4. newLine \in BOOLEAN /\ clean \in BOOLEAN /\ done \in BOOLEAN
      BY DEF Init
    <2> QED BY <2>2, <2>3, <2>4 DEF TypeOK
  <1>3. BlocksMatch
    BY <1>1 DEF Init, BlocksMatch, StackOK, Balanced, BlockOfLine, Last
  <1>4. TokensExact
    <2>1. raw = 0 /\ nest = delims
      BY DEF Init
    <2>2. \A len \in 0..raw : len \in Nat
      BY <2>1
    <2>3. StringContent
      BY <2>2, StringsCut DEF StringContent
    <2> QED BY <2>1, <2>3 DEF TokensExact, BracketsNest
  <1> QED BY <1>2, <1>3, <1>4 DEF IInv

\* Every raw token and the end of the file keep blocks and brackets right.
LEMMA InvStep == IInv /\ [Next]_vars => IInv'
  <1> SUFFICES ASSUME IInv, [Next]_vars PROVE IInv'
    OBVIOUS
  <1>t. TypeOK /\ BlocksMatch /\ TokensExact
    BY DEF IInv
  <1>n. nest = delims /\ delims \in Seq(Delims)
    BY <1>t DEF TokensExact, BracketsNest, TypeOK
  <1>x. ASSUME raw' \in Nat, nest' = delims' PROVE TokensExact'
    <2>1. StringContent'
      <3>1. \A len \in 0..raw' : len \in Nat
        BY <1>x
      <3> QED BY <3>1, StringsCut DEF StringContent, StrEnd, StrOffset
    <2> QED BY <1>x, <2>1 DEF TokensExact, BracketsNest
  <1>r. Read => ~done /\ UNCHANGED done /\ raw' \in Nat
    BY <1>t DEF Read, TypeOK
  <1>e. ASSUME Read, OpensLine, clean' \in BOOLEAN, clean' = TRUE => clean /\ LineStart.errs = 0,
               \/ depth' = depth + Net(LineStart.toks) /\ UNCHANGED lost
               \/ lost' = lost + Net(LineStart.toks) /\ UNCHANGED depth,
               delims' \in Seq(Delims), nest' = delims'
        PROVE IInv'
    <2>1. ~done /\ UNCHANGED done /\ raw' \in Nat
      BY <1>e, <1>r
    <2>2. /\ BlocksMatch'
          /\ newLine' \in BOOLEAN /\ tabs' \in Nat /\ spaces' \in Nat
          /\ indents' \in Seq(Levels) /\ level' \in Levels /\ depth' \in Int /\ lost' \in Int
      BY <1>e, <2>1, OpensLineFacts
    <2>3. TypeOK'
      BY <1>e, <1>t, <2>1, <2>2 DEF TypeOK
    <2> QED BY <1>e, <1>x, <2>1, <2>2, <2>3 DEF IInv
  <1>m. ASSUME NEW tok, NEW ok \in BOOLEAN, Emit(tok, ok)
        PROVE /\ OpensLine /\ Push(LineStart.toks, tok)
              /\ depth' = depth + Net(LineStart.toks) /\ UNCHANGED lost
              /\ clean' \in BOOLEAN /\ (clean' = TRUE => clean /\ LineStart.errs = 0)
    BY <1>m DEF Emit, Push
  <1>1. CASE Blank
    <2>1. /\ UNCHANGED <<newLine, delims, indents, clean, lost, level, depth, nest>>
          /\ tabs' \in Nat /\ spaces' \in Nat
      BY <1>1, <1>t DEF Blank, PushNothing, TypeOK
    <2>2. raw' \in Nat /\ UNCHANGED done
      BY <1>1, <1>r DEF Blank
    <2>3. TypeOK'
      BY <1>t, <2>1, <2>2 DEF TypeOK
    <2>4. BlocksMatch'
      BY <1>t, <2>1, <2>2 DEF BlocksMatch, StackOK, Balanced, BlockOfLine
    <2> QED BY <2>1, <2>2, <2>3, <2>4, <1>n, <1>x DEF IInv
  <1>2. CASE NewlineOrComment
    <2>1. /\ UNCHANGED <<delims, indents, clean, lost, level>>
          /\ tabs' \in Nat /\ spaces' \in Nat
          /\ newLine' = newLine \/ newLine' = TRUE
      BY <1>2, <1>t DEF NewlineOrComment, TypeOK
    <2>2. raw' \in Nat /\ UNCHANGED done
      BY <1>2, <1>r DEF NewlineOrComment
    <2>3. Net(<<>>) = 0
      BY DEF Net
    <2>4. Push(<<>>, Token("Newline")) \/ Push(<<>>, Token("Comment"))
      BY <1>2 DEF NewlineOrComment
    <2>5. UNCHANGED nest
      BY <2>4 DEF Push, Token
    <2>6. UNCHANGED depth
      BY <2>3, <2>4, <1>t DEF Push, TypeOK
    <2>7. TypeOK'
      BY <1>t, <2>1, <2>2, <2>6 DEF TypeOK
    <2>8. BlocksMatch'
      BY <1>t, <2>1, <2>2, <2>6 DEF BlocksMatch, StackOK, Balanced, BlockOfLine
    <2> QED BY <2>1, <2>2, <2>5, <2>7, <2>8, <1>n, <1>x DEF IInv
  <1>3. CASE Word
    <2>1. PICK ok \in BOOLEAN : Emit(Token("Word"), ok)
      BY <1>3 DEF Word
    <2>2. UNCHANGED <<nest, delims>>
      BY <2>1, <1>3 DEF Emit, Push, Token, Word
    <2> QED BY <2>1, <2>2, <1>3, <1>m, <1>n, <1>e DEF Word
  <1>4. CASE Skipped
    <2>1. PICK ok \in BOOLEAN : EmitNothing(ok)
      BY <1>4 DEF Skipped
    <2>2. UNCHANGED <<nest, delims, depth>> /\ lost' = lost + Net(LineStart.toks)
      BY <2>1, <1>4 DEF EmitNothing, PushNothing, Skipped
    <2>3. OpensLine /\ clean' \in BOOLEAN /\ (clean' = TRUE => clean /\ LineStart.errs = 0)
      BY <2>1 DEF EmitNothing
    <2> QED BY <2>2, <2>3, <1>4, <1>n, <1>e DEF Skipped
  <1>5. CASE Open
    <2>1. PICK d \in Delims : Emit(Bracket("Open", d), TRUE) /\ delims' = Append(delims, d)
      BY <1>5 DEF Open
    <2>2. nest' = Append(nest, d)
      BY <2>1 DEF Emit, Push, Bracket
    <2>3. delims' \in Seq(Delims) /\ nest' = delims'
      BY <2>1, <2>2, <1>n
    <2> QED BY <2>1, <2>3, <1>5, <1>m, <1>e DEF Open
  <1>6. CASE Close
    <2>1. PICK d \in Delims :
             IF delims = <<>>
             THEN Emit(Bracket("Close", d), FALSE) /\ UNCHANGED delims
             ELSE /\ Emit(Bracket("Close", Last(delims)), d = Last(delims))
                  /\ delims' = Front(delims)
      BY <1>6 DEF Close
    <2>2. CASE delims = <<>>
      <3>1. Emit(Bracket("Close", d), FALSE) /\ UNCHANGED delims
        BY <2>1, <2>2
      <3>2. nest' = nest
        BY <3>1, <2>2, <1>n DEF Emit, Push, Bracket
      <3> QED BY <3>1, <3>2, <1>6, <1>m, <1>n, <1>e DEF Close
    <2>3. CASE delims # <<>>
      <3>1. Emit(Bracket("Close", Last(delims)), d = Last(delims)) /\ delims' = Front(delims)
        BY <2>1, <2>3
      <3>2. nest' = Front(nest)
        BY <3>1, <2>3, <1>n DEF Emit, Push, Bracket
      <3>3. Front(delims) \in Seq(Delims)
        BY <1>n, <2>3 DEF Front
      <3> QED BY <3>1, <3>2, <3>3, <1>6, <1>m, <1>n, <1>e DEF Close
    <2> QED BY <2>2, <2>3
  <1>7. CASE Eof
    <2> DEFINE dedents == [i \in 1..(Len(indents) - 1) |-> Token("Dedent")]
    <2>0. indents \in Seq(Levels) /\ indents # <<>> /\ indents[1] = Base /\ depth + lost = Len(indents) - 1
          /\ depth \in Int /\ lost \in Int
      BY <1>t DEF TypeOK, BlocksMatch, StackOK, Balanced
    <2>1. Len(indents) - 1 \in Nat
      BY <2>0
    <2>2. Net(dedents) = -(Len(indents) - 1)
      <3>2. dedents \in Seq({Token("Dedent")}) /\ Len(dedents) = Len(indents) - 1
        BY <2>1
      <3> HIDE DEF dedents
      <3>3. Len(indents) - 1 # 0 => dedents # <<>> /\ dedents[1] = Token("Dedent")
        BY <2>1, <3>2
      <3>4. Len(indents) - 1 = 0 => dedents = <<>>
        BY <3>2
      <3>5. Token("Dedent") # Token("Indent")
        BY DEF Token
      <3> QED BY <2>1, <3>2, <3>3, <3>4, <3>5 DEF Net
    <2>3. /\ done' = TRUE /\ newLine' = TRUE /\ depth' = depth + Net(dedents)
          /\ indents' = <<Head(indents)>>
          /\ UNCHANGED <<delims, tabs, spaces, nest, clean, lost, level, raw>>
      BY <1>7 DEF Eof
    <2> HIDE DEF dedents
    <2>4. Head(indents) = Base /\ Base \in Levels
      BY <2>0 DEF Base, Levels
    <2>5. indents' \in Seq(Levels) /\ Len(indents') = 1 /\ indents'[1] = Base /\ indents' # <<>>
      BY <2>3, <2>4
    <2>6. depth' \in Int /\ depth' + lost' = 0
      BY <2>0, <2>1, <2>2, <2>3
    <2>7. TypeOK'
      BY <1>t, <2>3, <2>5, <2>6 DEF TypeOK
    <2>8. BlocksMatch'
      BY <2>3, <2>5, <2>6 DEF BlocksMatch, StackOK, Balanced, BlockOfLine
    <2>9. TokensExact'
      BY <2>3, <1>n, <1>t, <1>x DEF TypeOK
    <2> QED BY <2>7, <2>8, <2>9 DEF IInv
  <1>8. CASE UNCHANGED vars
    <2>1. TypeOK' /\ BlocksMatch'
      BY <1>8, <1>t DEF vars, TypeOK, BlocksMatch, StackOK, Balanced, BlockOfLine
    <2>2. TokensExact'
      BY <1>8, <1>n, <1>t, <1>x DEF vars, TypeOK
    <2> QED BY <2>1, <2>2 DEF IInv
  <1> QED
    BY <1>1, <1>2, <1>3, <1>4, <1>5, <1>6, <1>7, <1>8 DEF Next

\* After any mixture of tabs, spaces and errors, the stack of levels deepens
\* from the margin, Indent and Dedent tokens account for it, and without an
\* error report the innermost block is that of the line being read.
THEOREM Blocks == Spec => []BlocksMatch
  <1>1. IInv => BlocksMatch
    BY DEF IInv
  <1> QED BY InvInit, InvStep, <1>1, PTL DEF Spec

\* The brackets of the stream nest also where those of the source do not, and
\* string literals keep exactly their content.
THEOREM Tokens == Spec => []TokensExact
  <1>1. IInv => TokensExact
    BY DEF IInv
  <1> QED BY InvInit, InvStep, <1>1, PTL DEF Spec
=============================================================================
