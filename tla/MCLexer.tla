------------------------------ MODULE MCLexer ------------------------------
(* Lexer over every sequence of a few raw tokens. *)
EXTENDS Lexer
=============================================================================
