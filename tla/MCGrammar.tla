----------------------------- MODULE MCGrammar -----------------------------
(* The vocabularies the parser and the formatter are checked with. *)
EXTENDS Grammar

Tokens(ts) == {<<t>> : t \in ts}
Lines(indents, ls) == {[k \in 1..i |-> "\t"] \o l \o <<"\n">> : i \in indents, l \in ls}
Lines1(l) == <<"\t">> \o l \o <<"\n">>
Let == <<"x", "=">>
End == <<"\n">>

Operators == [pre |-> Let \o <<"a">>, post |-> End, max |-> 4,
              pieces |-> {<<op, "a">> : op \in {"+", "**", "<", "in", "or", "not"}}
                         \cup {<<"not", "in", "a">>, <<"is", "not", "a">>, <<"-">>}]
Ternary   == [pre |-> Let, post |-> End, max |-> 4, pieces |-> Tokens({"a", "if", "else", "-", "(", ")"})]
Postfix   == [pre |-> Let \o <<"a">>, post |-> End, max |-> 4,
              pieces |-> Tokens({".", "?", "[", "]", "(", ")", ":", "b"})]
Listing   == [pre |-> Let \o <<"[">>, post |-> <<"]", "\n">>, max |-> 5,
              pieces |-> Tokens({"a", ",", "*", "if", "\n"}) \cup {<<"for", "b", "in">>}]
ListIf    == [pre |-> Let \o <<"[", "\n">>, post |-> <<"]", "\n">>, max |-> 4,
              pieces |-> Lines({1, 2}, {<<"if", "a", ":">>, <<"elif", "b", ":">>, <<"else", ":">>, <<"1">>, <<"#c">>})]
ConfigIf  == [pre |-> Let \o <<"{", "\n">>, post |-> <<"}", "\n">>, max |-> 4,
              pieces |-> Lines({1, 2}, {<<"if", "a", ":">>, <<"else", ":">>, <<"b", "=", "1">>, <<"#c">>})]
Config    == [pre |-> Let \o <<"A">>, post |-> End, max |-> 4,
              pieces |-> Tokens({"{", "}", "a", "=", ":", ","})]
Branches  == [pre |-> <<>>, post |-> <<>>, max |-> 4,
              pieces |-> Lines({0, 1}, {<<"if", "a", ":">>, <<"elif", "b", ":">>, <<"else", ":">>, <<"x", "=", "1">>, <<"#c">>})]
Schemas   == [pre |-> <<"schema", "A", ":", "\n">>, post |-> <<>>, max |-> 4,
              pieces |-> Lines({1}, {<<"x", "?", ":", "int">>, <<"y", ":", "A", "{", "}">>, <<"[", "...", "str", "]", ":", "int">>,
                                     <<"@", "d", "\n", "\t", "z", ":", "int">>, <<"check", ":">>, <<"\t", "x", ">", "1">>, <<"#c">>})
                           \cup Lines({0}, {<<"x", "=", "1">>, <<"#c">>})]
Headers   == [pre |-> <<>>, post |-> Lines1(<<"x", ">", "1">>), max |-> 5,
              pieces |-> {<<"schema", "A">>, <<"rule", "A">>, <<"@", "d", "\n">>, <<"[", "a", ":", "int", "]">>, <<"(", "B", ")">>,
                          <<"for", "P">>, <<":", "\n">>}]
Statements == [pre |-> <<>>, post |-> <<"\n">>, max |-> 4,
               pieces |-> Tokens({"import", ".", "a", "as", "assert", ":", "=", "+="}) \cup {<<"{", "}">>}]
Lambdas   == [pre |-> Let \o <<"lambda">>, post |-> <<"b", "}", "\n">>, max |-> 5,
              pieces |-> Tokens({"a", ",", ":", "{", "->", "\n"}) \cup {<<"=", "1">>}]
Strings   == [pre |-> Let, post |-> End, max |-> 3, pieces |-> Tokens(Strs \cup {"+", "0x1"})]
AllThemes == {Strings, Operators, Ternary, Postfix, Listing, ListIf, ConfigIf, Config, Branches, Schemas, Headers,
              Statements, Lambdas}
=============================================================================
