------------------------------ MODULE MCLoader ------------------------------
(* Instances of Loader for TLC: E is an external package of package_maps, V *)
(* and D are vendored, and D is also the name of a directory of the program *)
(* itself.  util and lib are directories of the program and of an external  *)
(* package, one of the lib without files: paths with two meanings.          *)
EXTENDS Loader

main == <<"main", <<>>>>
sub == <<"main", <<"sub">>>>
E == <<"E", <<>>>>
Eutil == <<"E", <<"util">>>>
V == <<"V", <<>>>>

MappedModules == {"E"}
VendoredModules == {"V", "D"}
SystemModules == {<<"math">>}
PluginModules == {<<"kcl_plugin", "hello">>}

util == <<"main", <<"util">>>>
Vlib == <<"V", <<"lib">>>>
PathNames == {"main", "sub", "E", "util", "V", "lib", "D", "absent", "math", "kcl_plugin", "hello"}

CodeDirs == {main, sub, util, E, Eutil, V, Vlib, <<"main", <<"D">>>>, <<"D", <<>>>>}
NoCodeDirs == {<<"main", <<"lib">>>>}
Broken == {<<"D", <<>>>>}

MainPaths == {<<"sub">>, <<"E">>, <<"E", "util">>, <<"E", "absent">>, <<"V">>, <<"lib">>,
              <<"util">>, <<"D">>, <<"math">>, <<"kcl_plugin", "hello">>}
AnyGraph ==
    {[d \in CodeDirs |->
        CASE d = main -> im [] d = sub -> is [] d = E -> ie [] d = Eutil -> iu
          [] d = V -> iv [] OTHER -> <<>>] :
     im \in {<<>>} \cup {<<p, q>> : p, q \in MainPaths},
     is \in {<<>>, <<<<"sub">>>>, <<<<"E">>>>, <<<<"E", "util">>, <<"V">>>>},
     ie \in {<<>>, <<<<"util">>>>, <<<<"E">>>>, <<<<"V">>, <<"E", "util">>>>, <<<<"D">>>>},
     iu \in {<<>>, <<<<"E">>>>, <<<<"util">>, <<"V">>>>},
     iv \in {<<>>, <<<<"E">>>>, <<<<"absent">>, <<"lib">>>>}}
=============================================================================
