----------------------------- MODULE MCResolver -----------------------------
(* Instances of Resolver for TLC: the main package, A and B are loaded, C is *)
(* imported but missing; A declares s1 to s4 with the mixin m among them, B  *)
(* declares t.                                                               *)
EXTENDS Resolver, TLC

CONSTANTS main, A, B, C, math, s1, s2, s3, s4, t, m, none

Declarations == main :> <<>> @@ A :> <<s1, s2, m, s3, s4>> @@ B :> <<t>> @@ C :> <<>>
FourSchemas == main :> <<s1, s2, s3, s4>>

Parents ==
    {f \in [{s1, s2, s3, t} -> {s1, s2, s3, t, m, none}] :
        f[t] \in {none, m} /\ \A s \in {s1, s2, s3} : f[s] # m}

\* Any imports, and inheritance across the packages.
Graphs ==
    {[imports |-> main :> im @@ A :> ia @@ B :> ib @@ C :> <<>>,
      parent |-> [s \in Schemas |-> IF s \in {s4, m} THEN none ELSE par[s]],
      mixins |-> [s \in Schemas |-> IF s \in mx THEN {m} ELSE {}]] :
     im \in {<<A>>, <<B, A>>, <<C, math, A, B>>},
     ia \in {<<>>, <<B>>, <<A>>},
     ib \in {<<>>, <<A>>, <<math, C>>},
     par \in Parents,
     mx \in {{}, {t}}}

\* Any inheritance among the schemas of A; the mixin may itself have a parent.
Chains ==
    {[imports |-> main :> <<A>> @@ A :> <<>> @@ B :> <<>> @@ C :> <<>>,
      parent |-> [s \in Schemas |-> IF s = t THEN none ELSE IF s = m THEN up ELSE par[s]],
      mixins |-> [s \in Schemas |-> IF s \in mx THEN {m} ELSE {}]] :
     par \in [{s1, s2, s3, s4} -> {s1, s2, s3, s4, none}],
     up \in {none, s4},
     mx \in {{}, {s1}, {s4}}}

AllPrograms == Graphs \cup Chains

PlainChains ==
    {[imports |-> main :> <<>>,
      parent |-> par,
      mixins |-> [s \in Schemas |-> {}]] : par \in [Schemas -> Schemas \cup {none}]}
=============================================================================
