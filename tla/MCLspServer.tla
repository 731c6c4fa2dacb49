----------------------------- MODULE MCLspServer -----------------------------
(* Instances of LspServer for TLC. *)
EXTENDS LspServer, TLC

CONSTANTS a, b, r1, r2, w1, w2

OneFile == {a}
TwoFiles == {a, b}
OneRequest == {r1}
TwoRequests == {r1, r2}
OneWorker == {w1}
TwoWorkers == {w1, w2}
None == {}
FirstTextOfA == {<<a, 1>>}

Symmetry == Permutations(Workers) \cup Permutations(Requests)
=============================================================================
