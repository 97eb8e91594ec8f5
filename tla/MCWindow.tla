------------------------------ MODULE MCWindow ------------------------------
(* Bounds for TLC.                                                         *)
EXTENDS Window, TLC

MCPaces == {<<1, 4, 1>>, <<1, 0, 2>>, <<2, 0, 1>>}

Alike == Permutations(Sessions) \cup Permutations(Statements)

=============================================================================
