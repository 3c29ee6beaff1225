-------------------------- MODULE MC_StreamableHTTP --------------------------
(* Small instances of StreamableHTTP.                                       *)
EXTENDS StreamableHTTP, TLC
CONSTANTS r1, k1, k2, k3

OneRequest == {r1}
TwoConns   == {k1, k2}
ThreeConns == {k1, k2, k3}

Symmetry == Permutations(Conns)
=============================================================================
