----------------------------- MODULE MCMessages -----------------------------
(* A small instance of Messages for TLC.                                   *)
EXTENDS Messages, TLC

CONSTANTS u1, r1, r2, r3, a1, a2, a3, a4

OneUser == {u1}
ThreeRequests == {r1, r2, r3}
FourResponses == {a1, a2, a3, a4}

Symmetry == Permutations(RequestBlocks) \cup Permutations(ResponseBlocks)
=============================================================================
