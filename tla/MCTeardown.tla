----------------------------- MODULE MCTeardown -----------------------------
(* Small instances of Teardown for TLC.                                    *)
EXTENDS Teardown, TLC

CONSTANTS u1, u2, u3

TwoUsers == {u1, u2}
ThreeUsers == {u1, u2, u3}

Symmetry == Permutations(Users)
=============================================================================
