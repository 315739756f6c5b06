---------------------------- MODULE MCLinkedList ----------------------------
(* A small instance of LinkedList for TLC.                                 *)
EXTENDS LinkedList, TLC

CONSTANTS n1, n2, n3

ThreeNodes == {n1, n2, n3}
ThreeDeadlines == {1, 2, 3}

Symmetry == Permutations(Nodes)
=============================================================================
