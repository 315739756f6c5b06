--------------------------- MODULE MCDDScheduler ---------------------------
(* Small instances of DDScheduler for TLC.                                 *)
EXTENDS DDScheduler, TLC

CONSTANTS u1, u2, u3

TwoUsers == {u1, u2}
ThreeUsers == {u1, u2, u3}

(* One periodic task every third tick, or two of different periods; the    *)
(* button's task (index 0) has the shortest deadline and a template just   *)
(* below the generator; the periodic tasks' templates are the lowest.      *)
OnePeriod == <<2>>
OneDeadline == 0 :> 1 @@ 1 :> 3
OneTemplate == 0 :> 2 @@ 1 :> 3
TwoPeriods == <<2, 3>>
TwoDeadlines == 0 :> 1 @@ 1 :> 3 @@ 2 :> 2
TwoTemplates == 0 :> 2 @@ 1 :> 4 @@ 2 :> 4

Symmetry == Permutations(Users)
=============================================================================
