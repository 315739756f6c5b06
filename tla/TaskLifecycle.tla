--------------------------- MODULE TaskLifecycle ---------------------------
(***************************************************************************)
(* What the scheduler promises about a task, without lists, timers, locks  *)
(* or messages: it is admitted with a deadline that does not change while  *)
(* it is scheduled; it becomes overdue only once that deadline has come,   *)
(* and then stays overdue; and it leaves only by completing.               *)
(***************************************************************************)
EXTENDS Naturals

CONSTANT Users

VARIABLES now, active, overdue, due

TypeOK ==
  /\ now \in Nat
  /\ active \subseteq Users /\ overdue \subseteq Users
  /\ due \in [Users -> Nat]

Init ==
  /\ now = 0 /\ active = {} /\ overdue = {}
  /\ due = [u \in Users |-> 0]

Admit(u) ==
  /\ u \notin active \cup overdue
  /\ active' = active \cup {u}
  /\ due'[u] \in Nat
  /\ due' = [due EXCEPT ![u] = due'[u]]
  /\ UNCHANGED <<now, overdue>>

Miss(u) ==
  /\ u \in active /\ due[u] <= now
  /\ active' = active \ {u} /\ overdue' = overdue \cup {u}
  /\ UNCHANGED <<now, due>>

Complete(u) ==
  /\ u \in active \cup overdue
  /\ active' = active \ {u} /\ overdue' = overdue \ {u}
  /\ due' = [due EXCEPT ![u] = 0]
  /\ UNCHANGED now

Tick == now' = now + 1 /\ UNCHANGED <<active, overdue, due>>

Next == Tick \/ \E u \in Users : Admit(u) \/ Miss(u) \/ Complete(u)

Spec == Init /\ [][Next]_<<now, active, overdue, due>>
=============================================================================
