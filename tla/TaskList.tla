------------------------------ MODULE TaskList ------------------------------
(***************************************************************************)
(* The deadline-ordered task lists of Sources/task_list.c, as values.      *)
(*                                                                         *)
(* A list is a sequence of tasks; "deadline" and "prio" are functions on   *)
(* tasks (the deadline field of a node, the kernel priority of its tid).   *)
(* The mutex tasks_m that every C function takes is left to the modules    *)
(* that use these operators: here is only what is computed under it.       *)
(***************************************************************************)
EXTENDS Integers, Sequences, SequencesExt

(* A is reachable from B by next_cell: the tasks on a list.                *)
Tasks(list) == ToSet(list)

(* delete_task finds a node by walking from the head: the first match.     *)
Position(list, task) ==
  CHOOSE i \in DOMAIN list :
    list[i] = task /\ \A j \in DOMAIN list : list[j] = task => i <= j

(* Variants of InsertPosition: no test against the head; always at the end.*)
InsertPosition_NoHeadTest(list, task, deadline) ==
  IF list = <<>> THEN 1
    ELSE CHOOSE i \in 2 .. Len(list) + 1 :
           /\ i = Len(list) + 1 \/ deadline[task] <= deadline[list[i]]
           /\ \A j \in 2 .. i - 1 : deadline[list[j]] < deadline[task]
InsertPosition_Last(list, task, deadline) == Len(list) + 1

(***************************************************************************)
(* Where add_task puts a node.  Before the head when the list is empty or  *)
(* the new deadline is strictly less than the head's; otherwise after the  *)
(* first node whose successor's deadline is not strictly less.  Among      *)
(* equal deadlines a new node therefore comes last only when they share    *)
(* the head, and first otherwise.                                          *)
(***************************************************************************)
InsertPosition(list, task, deadline) ==
  IF list = <<>> \/ deadline[task] < deadline[Head(list)]
    THEN 1
    ELSE CHOOSE i \in 2 .. Len(list) + 1 :
           /\ i = Len(list) + 1 \/ deadline[task] <= deadline[list[i]]
           /\ \A j \in 2 .. i - 1 : deadline[list[j]] < deadline[task]

AddTask(list, task, deadline) ==
  InsertAt(list, InsertPosition(list, task, deadline), task)

DeleteTask(list, task) == RemoveAt(list, Position(list, task))

(***************************************************************************)
(* update_priorities: consecutive priorities from start + 1, in list       *)
(* order, held at the lowest one; LastPriority is what the call returns.   *)
(***************************************************************************)
Clamp(priority, lowest) == IF priority < lowest THEN priority ELSE lowest

(* Variant: the priority is not advanced from one task to the next.        *)
UpdatedPriorities_Flat(prio, list, start, lowest) ==
  [t \in DOMAIN prio |-> IF t \in Tasks(list) THEN Clamp(start + 1, lowest)
                                             ELSE prio[t]]

UpdatedPriorities(prio, list, start, lowest) ==
  [t \in DOMAIN prio |->
     IF t \in Tasks(list) THEN Clamp(start + Position(list, t), lowest)
                          ELSE prio[t]]

(* Variant: the second list starts over instead of after the first.        *)
LastPriority_Start(list, start, lowest) == Clamp(start, lowest)

LastPriority(list, start, lowest) == Clamp(start + Len(list), lowest)

(* The lists are kept in this order.                                       *)
SortedByDeadline(list, deadline) ==
  \A i, j \in DOMAIN list : i < j => deadline[list[i]] <= deadline[list[j]]

NoDuplicates(list) ==
  \A i, j \in DOMAIN list : list[i] = list[j] => i = j
=============================================================================
