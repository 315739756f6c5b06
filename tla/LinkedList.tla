----------------------------- MODULE LinkedList -----------------------------
(***************************************************************************)
(* Sources/task_list.c as it is written: doubly linked nodes, walked and   *)
(* relinked through pointers, one loop iteration per step.                 *)
(*                                                                         *)
(* The variable "list" is auxiliary: it holds the lists as the values of   *)
(* TaskList, changed by TaskList's operators at the step that relinks.     *)
(* That the pointers always represent it (Represents) is what lets         *)
(* DDScheduler use the operators.  All of it happens under tasks_m, by one *)
(* task at a time.                                                         *)
(***************************************************************************)
EXTENDS TaskList

CONSTANTS
  Nodes, NULL,
  Deadlines,        \* values of a deadline field
  LowestPriority    \* _sched_get_min_priority

Lists == {"active", "overdue"}

ASSUME LinkedListAssumption ==
  /\ NULL \notin Nodes /\ Deadlines \subseteq Nat
  /\ LowestPriority \in Nat \ {0}

VARIABLES
  head,            \* active_tasks and overdue_tasks
  next_cell, previous_cell, deadline,  \* fields of a node
  prio,            \* kernel priority of a node's task
  pc,              \* what the call in progress does next
  which,           \* its list argument
  task,            \* add_task: the new node; delete_task: the walking pointer
  iter,            \* the other walking pointers
  tid,             \* delete_task's argument
  priority,        \* update_priorities: the last priority given
  start, before,   \* auxiliary: where it started, and prio at that time
  list             \* auxiliary: the lists as values

pointers == <<head, next_cell, previous_cell>>
call == <<pc, which, task, iter, tid, priority, start, before>>
vars == <<pointers, deadline, prio, call, list>>

Pointer == Nodes \cup {NULL}
Steps == {"idle", "add", "walk", "find", "update", "updated"}

TypeOK ==
  /\ head \in [Lists -> Pointer]
  /\ next_cell \in [Nodes -> Pointer] /\ previous_cell \in [Nodes -> Pointer]
  /\ deadline \in [Nodes -> Deadlines] /\ prio \in [Nodes -> Nat]
  /\ pc \in Steps /\ which \in Lists
  /\ task \in Pointer /\ iter \in Pointer /\ tid \in Pointer
  /\ priority \in Nat /\ start \in Nat /\ before \in [Nodes -> Nat]
  /\ list \in [Lists -> Seq(Nodes)]

Init ==
  /\ head = [l \in Lists |-> NULL]
  /\ next_cell = [n \in Nodes |-> NULL]
  /\ previous_cell = [n \in Nodes |-> NULL]
  /\ deadline \in [Nodes -> Deadlines] /\ prio = [n \in Nodes |-> 0]
  /\ pc = "idle" /\ which = "active"
  /\ task = NULL /\ iter = NULL /\ tid = NULL
  /\ priority = 0 /\ start = 0 /\ before = [n \in Nodes |-> 0]
  /\ list = [l \in Lists |-> <<>>]

(* A call returns, and its variables with it.                              *)
Return ==
  /\ pc' = "idle" /\ which' = "active"
  /\ task' = NULL /\ iter' = NULL /\ tid' = NULL
  /\ priority' = 0 /\ start' = 0 /\ before' = [n \in Nodes |-> 0]

Unlisted(n) == \A l \in Lists : n \notin Tasks(list[l])

-----------------------------------------------------------------------------
(***************************************************************************)
(* add_task.  Its caller gives it a node that is on neither list, with a   *)
(* deadline it has just set or that it kept from another list.             *)
(***************************************************************************)
StartAdd(l, n, d) ==
  /\ pc = "idle" /\ pc' = "add"
  /\ Unlisted(n)
  /\ which' = l /\ task' = n /\ iter' = head[l]
  /\ deadline' = [deadline EXCEPT ![n] = d]
  /\ next_cell' = [next_cell EXCEPT ![n] = NULL]
  /\ previous_cell' = [previous_cell EXCEPT ![n] = NULL]
  /\ UNCHANGED <<head, prio, tid, priority, start, before, list>>

Added == list' = [list EXCEPT ![which] = AddTask(@, task, deadline)]

AddToEmpty ==
  /\ pc = "add" /\ iter = NULL
  /\ head' = [head EXCEPT ![which] = task]
  /\ Added /\ Return
  /\ UNCHANGED <<next_cell, previous_cell, deadline, prio>>

AddFirst ==
  /\ pc = "add" /\ iter # NULL /\ deadline[task] < deadline[iter]
  /\ next_cell' = [next_cell EXCEPT ![task] = iter]
  /\ previous_cell' =
       [previous_cell EXCEPT ![task] = previous_cell[iter], ![iter] = task]
  /\ head' = [head EXCEPT ![which] = task]
  /\ Added /\ Return
  /\ UNCHANGED <<deadline, prio>>

AddNotFirst ==
  /\ pc = "add" /\ iter # NULL /\ ~(deadline[task] < deadline[iter])
  /\ pc' = "walk"
  /\ UNCHANGED <<pointers, deadline, prio, which, task, iter, tid, priority,
                 start, before, list>>

(* Variant: the new deadline is compared with iter's, not its successor's. *)
Passes_Itself ==
  /\ next_cell[iter] # NULL
  /\ deadline[task] > deadline[iter]

(* The condition of the loop.                                              *)
Passes ==
  /\ next_cell[iter] # NULL
  /\ deadline[task] > deadline[next_cell[iter]]

AddWalk ==
  /\ pc = "walk" /\ Passes
  /\ iter' = next_cell[iter]
  /\ UNCHANGED <<pointers, deadline, prio, pc, which, task, tid, priority,
                 start, before, list>>

(* Variant: the successor still points back to iter.                       *)
LinkBack_Missing ==
  previous_cell' = [previous_cell EXCEPT ![task] = iter]

LinkBack ==
  previous_cell' =
    [n \in Nodes |-> IF n = task THEN iter
                     ELSE IF n = next_cell[iter] THEN task
                     ELSE previous_cell[n]]

AddAfter ==
  /\ pc = "walk" /\ ~Passes
  /\ LinkBack
  /\ next_cell' = [next_cell EXCEPT ![task] = next_cell[iter], ![iter] = task]
  /\ Added /\ Return
  /\ UNCHANGED <<head, deadline, prio>>

-----------------------------------------------------------------------------
(***************************************************************************)
(* delete_task.  The task id may be on the list or not.                    *)
(***************************************************************************)
StartDelete(l, n) ==
  /\ pc = "idle" /\ head[l] # NULL
  /\ pc' = "find" /\ which' = l /\ tid' = n /\ task' = head[l]
  /\ UNCHANGED <<pointers, deadline, prio, iter, priority, start, before, list>>

FindNext ==
  /\ pc = "find" /\ task # NULL /\ task # tid
  /\ task' = next_cell[task]
  /\ UNCHANGED <<pointers, deadline, prio, pc, which, iter, tid, priority,
                 start, before, list>>

NotFound ==
  /\ pc = "find" /\ task = NULL
  /\ Return /\ UNCHANGED <<pointers, deadline, prio, list>>

Unlink ==
  /\ pc = "find" /\ task # NULL /\ task = tid
  /\ IF previous_cell[task] # NULL
       THEN /\ next_cell' =
                 [next_cell EXCEPT ![previous_cell[task]] = next_cell[task]]
            /\ UNCHANGED head
       ELSE /\ head' = [head EXCEPT ![which] = next_cell[task]]
            /\ UNCHANGED next_cell
  /\ previous_cell' =
       [n \in Nodes |-> IF n = next_cell[task] THEN previous_cell[task]
                                               ELSE previous_cell[n]]
  /\ list' = [list EXCEPT ![which] = DeleteTask(@, task)]
  /\ Return /\ UNCHANGED <<deadline, prio>>

-----------------------------------------------------------------------------
(***************************************************************************)
(* update_priorities.                                                      *)
(***************************************************************************)
StartUpdate(l, p) ==
  /\ pc = "idle" /\ pc' = "update"
  /\ which' = l /\ iter' = head[l] /\ priority' = p
  /\ start' = p /\ before' = prio
  /\ UNCHANGED <<pointers, deadline, prio, task, tid, list>>

(* Variants: past the lowest priority; towards more urgent ones.           *)
Advance_Unbounded(p) == p + 1
Advance_Down(p) == IF p < LowestPriority THEN p - 1 ELSE p

Advance(p) == IF p < LowestPriority THEN p + 1 ELSE p

UpdateNext ==
  /\ pc = "update" /\ iter # NULL
  /\ priority' = Advance(priority)
  /\ prio' = [prio EXCEPT ![iter] = priority']
  /\ iter' = next_cell[iter]
  /\ UNCHANGED <<pointers, deadline, pc, which, task, tid, start, before, list>>

(* _task_set_priority knows no task of this id; those before it keep the   *)
(* priorities they were given, and the call returns 0.                     *)
UpdateFails ==
  /\ pc = "update" /\ iter # NULL
  /\ Return /\ UNCHANGED <<pointers, deadline, prio, list>>

UpdateEnds ==
  /\ pc = "update" /\ iter = NULL /\ pc' = "updated"
  /\ UNCHANGED <<pointers, deadline, prio, which, task, iter, tid, priority,
                 start, before, list>>

ReturnPriority ==
  /\ pc = "updated"
  /\ Return /\ UNCHANGED <<pointers, deadline, prio, list>>

Next ==
  \/ \E l \in Lists, n \in Nodes :
       (\E d \in Deadlines : StartAdd(l, n, d)) \/ StartDelete(l, n)
  \/ \E l \in Lists, p \in 0 .. LowestPriority : StartUpdate(l, p)
  \/ AddToEmpty \/ AddFirst \/ AddNotFirst \/ AddWalk \/ AddAfter
  \/ FindNext \/ NotFound \/ Unlink
  \/ UpdateNext \/ UpdateFails \/ UpdateEnds \/ ReturnPriority

Spec == Init /\ [][Next]_vars

-----------------------------------------------------------------------------
(* No list contains a node twice and no node is on both.                   *)
Separate ==
  /\ \A l \in Lists : NoDuplicates(list[l])
  /\ Tasks(list["active"]) \cap Tasks(list["overdue"]) = {}

(* A head and forward and backward links that are those of the sequence s. *)
Links(h, next, previous, s) ==
  /\ h = IF Len(s) = 0 THEN NULL ELSE s[1]
  /\ \A i \in 1 .. Len(s) :
       /\ next[s[i]] = IF i = Len(s) THEN NULL ELSE s[i + 1]
       /\ previous[s[i]] = IF i = 1 THEN NULL ELSE s[i - 1]

(* The pointers are the lists that AddTask and DeleteTask produce, without *)
(* cycles or shared nodes: add_task's walk finds the place InsertPosition  *)
(* names, and no relinking of either call leaves a link of a listed node   *)
(* behind, whatever was done before.                                       *)
Represents ==
  /\ Separate
  /\ \A l \in Lists : Links(head[l], next_cell, previous_cell, list[l])

(* Whoever follows next_cell meets deadlines in order: add_task keeps what *)
(* the deadline timer and update_priorities rely on.                       *)
Sorted ==
  \A l \in Lists, n \in Nodes :
    n \in Tasks(list[l]) /\ next_cell[n] # NULL
      => deadline[n] <= deadline[next_cell[n]]

(* When update_priorities has walked to the end, every task of the list    *)
(* has the priority of its place in it, no other task's is changed, and    *)
(* the value returned, where the next list starts, is the last one given.  *)
UpdateCorrect ==
  pc = "updated" =>
    /\ prio = UpdatedPriorities(before, list[which], start, LowestPriority)
    /\ priority = LastPriority(list[which], start, LowestPriority)

-----------------------------------------------------------------------------
(***************************************************************************)
(* The inductive invariant: what a call in progress knows of its list.     *)
(***************************************************************************)
(* Every node the walk has passed has an earlier deadline.                 *)
Walking(s) ==
  \E k \in 1 .. Len(s) :
    /\ iter = s[k]
    /\ deadline[s[1]] <= deadline[task]
    /\ \A j \in 2 .. k : deadline[s[j]] < deadline[task]

Finding(s) == task = NULL \/ \E k \in 1 .. Len(s) : task = s[k]

(* The first k tasks of the list have their priorities.                    *)
Updating(s, k) ==
  /\ iter = IF k = Len(s) THEN NULL ELSE s[k + 1]
  /\ priority = Clamp(start + k, LowestPriority)
  /\ \A n \in Nodes : n \notin Tasks(s) => prio[n] = before[n]
  /\ \A j \in 1 .. Len(s) :
       prio[s[j]] = IF j <= k THEN Clamp(start + j, LowestPriority)
                              ELSE before[s[j]]

CallInv ==
  LET s == list[which] IN
  /\ pc \in {"add", "walk"} => task \in Nodes /\ Unlisted(task)
  /\ pc = "add" => /\ iter = head[which]
                    /\ next_cell[task] = NULL /\ previous_cell[task] = NULL
  /\ pc = "walk" => Walking(s)
  /\ pc = "find" => Finding(s)
  /\ pc = "update" => \E k \in 0 .. Len(s) : Updating(s, k)
  /\ pc = "updated" => Updating(s, Len(s))
  /\ start <= LowestPriority

IInv ==
  /\ TypeOK /\ Represents /\ CallInv
  /\ \A l \in Lists : SortedByDeadline(list[l], deadline)
=============================================================================
