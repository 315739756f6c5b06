--------------------- MODULE DDSchedulerPriority_proofs ---------------------
(***************************************************************************)
(* The kernel priorities of the scheduled tasks follow their deadlines.    *)
(*                                                                         *)
(* update_priorities runs only at the end of a request, while              *)
(* deadline_overdue moves a task between the lists at any time a request   *)
(* is not under way: the invariants say which order of the priorities      *)
(* survives that, and what the two calls at the end of a request restore.  *)
(***************************************************************************)
EXTENDS DDSchedulerSafety_proofs

(* The priorities descend along a list until they reach the lowest.        *)
Descending(list, p) ==
  \A i, j \in DOMAIN list :
    i < j => p[list[i]] < p[list[j]] \/ p[list[j]] = LowestPriority

-----------------------------------------------------------------------------
(***************************************************************************)
(* What update_priorities computes.                                        *)
(***************************************************************************)
LEMMA PositionIndex ==
  ASSUME NEW X, NEW s \in Seq(X), NoDuplicates(s), NEW i \in 1 .. Len(s)
  PROVE  Position(s, s[i]) = i
<1>1. s[i] \in Tasks(s)
  BY IndexTasks
<1>2. Position(s, s[i]) \in 1 .. Len(s) /\ s[Position(s, s[i])] = s[i]
  BY <1>1, PositionProperties
<1> QED BY <1>2, NoDuplicatesSeq

(* Each task's priority comes after the start and is held at the lowest.   *)
LEMMA UpdatedInRange ==
  ASSUME NEW X, NEW s \in Seq(X), NEW p \in [X -> Nat],
         NEW start \in Nat, NEW lowest \in Nat, NEW t \in Tasks(s)
  PROVE  LET q == UpdatedPriorities(p, s, start, lowest)[t]
         IN /\ q \in Nat /\ q <= lowest
            /\ q <= LastPriority(s, start, lowest)
            /\ start < q \/ q = lowest
<1>1. t \in X /\ Len(s) \in Nat /\ Position(s, t) \in 1 .. Len(s)
  BY TasksOfSeq, LenProperties, PositionProperties
<1>2. UpdatedPriorities(p, s, start, lowest)[t] = Clamp(start + Position(s, t), lowest)
  BY <1>1 DEF UpdatedPriorities
<1> DEFINE k == Position(s, t)
<1> HIDE DEF k
<1>3. k \in Nat /\ 1 <= k /\ k <= Len(s)
  BY <1>1 DEF k
<1>4. UpdatedPriorities(p, s, start, lowest)[t] = Clamp(start + k, lowest)
  BY <1>2 DEF k
<1> QED BY <1>1, <1>3, <1>4 DEF Clamp, LastPriority

LEMMA UpdatedDescending ==
  ASSUME NEW s \in Seq(Users), NoDuplicates(s), NEW p \in [Users -> Nat],
         NEW start \in Nat
  PROVE  Descending(s, UpdatedPriorities(p, s, start, LowestPriority))
<1> DEFINE q == UpdatedPriorities(p, s, start, LowestPriority)
<1>1. DOMAIN s = 1 .. Len(s) /\ Len(s) \in Nat /\ LowestPriority \in Nat
  BY LenProperties, NumbersAssumption
<1>2. ASSUME NEW i \in 1 .. Len(s)
      PROVE  q[s[i]] = Clamp(start + i, LowestPriority)
  <2>1. s[i] \in Tasks(s) /\ s[i] \in Users /\ Position(s, s[i]) = i
    BY IndexTasks, ElementOfSeq, PositionIndex
  <2> QED BY <2>1 DEF UpdatedPriorities
<1> HIDE DEF q
<1>3. ASSUME NEW i \in 1 .. Len(s), NEW j \in 1 .. Len(s), i < j
      PROVE  q[s[i]] < q[s[j]] \/ q[s[j]] = LowestPriority
  <2>1. /\ q[s[i]] = Clamp(start + i, LowestPriority)
        /\ q[s[j]] = Clamp(start + j, LowestPriority)
    BY <1>2
  <2>2. i \in Nat /\ j \in Nat
    BY <1>1
  <2> QED BY <1>1, <1>3, <2>1, <2>2 DEF Clamp
<1>4. Descending(s, q)
  BY <1>1, <1>3 DEF Descending
<1> QED BY <1>4 DEF q

(* The order survives the removal of a task.                               *)
LEMMA DeleteTaskDescending ==
  ASSUME NEW s \in Seq(Users), NEW x \in Tasks(s), NEW p, Descending(s, p)
  PROVE  Descending(DeleteTask(s, x), p)
<1> DEFINE k == Position(s, x)
           d == RemoveAt(s, k)
<1>1. k \in 1 .. Len(s) /\ Len(s) \in Nat
  BY PositionProperties, LenProperties
<1> HIDE DEF k
<1>2. d \in Seq(Users) /\ Len(d) = Len(s) - 1
  BY <1>1, RemoveAtElements
<1>3. DOMAIN d = 1 .. Len(s) - 1 /\ DOMAIN s = 1 .. Len(s)
  BY <1>2, LenProperties
<1>4. ASSUME NEW i \in 1 .. Len(s) - 1, NEW j \in 1 .. Len(s) - 1, i < j
      PROVE  p[d[i]] < p[d[j]] \/ p[d[j]] = LowestPriority
  <2>1. PICK a \in 1 .. Len(s) :
          /\ d[i] = s[a]
          /\ \/ i < k /\ a = i
             \/ k <= i /\ a = i + 1
    BY <1>1, RemoveAtOrigin
  <2>2. PICK b \in 1 .. Len(s) :
          /\ d[j] = s[b]
          /\ \/ j < k /\ b = j
             \/ k <= j /\ b = j + 1
    BY <1>1, RemoveAtOrigin
  <2>3. a < b
    BY <1>1, <1>4, <2>1, <2>2
  <2> QED BY <1>3, <2>1, <2>2, <2>3 DEF Descending
<1> HIDE DEF d
<1>5. Descending(d, p)
  BY <1>3, <1>4 DEF Descending
<1> QED BY <1>5 DEF d, k, DeleteTask

(* It is the order of the list's own tasks only.                           *)
LEMMA DescendingFrame ==
  ASSUME NEW s \in Seq(Users), NEW p, NEW q, Descending(s, p),
         \A u \in Tasks(s) : q[u] = p[u]
  PROVE  Descending(s, q)
<1>1. \A i \in DOMAIN s : s[i] \in Tasks(s)
  BY DEF Tasks, ToSet
<1> QED BY <1>1 DEF Descending

-----------------------------------------------------------------------------
(***************************************************************************)
(* The order between updates.                                              *)
(***************************************************************************)
Updating == {"update_overdue", "update_active"}

ActiveOrdered ==
  /\ Descending(active_tasks, prio)
  /\ \A v \in Tasks(active_tasks) : prio[v] <= LowestPriority

(* An overdue task comes before an active one, unless that one's own       *)
(* deadline has come and the timer task has yet to run its callback.       *)
OverdueAbove ==
  \A u \in Tasks(overdue_tasks), v \in Tasks(active_tasks) :
    \/ prio[u] <= prio[v]
    \/ TimerEntriesHeld /\ deadline[v] <= now

(* Between the two calls of update_priorities the first one's work and     *)
(* result are there.                                                       *)
OverdueUpdated ==
  /\ priority <= LowestPriority
  /\ \A u \in Tasks(overdue_tasks) : prio[u] <= priority
  /\ Descending(overdue_tasks, prio)

OrderInv ==
  /\ spc \notin Updating => ActiveOrdered /\ OverdueAbove
  /\ spc = "update_active" => OverdueUpdated

(* Steps that leave the lists, and the priorities of the tasks on them.    *)
LEMMA OrderFrame ==
  ASSUME TypeInv, SInv, OrderInv, UNCHANGED lists, now' \in Nat, now' >= now,
         \A u \in Listed : prio'[u] = prio[u] /\ deadline'[u] = deadline[u],
         spc' \notin Updating => spc \notin Updating,
         spc' = "update_active" => spc = "update_active" /\ priority' = priority,
         TimerEntriesHeld => TimerEntriesHeld'
  PROVE  OrderInv'
<1>1. active_tasks' = active_tasks /\ overdue_tasks' = overdue_tasks
  BY DEF lists
<1>2. /\ \A u \in Tasks(active_tasks) : prio'[u] = prio[u] /\ deadline'[u] = deadline[u]
      /\ \A u \in Tasks(overdue_tasks) : prio'[u] = prio[u]
  BY DEF Listed
<1>3. now \in Nat /\ now' >= now /\ active_tasks \in Seq(Users) /\ overdue_tasks \in Seq(Users)
  BY ListTypes DEF TypeInv, TypeOK
<1>4. ASSUME spc' \notin Updating PROVE ActiveOrdered' /\ OverdueAbove'
  <2>1. ActiveOrdered /\ OverdueAbove
    BY <1>4 DEF OrderInv
  <2>2. Descending(active_tasks, prio')
    BY <1>2, <1>3, <2>1, DescendingFrame DEF ActiveOrdered
  <2>3. ActiveOrdered'
    BY <1>1, <1>2, <2>1, <2>2 DEF ActiveOrdered, Descending
  <2>4. \A v \in Tasks(active_tasks) : deadline[v] <= now => deadline'[v] <= now'
    <3>1. \A v \in Tasks(active_tasks) : deadline[v] \in Nat
      BY ListTypes
    <3> QED BY <1>2, <1>3, <3>1
  <2>5. OverdueAbove'
    BY <1>1, <1>2, <2>1, <2>4 DEF OverdueAbove
  <2> QED BY <2>3, <2>5
<1>5. ASSUME spc' = "update_active" PROVE OverdueUpdated'
  <2>1. OverdueUpdated /\ priority' = priority
    BY <1>5 DEF OrderInv
  <2>2. Descending(overdue_tasks, prio')
    BY <1>2, <1>3, <2>1, DescendingFrame DEF OverdueUpdated
  <2> QED BY <1>1, <1>2, <2>1, <2>2 DEF OverdueUpdated, Descending
<1> QED BY <1>4, <1>5 DEF OrderInv

(* A request is taken off the lists' queue, or set aside, by a step that   *)
(* changes no listed task.                                                 *)
LEMMA CreateTaskOrder ==
  ASSUME TypeInv, SInv, OrderInv, NEW u \in Users, CreateTask(u)
  PROVE  OrderInv'
<1>1. /\ spc = "receive" /\ spc' = "start_timer" /\ u \in FreeTasks
      /\ prio' = [prio EXCEPT ![u] = TemplatePriority[kind]]
      /\ deadline' = [deadline EXCEPT ![u] = now + Deadline[kind]]
      /\ UNCHANGED <<now, lists, timerTask>>
  BY DEF CreateTask, Receive
<1>2. u \notin Listed
  BY <1>1 DEF FreeTasks, SInv, NodeInv, NoNodeLost
<1>3. \A v \in Listed : prio'[v] = prio[v] /\ deadline'[v] = deadline[v]
  BY <1>1, <1>2, ListTypes DEF TypeInv, TypeOK
<1>4. now' \in Nat /\ now' >= now
  BY <1>1 DEF TypeInv, TypeOK
<1> QED BY <1>1, <1>3, <1>4, OrderFrame DEF Updating, timerTask, TimerEntriesHeld

LEMMA CreateWithoutTimerOrder ==
  ASSUME TypeInv, SInv, OrderInv, NEW u \in Users, CreateWithoutTimer(u)
  PROVE  OrderInv'
<1>1. /\ u \notin Listed /\ prio' = [prio EXCEPT ![u] = TemplatePriority[kind]]
      /\ UNCHANGED <<now, lists, scheduler, deadline, timerTask>>
  BY DEF CreateWithoutTimer, FreeTasks, SInv, NodeInv, NoNodeLost
<1>2. \A v \in Listed : prio'[v] = prio[v] /\ deadline'[v] = deadline[v]
  BY <1>1, ListTypes DEF TypeInv, TypeOK
<1>3. now' \in Nat /\ now' >= now
  BY <1>1 DEF TypeInv, TypeOK
<1> QED BY <1>1, <1>2, <1>3, OrderFrame DEF scheduler, timerTask, TimerEntriesHeld

(* Steps that leave alone all that the order speaks of.                    *)
LEMMA UntouchedOrder ==
  ASSUME TypeInv, SInv, OrderInv,
         UNCHANGED <<now, lists, prio, deadline, spc, priority, tpc>>
  PROVE  OrderInv'
<1>1. now' \in Nat /\ now' >= now
  BY DEF TypeInv, TypeOK
<1> QED BY <1>1, OrderFrame DEF TimerEntriesHeld

(* delete_task on the active list; the priorities are left for later.      *)
LEMMA DeleteActiveOrder ==
  ASSUME TypeInv, SInv, OrderInv, DeleteActive
  PROVE  OrderInv'
<1>1. /\ spc = "delete_active" /\ overdue_tasks' = overdue_tasks
      /\ prio' = prio /\ tpc' = tpc /\ now' = now /\ Runs(S)
  BY DEF DeleteActive, timerTask
<1>2. CASE client \in Tasks(active_tasks)
  <2>1. client \in Users /\ timer[client]
    BY <1>1, <1>2, ListTypes, SchedulerRunning DEF SInv, TimerInv
  <2>2. /\ active_tasks' = DeleteTask(active_tasks, client)
        /\ spc' = "cancel_timer" /\ deadline' = deadline
    BY <1>2, <2>1 DEF DeleteActive, CancelOrFree
  <2>3. ActiveOrdered /\ OverdueAbove
    BY <1>1 DEF OrderInv, Updating
  <2>4. Descending(active_tasks', prio)
    BY <1>2, <2>2, <2>3, ListTypes, DeleteTaskDescending DEF ActiveOrdered
  <2>5. Tasks(active_tasks') = Tasks(active_tasks) \ {client}
    BY <1>2, <2>2, ListTypes, DeleteTaskProperties DEF SInv, ListsWellFormed
  <2>6. ActiveOrdered'
    BY <1>1, <2>3, <2>4, <2>5 DEF ActiveOrdered, Descending
  <2>7. OverdueAbove'
    BY <1>1, <2>2, <2>3, <2>5 DEF OverdueAbove, TimerEntriesHeld
  <2> QED BY <2>2, <2>6, <2>7 DEF OrderInv
<1>3. CASE client \notin Tasks(active_tasks)
  <2>1. /\ active_tasks' = active_tasks /\ spc' = "delete_overdue"
        /\ deadline' = deadline
    BY <1>3 DEF DeleteActive
  <2>2. UNCHANGED lists /\ \A u \in Listed : prio'[u] = prio[u] /\ deadline'[u] = deadline[u]
    BY <1>1, <2>1 DEF lists
  <2>3. now' \in Nat /\ now' >= now
    BY <1>1 DEF TypeInv, TypeOK
  <2> QED BY <1>1, <2>1, <2>2, <2>3, OrderFrame DEF Updating, TimerEntriesHeld
<1> QED BY <1>2, <1>3

(* The first update: the overdue tasks, after the generator's priority.    *)
LEMMA UpdateOverdueOrder ==
  ASSUME TypeInv, SInv, UpdateOverdue
  PROVE  OrderInv'
<1>1. /\ Runs(S) /\ UpdateList(overdue_tasks, GeneratorPriority)
      /\ priority' = LastPriority(overdue_tasks, GeneratorPriority, LowestPriority)
      /\ spc' = "update_active" /\ overdue_tasks' = overdue_tasks
  BY DEF UpdateOverdue, lists
<1>2. /\ GeneratorPriority \in Nat /\ GeneratorPriority > 0 /\ LowestPriority \in Nat
      /\ prio \in [Users -> Nat] /\ overdue_tasks \in Seq(Users)
      /\ Tasks(overdue_tasks) \subseteq Listed /\ halted = "no"
      /\ NoDuplicates(overdue_tasks)
  <2>1. /\ GeneratorPriority \in Nat /\ GeneratorPriority > 0 /\ LowestPriority \in Nat
    BY NumbersAssumption
  <2>2. prio \in [Users -> Nat] /\ Tasks(overdue_tasks) \subseteq Listed
    BY DEF TypeInv, TypeOK, Listed
  <2>3. halted = "no" /\ NoDuplicates(overdue_tasks)
    BY <1>1, SchedulerRunning DEF SInv, ListsWellFormed
  <2> QED BY <2>1, <2>2, <2>3, ListTypes
<1>3. prio' = UpdatedPriorities(prio, overdue_tasks, GeneratorPriority, LowestPriority)
  BY <1>1, <1>2, UpdateListSafe DEF UpdateList
<1>4. /\ \A u \in Tasks(overdue_tasks) : prio'[u] <= priority'
      /\ Descending(overdue_tasks, prio')
  BY <1>1, <1>2, <1>3, UpdatedInRange, UpdatedDescending
<1>5. priority' <= LowestPriority
  <2>1. Len(overdue_tasks) \in Nat
    BY <1>2, LenProperties
  <2> QED BY <1>1, <1>2, <2>1 DEF LastPriority, Clamp
<1>6. OverdueUpdated'
  BY <1>1, <1>4, <1>5 DEF OverdueUpdated, Descending
<1> QED BY <1>1, <1>6 DEF OrderInv, Updating

(* The second update: the active tasks, after the last overdue one.        *)
LEMMA UpdateActivePriorities ==
  ASSUME TypeInv, SInv, UpdateActive
  PROVE  /\ spc = "update_active" /\ spc' = "receive" /\ UNCHANGED lists
         /\ deadline' = deadline
         /\ Descending(active_tasks, prio')
         /\ \A v \in Tasks(active_tasks) :
              /\ prio'[v] \in Nat /\ prio'[v] <= LowestPriority
              /\ priority < prio'[v] \/ prio'[v] = LowestPriority
         /\ \A u \in Tasks(overdue_tasks) : prio'[u] = prio[u]
<1>1. /\ Runs(S) /\ UpdateList(active_tasks, priority)
      /\ spc = "update_active" /\ spc' = "receive" /\ UNCHANGED lists
      /\ deadline' = deadline
  BY DEF UpdateActive, EndRequest
<1>2. /\ priority \in Nat /\ priority > 0 /\ LowestPriority \in Nat
      /\ prio \in [Users -> Nat] /\ active_tasks \in Seq(Users)
      /\ Tasks(active_tasks) \subseteq Listed /\ halted = "no"
      /\ NoDuplicates(active_tasks)
  BY <1>1, NumbersAssumption, ListTypes, SchedulerRunning DEF TypeInv, TypeOK, Listed,
     SInv, ListsWellFormed, HaltInv
<1>3. prio' = UpdatedPriorities(prio, active_tasks, priority, LowestPriority)
  BY <1>1, <1>2, UpdateListSafe DEF UpdateList
<1>4. \A v \in Tasks(active_tasks) :
        /\ prio'[v] \in Nat /\ prio'[v] <= LowestPriority
        /\ priority < prio'[v] \/ prio'[v] = LowestPriority
  BY <1>2, <1>3, UpdatedInRange
<1>5. Descending(active_tasks, prio')
  BY <1>2, <1>3, UpdatedDescending
<1>6. \A u \in Tasks(overdue_tasks) : prio'[u] = prio[u]
  <2>1. \A u \in Tasks(overdue_tasks) : u \in Users /\ u \notin Tasks(active_tasks)
    BY ListTypes DEF SInv, ListsWellFormed
  <2> QED BY <1>2, <1>3, <2>1 DEF UpdatedPriorities
<1> QED BY <1>1, <1>4, <1>5, <1>6

LEMMA UpdateActiveOrder ==
  ASSUME TypeInv, SInv, OrderInv, UpdateActive
  PROVE  OrderInv'
<1>1. /\ spc = "update_active" /\ spc' = "receive"
      /\ active_tasks' = active_tasks /\ overdue_tasks' = overdue_tasks
      /\ Descending(active_tasks, prio')
      /\ \A v \in Tasks(active_tasks) :
           /\ prio'[v] \in Nat /\ prio'[v] <= LowestPriority
           /\ priority < prio'[v] \/ prio'[v] = LowestPriority
      /\ \A u \in Tasks(overdue_tasks) : prio'[u] = prio[u]
  BY UpdateActivePriorities DEF lists
<1>2. OverdueUpdated
  BY <1>1 DEF OrderInv
<1>3. ActiveOrdered'
  BY <1>1 DEF ActiveOrdered, Descending
<1>4. OverdueAbove'
  <2>1. ASSUME NEW u \in Tasks(overdue_tasks), NEW v \in Tasks(active_tasks)
        PROVE  prio'[u] <= prio'[v]
    <3>1. /\ priority \in Nat /\ LowestPriority \in Nat /\ prio[u] \in Nat
          /\ prio[u] <= priority /\ priority <= LowestPriority
      BY <1>2, NumbersAssumption, ListTypes DEF OverdueUpdated, TypeInv, TypeOK
    <3> QED BY <1>1, <3>1
  <2> QED BY <1>1, <2>1 DEF OverdueAbove
<1> QED BY <1>1, <1>3, <1>4 DEF OrderInv

(* deadline_overdue moves a task to the overdue list without a new         *)
(* priority: it came before every active task with time left.              *)
LEMMA MoveOverdueOrder ==
  ASSUME TypeInv, SInv, OrderInv, MoveOverdue
  PROVE  OrderInv'
<1>1. /\ Runs(T) /\ MayLock(T) /\ tpc = "move_overdue" /\ tpc' = "fire"
      /\ UNCHANGED <<now, spc, priority, deadline, prio>>
  BY DEF MoveOverdue, scheduler
<1>2. spc \in {"receive", "start_timer"} /\ expired \in Tasks(active_tasks)
  <2>1. tasks_m = NONE
    BY <1>1 DEF MayLock, SInv, LockInv
  <2> QED BY <1>1, <2>1, TimerTaskRunning, ListTypes DEF SInv, LockInv, CallbackInv
<1>3. /\ active_tasks' = DeleteTask(active_tasks, expired)
      /\ overdue_tasks' = AddTask(overdue_tasks, expired, deadline)
      /\ expired \in Users /\ deadline[expired] <= now
  BY <1>1, <1>2, ListTypes DEF MoveOverdue, SInv, CallbackInv
<1>4. /\ Tasks(active_tasks') = Tasks(active_tasks) \ {expired}
      /\ Tasks(overdue_tasks') = Tasks(overdue_tasks) \cup {expired}
  <2>1. active_tasks \in Seq(Users) /\ overdue_tasks \in Seq(Users)
        /\ deadline \in [Users -> Nat]
    BY ListTypes
  <2>2. Tasks(DeleteTask(active_tasks, expired)) = Tasks(active_tasks) \ {expired}
    BY <1>2, <2>1, DeleteTaskProperties DEF SInv, ListsWellFormed
  <2>3. Tasks(AddTask(overdue_tasks, expired, deadline)) = Tasks(overdue_tasks) \cup {expired}
    BY <1>3, <2>1, AddTaskProperties
  <2> QED BY <1>3, <2>2, <2>3
<1>5. ActiveOrdered /\ OverdueAbove
  BY <1>2 DEF OrderInv, Updating
<1>6. Descending(active_tasks', prio)
  BY <1>2, <1>3, <1>5, ListTypes, DeleteTaskDescending DEF ActiveOrdered
<1>7. ActiveOrdered'
  BY <1>1, <1>4, <1>5, <1>6 DEF ActiveOrdered, Descending
<1>8. ASSUME NEW v \in Tasks(active_tasks), v # expired, ~(deadline[v] <= now)
      PROVE  prio[expired] <= prio[v]
  <2>0. Tasks(active_tasks) = {active_tasks[k] : k \in 1 .. Len(active_tasks)}
    <3>1. active_tasks \in Seq(Users)
      BY ListTypes
    <3> QED BY <3>1, TasksOfSeq
  <2>1. PICK i \in 1 .. Len(active_tasks) : active_tasks[i] = expired
    BY <1>2, <2>0
  <2>2. PICK j \in 1 .. Len(active_tasks) : active_tasks[j] = v
    BY <2>0
  <2>3. /\ now \in Nat /\ deadline[v] \in Nat /\ deadline[expired] \in Nat
        /\ prio[v] \in Nat /\ prio[expired] \in Nat /\ LowestPriority \in Nat
    <3>1. v \in Users /\ expired \in Users
      BY <1>3, ListTypes
    <3>2. prio \in [Users -> Nat] /\ now \in Nat
      BY DEF TypeInv, TypeOK
    <3> QED BY <3>1, <3>2, ListTypes, NumbersAssumption
  <2>4. i < j
    <3>1. j < i => deadline[v] <= deadline[expired]
      BY <2>1, <2>2, ListTypes, SortedSeq DEF SInv, ListsWellFormed
    <3>2. i \in Nat /\ j \in Nat /\ i # j
      BY <1>8, <2>1, <2>2, LenProperties, ListTypes
    <3> QED BY <1>3, <1>8, <2>3, <3>1, <3>2
  <2>5. prio[expired] < prio[v] \/ prio[v] = LowestPriority
    <3>1. i \in DOMAIN active_tasks /\ j \in DOMAIN active_tasks
      BY LenProperties, ListTypes
    <3> QED BY <1>5, <2>1, <2>2, <2>4, <3>1 DEF ActiveOrdered, Descending
  <2>6. prio[expired] <= LowestPriority
    BY <1>2, <1>5 DEF ActiveOrdered
  <2> QED BY <2>3, <2>5, <2>6
<1>9. OverdueAbove'
  <2>1. TimerEntriesHeld'
    BY <1>1 DEF TimerEntriesHeld
  <2> QED BY <1>1, <1>4, <1>5, <1>8, <2>1 DEF OverdueAbove
<1> QED BY <1>1, <1>2, <1>7, <1>9 DEF OrderInv

(* The timer task gives TIMER_ENTRIES_LWSEM back only when no task that    *)
(* is still active is past its deadline.                                   *)
LEMMA PostEntriesOrder ==
  ASSUME TypeInv, SInv, OrderInv, PostEntries
  PROVE  OrderInv'
<1>1. /\ Expired = {} /\ expired = NONE
      /\ UNCHANGED <<now, lists, prio, deadline, spc, priority>>
  BY DEF PostEntries, SInv, CallbackInv, scheduler, table
<1>2. \A v \in Tasks(active_tasks) : ~(deadline[v] <= now)
  <2>1. \A v \in Tasks(active_tasks) : v \in armed /\ v # MON
    BY <1>1, ListTypes DEF SInv, TimerInv, TimersMatchLists
  <2> QED BY <1>1, <2>1 DEF Expired, Expiration
<1>3. ASSUME spc' \notin Updating PROVE ActiveOrdered' /\ OverdueAbove'
  BY <1>1, <1>2, <1>3 DEF OrderInv, ActiveOrdered, OverdueAbove, Descending, lists
<1>4. ASSUME spc' = "update_active" PROVE OverdueUpdated'
  BY <1>1, <1>4 DEF OrderInv, OverdueUpdated, Descending, lists
<1> QED BY <1>3, <1>4 DEF OrderInv

LEMMA SchedulerOrder ==
  ASSUME TypeInv, SInv, OrderInv, SchedulerStep
  PROVE  OrderInv'
<1>0. now \in Nat
  BY DEF TypeInv, TypeOK
<1>1. ASSUME ServeTaskList \/ CreateFails \/ SchedulerWaits PROVE OrderInv'
  BY <1>1, UntouchedOrder DEF ServeTaskList, CreateFails, SchedulerWaits, scheduler,
     table, timerTask
<1>2. ASSUME StartTimer PROVE OrderInv'
  BY <1>0, <1>2, OrderFrame DEF StartTimer, Updating, timerTask, TimerEntriesHeld
<1>3. ASSUME NEW u \in Users, ReceiveDelete(u) PROVE OrderInv'
  BY <1>0, <1>3, OrderFrame DEF ReceiveDelete, Receive, Updating, table, timerTask,
     TimerEntriesHeld
<1>4. ASSUME AddActive PROVE OrderInv'
  BY <1>4 DEF AddActive, OrderInv, Updating
<1>5. ASSUME DeleteOverdue PROVE OrderInv'
  <2>1. client \in Users /\ client \in Tasks(overdue_tasks) /\ ~timer[client]
    BY <1>5, ListTypes DEF DeleteOverdue, SInv, UserInv, TimerInv, TimersMatchLists
  <2> QED BY <1>5, <2>1 DEF DeleteOverdue, CancelOrFree, OrderInv, Updating
<1>6. ASSUME CancelTimer PROVE OrderInv'
  <2>1. /\ spc = "cancel_timer" /\ Runs(S)
    BY <1>6 DEF CancelTimer
  <2>2. node \in armed
    BY <2>1, SchedulerRunning, ListTypes DEF SInv, TimerInv, TypeInv, Served
  <2> QED BY <1>6, <2>2 DEF CancelTimer, OrderInv, Updating
<1> QED BY <1>1, <1>2, <1>3, <1>4, <1>5, <1>6, DeleteActiveOrder, UpdateOverdueOrder,
        UpdateActiveOrder, CreateTaskOrder, CreateWithoutTimerOrder DEF SchedulerStep

LEMMA TimerOrder ==
  ASSUME TypeInv, SInv, OrderInv, TimerStep
  PROVE  OrderInv'
<1>0. now \in Nat
  BY DEF TypeInv, TypeOK
<1> DEFINE Same == UNCHANGED <<now, lists, prio, deadline, spc, priority>>
<1>1. ASSUME Same, TimerEntriesHeld => TimerEntriesHeld' PROVE OrderInv'
  BY <1>0, <1>1, OrderFrame
<1>2. ASSUME FireMonitor \/ \E u \in Users : FireDeadline(u) PROVE OrderInv'
  BY <1>1, <1>2 DEF FireMonitor, FireDeadline, PrintThen, scheduler, table,
     TimerEntriesHeld
<1>3. ASSUME WaitForTick \/ TimerTaskWaits PROVE OrderInv'
  BY <1>1, <1>3 DEF WaitForTick, TimerTaskWaits, scheduler, table, timerTask,
     TimerEntriesHeld
<1>4. ASSUME LockMonitor \/ AskOverdue \/ PrintTasks \/ UnlockMonitor \/ RearmMonitor
      PROVE  OrderInv'
  BY <1>1, <1>4 DEF LockMonitor, AskOverdue, PrintTasks, UnlockMonitor, RearmMonitor,
     PrintThen, scheduler, table, TimerEntriesHeld
<1> QED BY <1>2, <1>3, <1>4, MoveOverdueOrder, PostEntriesOrder DEF TimerStep

(* The generator, the scheduled tasks and the interrupts.                  *)
LEMMA OthersOrder ==
  ASSUME TypeInv, SInv, OrderInv,
         \/ GeneratorStep
         \/ \E u \in Users : UserStep(u)
         \/ Tick \/ SerialDrained \/ ButtonPress
  PROVE  OrderInv'
<1>0. now \in Nat
  BY DEF TypeInv, TypeOK
<1>1. ASSUME GeneratorStep PROVE OrderInv'
  BY <1>1, UntouchedOrder DEF GeneratorStep, PollPresses, DelayGenerator, ReleaseDone,
     ReleaseTask, scheduler, table, timerTask
<1>2. ASSUME NEW u \in Users, FinishTask(u) PROVE OrderInv'
  BY <1>2, UntouchedOrder DEF FinishTask, scheduler, timerTask
<1>3. ASSUME NEW u \in Users, EndTask(u) PROVE OrderInv'
  <2>1. /\ state[u] \in {"aborted", "returned"} /\ prio' = [prio EXCEPT ![u] = 0]
        /\ UNCHANGED <<now, lists, deadline, spc, priority, tpc>>
    BY <1>3 DEF EndTask, scheduler, timerTask
  <2>2. u \notin Listed
    BY <2>1 DEF SInv, UserInv
  <2>3. \A v \in Listed : prio'[v] = prio[v]
    BY <2>1, <2>2, ListTypes DEF TypeInv, TypeOK
  <2> QED BY <1>0, <2>1, <2>3, OrderFrame DEF TimerEntriesHeld
<1>4. ASSUME Tick PROVE OrderInv'
  <2>1. now' = now + 1 /\ UNCHANGED <<lists, prio, deadline, spc, priority, tpc>>
    BY <1>4 DEF Tick, scheduler, table, timerTask
  <2> QED BY <1>0, <2>1, OrderFrame DEF TimerEntriesHeld
<1>5. ASSUME SerialDrained PROVE OrderInv'
  BY <1>0, <1>5, OrderFrame DEF SerialDrained, scheduler, table, TimerEntriesHeld
<1>6. ASSUME ButtonPress PROVE OrderInv'
  BY <1>6, UntouchedOrder DEF ButtonPress, scheduler, table, timerTask
<1> QED BY <1>1, <1>2, <1>3, <1>4, <1>5, <1>6 DEF UserStep

LEMMA InitOrder == Init => OrderInv
BY DEF Init, OrderInv, Updating, ActiveOrdered, OverdueAbove, Descending, Tasks, ToSet

LEMMA NextOrder == SafetyInv /\ OrderInv /\ [Next]_vars => OrderInv'
<1> SUFFICES ASSUME SafetyInv, OrderInv, [Next]_vars PROVE OrderInv'
  OBVIOUS
<1>1. TypeInv /\ SInv
  BY DEF SafetyInv
<1>2. ASSUME Next PROVE OrderInv'
  BY <1>1, <1>2, SchedulerOrder, TimerOrder, OthersOrder DEF Next
<1>3. ASSUME UNCHANGED vars PROVE OrderInv'
  BY <1>1, <1>3, UntouchedOrder DEF vars, scheduler, table, timerTask
<1> QED BY <1>2, <1>3

LEMMA AlwaysOrdered == Spec => [](SafetyInv /\ OrderInv)
BY AlwaysSafe, InitOrder, NextOrder, PTL DEF Spec

(* Between requests the active tasks' priorities strictly descend in list  *)
(* order until the lowest, whatever deadline_overdue took off the list     *)
(* since update_priorities last ran.                                       *)
THEOREM PrioritiesCorrect == Spec => []PrioritiesFollowList
<1>1. SafetyInv /\ OrderInv => PrioritiesFollowList
  BY DEF OrderInv, Updating, ActiveOrdered, Descending, PrioritiesFollowList
<1> QED BY <1>1, AlwaysOrdered, PTL

(* Between requests, with the timer task out of its callbacks, an overdue  *)
(* task has a priority at least that of every task with time left, whether *)
(* update_priorities has seen it since it became overdue or not.           *)
THEOREM OverdueCorrect == Spec => []OverdueFirst
<1>1. SafetyInv /\ OrderInv => OverdueFirst
  BY DEF OrderInv, Updating, OverdueAbove, OverdueFirst
<1> QED BY <1>1, AlwaysOrdered, PTL

-----------------------------------------------------------------------------
(***************************************************************************)
(* The earliest deadline.  It does run only while the timer task is not    *)
(* held up in a callback.  For that case, further invariants: on the       *)
(* deadlines of overdue and active tasks, and on the priorities of all     *)
(* that are listed.  A timer task that never blocks while it prints and    *)
(* that no update_monitor keeps busy is one such case; the other, and the  *)
(* theorem, are in DDSchedulerTiming_proofs.                               *)
(***************************************************************************)
QuickTimerTask == ~PrintBlocks /\ ~MonitorTimer

(* Its callbacks run to their end without another task in between.         *)
CallbacksAtomic ==
  /\ MON \notin armed
  /\ tpc \in {"wait", "posted", "fire", "move_overdue"}
  /\ tpc \in {"fire", "move_overdue"} =>
       /\ spc = "receive" /\ msg_q = <<>>
       /\ ready # <<>> /\ Head(ready) = T

OverdueEarlier ==
  /\ \A u \in Tasks(overdue_tasks) : deadline[u] <= now
  /\ \A u \in Tasks(overdue_tasks), v \in Tasks(active_tasks) : deadline[u] <= deadline[v]
  /\ spc \in {"start_timer", "add_task"} =>
       \A u \in Tasks(overdue_tasks) : deadline[u] <= deadline[node]
  /\ tpc = "move_overdue" =>
       \A v \in Tasks(active_tasks) : deadline[expired] <= deadline[v]

PrioritiesByDeadline ==
  spc \notin Updating =>
    \A u, v \in Listed :
      deadline[u] < deadline[v] => prio[u] < prio[v] \/ prio[v] = LowestPriority

DeadlineInv == OverdueEarlier /\ PrioritiesByDeadline

LEMMA HeadOfConcat ==
  ASSUME NEW X, NEW s \in Seq(X), NEW t \in Seq(X), s # <<>>
  PROVE  s \o t # <<>> /\ Head(s \o t) = Head(s)
<1>1. /\ Len(s) \in Nat /\ Len(s) > 0 /\ Len(t) \in Nat
  BY LenProperties, EmptySeq
<1>2. /\ s \o t \in Seq(X) /\ Len(s \o t) = Len(s) + Len(t) /\ (s \o t)[1] = s[1]
  BY <1>1, ConcatProperties
<1>3. s \o t # <<>>
  BY <1>1, <1>2, EmptySeq
<1> QED BY <1>2, <1>3, HeadTailProperties

LEMMA AtomicStep ==
  ASSUME TypeInv, SInv, CallbacksAtomic, QuickTimerTask, Next
  PROVE  CallbacksAtomic'
<1> DEFINE Busy == tpc \in {"fire", "move_overdue"}
<1>1. ASSUME SchedulerStep PROVE CallbacksAtomic'
  <2>1. Runs(S) /\ tpc' = tpc
    BY <1>1 DEF SchedulerStep, ServeTaskList, CreateFails, StartTimer, SchedulerWaits,
       AddActive, DeleteActive, DeleteOverdue, CancelTimer, UpdateOverdue, UpdateActive,
       CreateTask, CreateWithoutTimer, ReceiveDelete, Receive, timerTask
  <2>2. ~Busy
    BY <2>1, WhoRuns DEF SchedulerReady, CallbacksAtomic
  <2>3. MON \notin armed'
    <3>1. CASE StartTimer
      BY <3>1, ListTypes DEF StartTimer, CallbacksAtomic, TypeInv, Served
    <3> QED BY <1>1, <3>1 DEF SchedulerStep, ServeTaskList, CreateFails, SchedulerWaits,
            AddActive, DeleteActive, DeleteOverdue, CancelTimer, UpdateOverdue,
            UpdateActive, CreateTask, CreateWithoutTimer, ReceiveDelete, CallbacksAtomic
  <2> QED BY <2>1, <2>2, <2>3 DEF CallbacksAtomic
<1>2. ASSUME TimerStep PROVE CallbacksAtomic'
  <2>1. Runs(T)
    BY <1>2 DEF TimerStep, FireMonitor, FireDeadline, Fires, PostEntries, WaitForTick,
       TimerTaskWaits, MoveOverdue, LockMonitor, AskOverdue, PrintTasks,
       UnlockMonitor, RearmMonitor
  <2>2. ready # <<>> /\ Head(ready) = T /\ ~SchedulerReady
    BY <2>1, WhoRuns
  <2>3. tpc \in {"wait", "fire"} => spc = "receive" /\ msg_q = <<>>
    BY <2>2 DEF SchedulerReady, CallbacksAtomic, SInv, LockInv, TimerEntriesHeld
  <2>4. MON \notin armed
    BY DEF CallbacksAtomic
  <2>5. ASSUME NEW u \in Users, FireDeadline(u) PROVE CallbacksAtomic'
    BY <2>2, <2>3, <2>4, <2>5 DEF FireDeadline, Fires, PrintThen, QuickTimerTask,
       scheduler, CallbacksAtomic
  <2>6. ASSUME PostEntries \/ WaitForTick PROVE CallbacksAtomic'
    BY <2>4, <2>6 DEF PostEntries, WaitForTick, kernel, CallbacksAtomic
  <2>7. ASSUME MoveOverdue PROVE CallbacksAtomic'
    BY <2>2, <2>4, <2>7 DEF MoveOverdue, scheduler, CallbacksAtomic
  <2>8. ~TimerTaskWaits
    BY DEF TimerTaskWaits, MayLock, CallbacksAtomic, SInv, LockInv, TypeInv, TypeOK
  <2>9. ~FireMonitor
    BY <2>4 DEF FireMonitor, Fires, Expired
  <2>10. ~(LockMonitor \/ AskOverdue \/ PrintTasks \/ UnlockMonitor \/ RearmMonitor)
    BY DEF CallbacksAtomic, LockMonitor, AskOverdue, PrintTasks, UnlockMonitor,
       RearmMonitor
  <2> QED BY <1>2, <2>5, <2>6, <2>7, <2>8, <2>9, <2>10 DEF TimerStep
<1>3. ASSUME GeneratorStep PROVE CallbacksAtomic'
  <2>1. Runs(G) /\ armed' = armed /\ tpc' = tpc
    BY <1>3 DEF GeneratorStep, PollPresses, DelayGenerator, ReleaseDone, ReleaseTask,
       kernel, timerTask
  <2>2. ~Busy
    BY <2>1, WhoRuns, ListTypes DEF CallbacksAtomic
  <2> QED BY <2>1, <2>2 DEF CallbacksAtomic
<1>4. ASSUME NEW u \in Users, UserStep(u) PROVE CallbacksAtomic'
  <2>1. Runs(u) /\ armed' = armed /\ tpc' = tpc
    BY <1>4 DEF UserStep, FinishTask, EndTask, kernel, timerTask
  <2>2. ~Busy
    BY <2>1, WhoRuns DEF CallbacksAtomic
  <2> QED BY <2>1, <2>2 DEF CallbacksAtomic
<1>5. ASSUME Tick PROVE CallbacksAtomic'
  <2>1. /\ armed' = armed /\ tpc' = tpc /\ spc' = spc /\ msg_q' = msg_q
        /\ \E q \in {<<>>, <<G>>} : ready' \in {ready \o q, (ready \o q) \o <<T>>}
    BY <1>5 DEF Tick, scheduler, timerTask
  <2>2. ready # <<>> => ready' # <<>> /\ Head(ready') = Head(ready)
    <3>1. /\ ready \in Seq({T, G}) /\ <<>> \in Seq({T, G}) /\ <<G>> \in Seq({T, G})
          /\ <<T>> \in Seq({T, G})
      BY DEF TypeInv, TypeOK
    <3>2. \A q \in {<<>>, <<G>>} : ready \o q \in Seq({T, G})
      BY <3>1, ConcatProperties
    <3> QED BY <2>1, <3>1, <3>2, HeadOfConcat
  <2> QED BY <2>1, <2>2 DEF CallbacksAtomic
<1>6. ~SerialDrained
  BY DEF SerialDrained, CallbacksAtomic
<1>7. ASSUME ButtonPress PROVE CallbacksAtomic'
  BY <1>7 DEF ButtonPress, kernel, scheduler, timerTask, CallbacksAtomic
<1> QED BY <1>1, <1>2, <1>3, <1>4, <1>5, <1>6, <1>7 DEF Next

-----------------------------------------------------------------------------
(* In a list sorted by deadline, descending priorities follow deadlines.   *)
LEMMA DescendingByDeadline ==
  ASSUME NEW s \in Seq(Users), NEW d \in [Users -> Nat], NEW p,
         SortedByDeadline(s, d), Descending(s, p),
         NEW u \in Tasks(s), NEW v \in Tasks(s), d[u] < d[v]
  PROVE  p[u] < p[v] \/ p[v] = LowestPriority
<1>1. PICK i \in 1 .. Len(s) : s[i] = u
  BY TasksOfSeq
<1>2. PICK j \in 1 .. Len(s) : s[j] = v
  BY TasksOfSeq
<1>3. /\ Len(s) \in Nat /\ DOMAIN s = 1 .. Len(s) /\ u \in Users /\ v \in Users
      /\ d[u] \in Nat /\ d[v] \in Nat
  BY LenProperties, TasksOfSeq
<1>4. i < j
  <2>1. j < i => d[v] <= d[u]
    BY <1>1, <1>2, SortedSeq
  <2>2. i \in Nat /\ j \in Nat /\ i # j
    BY <1>1, <1>2, <1>3
  <2> QED BY <1>3, <2>1, <2>2
<1> QED BY <1>1, <1>2, <1>3, <1>4 DEF Descending

(* Of that the deadlines need no more than this: no callback is held up by *)
(* its output, and the scheduler has nothing to do while one moves a task. *)
CallbacksQuiet ==
  /\ tpc \notin Printing
  /\ tpc = "move_overdue" => spc = "receive" /\ msg_q = <<>>

(* While a callback moves a task, it is on the active list.                *)
LEMMA MovingIsActive ==
  ASSUME TypeInv, SInv, CallbacksQuiet, tpc = "move_overdue"
  PROVE  expired \in Tasks(active_tasks)
BY ListTypes DEF SInv, CallbackInv, CallbacksQuiet

(* Steps that leave the lists and the deadlines on them.                   *)
LEMMA OverdueFrame ==
  ASSUME TypeInv, SInv, CallbacksQuiet, OverdueEarlier,
         UNCHANGED lists, now' \in Nat, now' >= now,
         \A u \in Listed : deadline'[u] = deadline[u],
         spc' \in {"start_timer", "add_task"} =>
           /\ spc \in {"start_timer", "add_task"} /\ node' = node
           /\ deadline'[node] = deadline[node],
         tpc' = "move_overdue" => tpc = "move_overdue" /\ expired' = expired
  PROVE  OverdueEarlier'
<1>1. active_tasks' = active_tasks /\ overdue_tasks' = overdue_tasks
  BY DEF lists
<1>2. /\ \A u \in Tasks(active_tasks) : deadline'[u] = deadline[u]
      /\ \A u \in Tasks(overdue_tasks) : deadline'[u] = deadline[u] /\ deadline[u] \in Nat
      /\ now \in Nat
  <2>1. now \in Nat
    BY DEF TypeInv, TypeOK
  <2>2. Tasks(overdue_tasks) \subseteq Users /\ deadline \in [Users -> Nat]
    BY ListTypes
  <2> QED BY <2>1, <2>2 DEF Listed
<1>3. tpc' = "move_overdue" => deadline'[expired'] = deadline[expired]
  BY <1>2, MovingIsActive
<1>4. \A u \in Tasks(overdue_tasks) : deadline[u] <= now => deadline'[u] <= now'
  BY <1>2
<1> QED BY <1>1, <1>2, <1>3, <1>4 DEF OverdueEarlier

(* And that leave their priorities.                                        *)
LEMMA DeadlineFrame ==
  ASSUME TypeInv, SInv, CallbacksQuiet, DeadlineInv,
         UNCHANGED lists, now' \in Nat, now' >= now,
         \A u \in Listed : prio'[u] = prio[u] /\ deadline'[u] = deadline[u],
         spc' \notin Updating => spc \notin Updating,
         spc' \in {"start_timer", "add_task"} =>
           /\ spc \in {"start_timer", "add_task"} /\ node' = node
           /\ deadline'[node] = deadline[node],
         tpc' = "move_overdue" => tpc = "move_overdue" /\ expired' = expired
  PROVE  DeadlineInv'
<1>1. OverdueEarlier'
  BY OverdueFrame DEF DeadlineInv
<1>2. PrioritiesByDeadline'
  BY DEF DeadlineInv, PrioritiesByDeadline, lists, Listed
<1> QED BY <1>1, <1>2 DEF DeadlineInv

LEMMA UntouchedDeadlines ==
  ASSUME TypeInv, SInv, CallbacksQuiet, DeadlineInv,
         UNCHANGED <<now, lists, prio, deadline, spc, node, tpc, expired>>
  PROVE  DeadlineInv'
<1>1. now' \in Nat /\ now' >= now
  BY DEF TypeInv, TypeOK
<1> QED BY <1>1, DeadlineFrame

LEMMA CreateWithoutTimerDeadlines ==
  ASSUME TypeInv, SInv, CallbacksQuiet, DeadlineInv,
         NEW u \in Users, CreateWithoutTimer(u)
  PROVE  DeadlineInv'
<1>1. /\ u \notin Listed /\ prio' = [prio EXCEPT ![u] = TemplatePriority[kind]]
      /\ UNCHANGED <<now, lists, scheduler, deadline, timerTask>>
  BY DEF CreateWithoutTimer, FreeTasks, SInv, NodeInv, NoNodeLost
<1>2. \A v \in Listed : prio'[v] = prio[v] /\ deadline'[v] = deadline[v]
  BY <1>1, ListTypes DEF TypeInv, TypeOK
<1>3. now' \in Nat /\ now' >= now
  BY <1>1 DEF TypeInv, TypeOK
<1> QED BY <1>1, <1>2, <1>3, DeadlineFrame DEF scheduler, timerTask

(* A new task's deadline is not before now, an overdue task's is.          *)
LEMMA CreateTaskDeadlines ==
  ASSUME TypeInv, SInv, CallbacksQuiet, DeadlineInv,
         NEW u \in Users, CreateTask(u)
  PROVE  DeadlineInv'
<1>1. /\ Runs(S) /\ spc = "receive" /\ spc' = "start_timer" /\ node' = u
      /\ u \in FreeTasks /\ G \in Tasks(msg_q)
      /\ prio' = [prio EXCEPT ![u] = TemplatePriority[kind]]
      /\ deadline' = [deadline EXCEPT ![u] = now + Deadline[kind]]
      /\ active_tasks' = active_tasks /\ overdue_tasks' = overdue_tasks
      /\ now' = now /\ tpc' = tpc
  BY ReceiveTasks DEF CreateTask, Receive, lists, timerTask
<1>2. u \notin Listed /\ tpc # "move_overdue"
  BY <1>1, WhoRuns DEF FreeTasks, SInv, NodeInv, NoNodeLost, SchedulerReady, CallbacksQuiet
<1>3. now \in Nat /\ Deadline[kind] \in Nat
  BY <1>1, NumbersAssumption DEF TypeInv, TypeOK, GeneratorPlace
<1>4. \A v \in Listed : prio'[v] = prio[v] /\ deadline'[v] = deadline[v] /\ deadline[v] \in Nat
  BY <1>1, <1>2, ListTypes DEF TypeInv, TypeOK
<1>5. deadline'[u] >= now /\ deadline'[u] \in Nat
  BY <1>1, <1>3, ListTypes
<1>6. /\ Tasks(overdue_tasks) \subseteq Listed /\ Tasks(active_tasks) \subseteq Listed
      /\ Listed' = Listed
  BY <1>1 DEF Listed
<1>7. \A v \in Tasks(overdue_tasks) : deadline'[v] <= deadline'[u]
  BY <1>3, <1>4, <1>5, <1>6 DEF DeadlineInv, OverdueEarlier
<1>8. OverdueEarlier'
  BY <1>1, <1>2, <1>4, <1>6, <1>7 DEF DeadlineInv, OverdueEarlier
<1>9. PrioritiesByDeadline'
  BY <1>1, <1>4, <1>6 DEF DeadlineInv, PrioritiesByDeadline, Updating
<1> QED BY <1>8, <1>9 DEF DeadlineInv

LEMMA DeleteActiveDeadlines ==
  ASSUME TypeInv, SInv, CallbacksQuiet, DeadlineInv, DeleteActive
  PROVE  DeadlineInv'
<1>1. /\ spc = "delete_active" /\ overdue_tasks' = overdue_tasks /\ Runs(S)
      /\ prio' = prio /\ tpc' = tpc /\ expired' = expired /\ now' = now
  BY DEF DeleteActive, timerTask
<1>2. CASE client \in Tasks(active_tasks)
  <2>1. client \in Users /\ timer[client] /\ tpc # "move_overdue"
    BY <1>1, <1>2, ListTypes, SchedulerRunning, WhoRuns
       DEF SInv, TimerInv, SchedulerReady, CallbacksQuiet
  <2>2. /\ active_tasks' = DeleteTask(active_tasks, client)
        /\ spc' = "cancel_timer" /\ deadline' = deadline
    BY <1>2, <2>1 DEF DeleteActive, CancelOrFree
  <2>3. Tasks(active_tasks') \subseteq Tasks(active_tasks) /\ Listed' \subseteq Listed
    BY <1>1, <1>2, <2>2, ListTypes, DeleteTaskProperties DEF SInv, ListsWellFormed, Listed
  <2>4. OverdueEarlier'
    BY <1>1, <2>1, <2>2, <2>3 DEF DeadlineInv, OverdueEarlier
  <2>5. PrioritiesByDeadline'
    BY <1>1, <2>2, <2>3 DEF DeadlineInv, PrioritiesByDeadline, Updating
  <2> QED BY <2>4, <2>5 DEF DeadlineInv
<1>3. CASE client \notin Tasks(active_tasks)
  <2>1. /\ active_tasks' = active_tasks /\ spc' = "delete_overdue" /\ deadline' = deadline
    BY <1>3 DEF DeleteActive
  <2>2. UNCHANGED lists /\ \A u \in Listed : prio'[u] = prio[u] /\ deadline'[u] = deadline[u]
    BY <1>1, <2>1 DEF lists
  <2>3. now' \in Nat /\ now' >= now
    BY <1>1 DEF TypeInv, TypeOK
  <2> QED BY <1>1, <2>1, <2>2, <2>3, DeadlineFrame DEF Updating
<1> QED BY <1>2, <1>3

(* The other handlers of the scheduler that are on their way to the two    *)
(* updates: only the deadlines matter.                                     *)
LEMMA ToUpdateDeadlines ==
  ASSUME TypeInv, SInv, CallbacksQuiet, DeadlineInv,
         AddActive \/ DeleteOverdue \/ CancelTimer \/ UpdateOverdue
  PROVE  DeadlineInv'
<1>0. now \in Nat
  BY DEF TypeInv, TypeOK
<1>1. ASSUME AddActive PROVE DeadlineInv'
  <2>1. /\ Runs(S) /\ spc = "add_task" /\ spc' = "update_overdue"
        /\ active_tasks' = AddTask(active_tasks, node, deadline)
        /\ overdue_tasks' = overdue_tasks /\ deadline' = deadline /\ now' = now /\ tpc' = tpc
    BY <1>1 DEF AddActive, table, timerTask
  <2>2. node \in Users /\ tpc # "move_overdue"
    BY <2>1, WhoRuns DEF TypeInv, Served, SchedulerReady, CallbacksQuiet
  <2>3. Tasks(active_tasks') = Tasks(active_tasks) \cup {node}
    <3>1. active_tasks \in Seq(Users) /\ deadline \in [Users -> Nat]
      BY ListTypes
    <3>2. Tasks(AddTask(active_tasks, node, deadline)) = Tasks(active_tasks) \cup {node}
      BY <2>2, <3>1, AddTaskProperties
    <3> QED BY <2>1, <3>2
  <2> QED BY <2>1, <2>2, <2>3 DEF DeadlineInv, OverdueEarlier, PrioritiesByDeadline, Updating
<1>2. ASSUME DeleteOverdue PROVE DeadlineInv'
  <2>1. /\ client \in Users /\ client \in Tasks(overdue_tasks) /\ ~timer[client]
        /\ client \notin Tasks(active_tasks)
    BY <1>2, ListTypes DEF DeleteOverdue, SInv, UserInv, TimerInv, TimersMatchLists,
       ListsWellFormed
  <2>2. /\ Runs(S) /\ overdue_tasks' = DeleteTask(overdue_tasks, client)
        /\ spc' = "update_overdue" /\ deadline' = [deadline EXCEPT ![client] = 0]
        /\ active_tasks' = active_tasks /\ now' = now /\ tpc' = tpc
    BY <1>2, <2>1 DEF DeleteOverdue, CancelOrFree, FreeNode, timerTask
  <2>3. Tasks(overdue_tasks') = Tasks(overdue_tasks) \ {client}
    BY <2>1, <2>2, ListTypes, DeleteTaskProperties DEF SInv, ListsWellFormed
  <2>4. /\ \A u \in Tasks(overdue_tasks') : deadline'[u] = deadline[u]
        /\ \A u \in Tasks(active_tasks) : deadline'[u] = deadline[u]
    BY <2>1, <2>2, <2>3, ListTypes
  <2>5. tpc # "move_overdue"
    BY <2>2, WhoRuns, SchedulerRunning DEF SchedulerReady, CallbacksQuiet, DeleteOverdue
  <2> QED BY <2>2, <2>3, <2>4, <2>5 DEF DeadlineInv, OverdueEarlier, PrioritiesByDeadline,
          Updating
<1>3. ASSUME CancelTimer PROVE DeadlineInv'
  <2>1. /\ spc = "cancel_timer" /\ Runs(S) /\ node \notin Listed /\ node \in Users
    BY <1>3 DEF CancelTimer, SInv, UserInv, TypeInv, Served
  <2>2. node \in armed
    BY <2>1, SchedulerRunning, ListTypes DEF SInv, TimerInv
  <2>3. /\ spc' = "update_overdue" /\ deadline' = [deadline EXCEPT ![node] = 0]
        /\ UNCHANGED <<now, lists, tpc, expired>> /\ prio' = prio
    BY <1>3, <2>2 DEF CancelTimer, FreeNode, timerTask
  <2>4. \A u \in Listed : deadline'[u] = deadline[u] /\ prio'[u] = prio[u]
    BY <2>1, <2>3, ListTypes
  <2> QED BY <1>0, <2>3, <2>4, DeadlineFrame DEF Updating
<1>4. ASSUME UpdateOverdue PROVE DeadlineInv'
  <2>1. /\ spc' = "update_active" /\ UNCHANGED <<now, lists, deadline, tpc, expired>>
    BY <1>4 DEF UpdateOverdue, timerTask
  <2>2. OverdueEarlier'
    BY <1>0, <2>1, OverdueFrame DEF DeadlineInv
  <2> QED BY <2>1, <2>2 DEF DeadlineInv, PrioritiesByDeadline, Updating
<1> QED BY <1>1, <1>2, <1>3, <1>4

(* The two updates put all listed tasks in the order of their deadlines:   *)
(* each list is sorted, and no active task is due before an overdue one.   *)
LEMMA UpdateActiveDeadlines ==
  ASSUME TypeInv, SInv, OrderInv, CallbacksQuiet, DeadlineInv, UpdateActive
  PROVE  DeadlineInv'
<1>1. /\ spc = "update_active" /\ spc' = "receive" /\ deadline' = deadline
      /\ active_tasks' = active_tasks /\ overdue_tasks' = overdue_tasks
      /\ Descending(active_tasks, prio')
      /\ \A v \in Tasks(active_tasks) :
           /\ prio'[v] \in Nat /\ prio'[v] <= LowestPriority
           /\ priority < prio'[v] \/ prio'[v] = LowestPriority
      /\ \A u \in Tasks(overdue_tasks) : prio'[u] = prio[u]
  BY UpdateActivePriorities DEF lists
<1>2. OverdueUpdated
  BY <1>1 DEF OrderInv
<1>3. /\ SortedByDeadline(active_tasks, deadline) /\ SortedByDeadline(overdue_tasks, deadline)
  BY DEF SInv, ListsWellFormed
<1>4. OverdueEarlier'
  <2>1. now \in Nat /\ UNCHANGED <<now, lists, tpc, expired>>
    BY DEF UpdateActive, timerTask, TypeInv, TypeOK
  <2> QED BY <1>1, <2>1, OverdueFrame DEF DeadlineInv
<1>5. ASSUME NEW u \in Listed, NEW v \in Listed, deadline[u] < deadline[v]
      PROVE  prio'[u] < prio'[v] \/ prio'[v] = LowestPriority
  <2>1. CASE u \in Tasks(active_tasks) /\ v \in Tasks(active_tasks)
    BY <1>1, <1>3, <1>5, <2>1, ListTypes, DescendingByDeadline
  <2>2. CASE u \in Tasks(overdue_tasks) /\ v \in Tasks(overdue_tasks)
    <3>1. prio[u] < prio[v] \/ prio[v] = LowestPriority
      BY <1>2, <1>3, <1>5, <2>2, ListTypes, DescendingByDeadline DEF OverdueUpdated
    <3> QED BY <1>1, <2>2, <3>1
  <2>3. CASE u \in Tasks(overdue_tasks) /\ v \in Tasks(active_tasks)
    <3>1. /\ prio'[u] = prio[u] /\ prio[u] \in Nat /\ prio[u] <= priority
          /\ priority \in Nat
      BY <1>1, <1>2, <2>3, ListTypes DEF OverdueUpdated, TypeInv, TypeOK
    <3>2. /\ prio'[v] \in Nat
          /\ priority < prio'[v] \/ prio'[v] = LowestPriority
      BY <1>1, <2>3
    <3> QED BY <3>1, <3>2
  <2>4. CASE u \in Tasks(active_tasks) /\ v \in Tasks(overdue_tasks)
    <3>1. deadline[v] <= deadline[u] /\ deadline[u] \in Nat /\ deadline[v] \in Nat
      BY <2>4, ListTypes DEF DeadlineInv, OverdueEarlier
    <3> QED BY <1>5, <3>1
  <2> QED BY <2>1, <2>2, <2>3, <2>4 DEF Listed
<1>6. PrioritiesByDeadline'
  BY <1>1, <1>5 DEF PrioritiesByDeadline, Listed
<1> QED BY <1>4, <1>6 DEF DeadlineInv

LEMMA SchedulerDeadlines ==
  ASSUME TypeInv, SInv, OrderInv, CallbacksQuiet, DeadlineInv, SchedulerStep
  PROVE  DeadlineInv'
<1>0. now \in Nat
  BY DEF TypeInv, TypeOK
<1>1. ASSUME ServeTaskList \/ CreateFails \/ SchedulerWaits PROVE DeadlineInv'
  BY <1>1, UntouchedDeadlines DEF ServeTaskList, CreateFails, SchedulerWaits, scheduler,
     table, timerTask
<1>2. ASSUME StartTimer PROVE DeadlineInv'
  BY <1>0, <1>2, DeadlineFrame DEF StartTimer, Updating, timerTask
<1>3. ASSUME NEW u \in Users, ReceiveDelete(u) PROVE DeadlineInv'
  BY <1>0, <1>3, DeadlineFrame DEF ReceiveDelete, Receive, Updating, table, timerTask
<1> QED BY <1>1, <1>2, <1>3, CreateTaskDeadlines, CreateWithoutTimerDeadlines,
        DeleteActiveDeadlines,
        ToUpdateDeadlines, UpdateActiveDeadlines DEF SchedulerStep

(* deadline_overdue takes the earliest deadline that has come.             *)
LEMMA FireDeadlines ==
  ASSUME TypeInv, SInv, CallbacksQuiet, DeadlineInv,
         NEW u \in Users, FireDeadline(u)
  PROVE  DeadlineInv'
<1>1. /\ u \in armed /\ Earliest(u) /\ expired' = u /\ expired = NONE
      /\ deadline' = deadline /\ prio' = prio /\ spc' = spc /\ node' = node
      /\ active_tasks' = active_tasks /\ overdue_tasks' = overdue_tasks /\ now' = now
  BY DEF FireDeadline, Fires, Expired, SInv, CallbackInv, scheduler, table, lists
<1>2. \A v \in Tasks(active_tasks) : deadline[u] <= deadline[v]
  <2>1. \A v \in Tasks(active_tasks) : v \in armed /\ v # MON
    BY <1>1, ListTypes DEF SInv, TimerInv, TimersMatchLists
  <2> QED BY <1>1, <2>1, ListTypes DEF Earliest, Expiration
<1> QED BY <1>1, <1>2 DEF DeadlineInv, OverdueEarlier, PrioritiesByDeadline, Listed

LEMMA MoveOverdueDeadlines ==
  ASSUME TypeInv, SInv, CallbacksQuiet, DeadlineInv, MoveOverdue
  PROVE  DeadlineInv'
<1>1. /\ tpc = "move_overdue" /\ tpc' = "fire" /\ spc = "receive" /\ spc' = spc
      /\ deadline' = deadline /\ prio' = prio /\ now' = now
      /\ expired \in Tasks(active_tasks) /\ expired \in Users
      /\ deadline[expired] <= now
  BY MovingIsActive, ListTypes DEF MoveOverdue, scheduler, CallbacksQuiet, SInv, CallbackInv
<1>2. /\ active_tasks' = DeleteTask(active_tasks, expired)
      /\ overdue_tasks' = AddTask(overdue_tasks, expired, deadline)
  BY <1>1 DEF MoveOverdue
<1>3. /\ Tasks(active_tasks') = Tasks(active_tasks) \ {expired}
      /\ Tasks(overdue_tasks') = Tasks(overdue_tasks) \cup {expired}
  <2>1. Tasks(DeleteTask(active_tasks, expired)) = Tasks(active_tasks) \ {expired}
    BY <1>1, ListTypes, DeleteTaskProperties DEF SInv, ListsWellFormed
  <2>2. Tasks(AddTask(overdue_tasks, expired, deadline)) = Tasks(overdue_tasks) \cup {expired}
    <3>1. overdue_tasks \in Seq(Users) /\ deadline \in [Users -> Nat]
      BY ListTypes
    <3> QED BY <1>1, <3>1, AddTaskProperties
  <2> QED BY <1>2, <2>1, <2>2
<1>4. Listed' = Listed
  BY <1>1, <1>3 DEF Listed
<1>5. OverdueEarlier'
  BY <1>1, <1>3 DEF DeadlineInv, OverdueEarlier
<1>6. PrioritiesByDeadline'
  BY <1>1, <1>4 DEF DeadlineInv, PrioritiesByDeadline, Updating
<1> QED BY <1>5, <1>6 DEF DeadlineInv

LEMMA TimerDeadlines ==
  ASSUME TypeInv, SInv, CallbacksQuiet, DeadlineInv, TimerStep
  PROVE  DeadlineInv'
<1>0. now \in Nat
  BY DEF TypeInv, TypeOK
<1>1. ASSUME UNCHANGED <<now, lists, prio, deadline, spc, node>>,
             tpc' = "move_overdue" => tpc = "move_overdue" /\ expired' = expired
      PROVE  DeadlineInv'
  BY <1>0, <1>1, DeadlineFrame
<1>2. ASSUME FireMonitor \/ PostEntries \/ WaitForTick \/ TimerTaskWaits PROVE DeadlineInv'
  BY <1>1, <1>2 DEF FireMonitor, PostEntries, WaitForTick, TimerTaskWaits, scheduler,
     table, timerTask
<1>3. ASSUME LockMonitor \/ AskOverdue \/ PrintTasks \/ UnlockMonitor \/ RearmMonitor
      PROVE  DeadlineInv'
  BY <1>1, <1>3 DEF LockMonitor, AskOverdue, PrintTasks, UnlockMonitor, RearmMonitor,
     PrintThen, scheduler, table
<1> QED BY <1>2, <1>3, FireDeadlines, MoveOverdueDeadlines DEF TimerStep

(* The generator, the scheduled tasks and the interrupts.                  *)
LEMMA OthersDeadlines ==
  ASSUME TypeInv, SInv, CallbacksQuiet, DeadlineInv,
         \/ GeneratorStep
         \/ \E u \in Users : UserStep(u)
         \/ Tick \/ SerialDrained \/ ButtonPress
  PROVE  DeadlineInv'
<1>0. now \in Nat
  BY DEF TypeInv, TypeOK
<1>1. ASSUME GeneratorStep PROVE DeadlineInv'
  BY <1>1, UntouchedDeadlines DEF GeneratorStep, PollPresses, DelayGenerator,
     ReleaseDone, ReleaseTask, scheduler, table, timerTask
<1>2. ASSUME NEW u \in Users, FinishTask(u) PROVE DeadlineInv'
  BY <1>2, UntouchedDeadlines DEF FinishTask, scheduler, timerTask
<1>3. ASSUME NEW u \in Users, EndTask(u) PROVE DeadlineInv'
  <2>1. /\ state[u] \in {"aborted", "returned"} /\ prio' = [prio EXCEPT ![u] = 0]
        /\ UNCHANGED <<now, lists, deadline, spc, node, tpc, expired>>
    BY <1>3 DEF EndTask, scheduler, timerTask
  <2>2. u \notin Listed
    BY <2>1 DEF SInv, UserInv
  <2>3. \A v \in Listed : prio'[v] = prio[v]
    BY <2>1, <2>2, ListTypes DEF TypeInv, TypeOK
  <2> QED BY <1>0, <2>1, <2>3, DeadlineFrame
<1>4. ASSUME Tick PROVE DeadlineInv'
  <2>1. /\ now' = now + 1
        /\ UNCHANGED <<lists, prio, deadline, spc, node, tpc, expired>>
    BY <1>4 DEF Tick, scheduler, table, timerTask
  <2> QED BY <1>0, <2>1, DeadlineFrame
<1>5. ~SerialDrained
  BY DEF SerialDrained, CallbacksQuiet, Printing
<1>6. ASSUME ButtonPress PROVE DeadlineInv'
  BY <1>6, UntouchedDeadlines DEF ButtonPress, scheduler, table, timerTask
<1> QED BY <1>1, <1>2, <1>3, <1>4, <1>5, <1>6 DEF UserStep

(***************************************************************************)
(* The inductive invariant when the timer task is quick.                   *)
(***************************************************************************)
QuickInv == QuickTimerTask => CallbacksAtomic

LEMMA NextQuick == SafetyInv /\ QuickInv /\ [Next]_vars => QuickInv'
<1> SUFFICES ASSUME TypeInv, SInv, QuickTimerTask, CallbacksAtomic, [Next]_vars
             PROVE  CallbacksAtomic'
  BY DEF SafetyInv, QuickInv, QuickTimerTask
<1>1. ASSUME UNCHANGED vars PROVE CallbacksAtomic'
  BY <1>1 DEF vars, kernel, scheduler, timerTask, CallbacksAtomic
<1> QED BY <1>1, AtomicStep

LEMMA AlwaysQuick == Spec => [](SafetyInv /\ OrderInv /\ QuickInv)
<1>1. Init => QuickInv
  BY DEF Init, QuickInv, QuickTimerTask, CallbacksAtomic
<1> QED BY <1>1, AlwaysOrdered, NextQuick, PTL DEF Spec
=============================================================================
