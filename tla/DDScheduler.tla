---------------------------- MODULE DDScheduler ----------------------------
(***************************************************************************)
(* The deadline-driven scheduler as the tasks of one MQX processor run it: *)
(*                                                                         *)
(*   S   Scheduler_task, priority 0: serves one request at a time          *)
(*   T   the MQX timer task, priority 1: runs deadline_overdue and         *)
(*       update_monitor as timer callbacks                                 *)
(*   G   Generator_task, priority 1: releases tasks through dd_tcreate     *)
(*   Users  the scheduled tasks, below priority 1: each ends in dd_delete  *)
(*                                                                         *)
(* A step is what one task does between two points where it can block or   *)
(* where another task can be let in: a message receive, tasks_m, the timer *)
(* component's TIMER_ENTRIES_LWSEM, a full serial buffer.  Only the task   *)
(* the kernel would run takes a step; interrupts may come between any two. *)
(***************************************************************************)
EXTENDS TaskList

CONSTANTS
  Users,             \* tasks (and their list nodes) the heap has room for
  S, T, G,           \* the scheduler, timer and generator tasks
  MON,               \* the periodic timer entry of update_monitor
  NONE,
  Periodic,          \* periodic_tasks[] is indexed by 1 .. Periodic
  Period,            \* Period[i]: release period of periodic task i
  Deadline,          \* Deadline[i]: relative deadline; index 0 is the
                     \* aperiodic task a button press releases
  TemplatePriority,  \* TemplatePriority[i]: priority _task_create gives
  GeneratorPriority, \* what _task_get_priority(generator) returns
  LowestPriority,    \* _sched_get_min_priority
  GeneratorQueue,    \* capacity of the generator's message queue
  MonitorPeriod,     \* UPDATE_PERIOD
  MonitorTimer,      \* did Monitor_task get its timer? (it goes on without)
  MaxTicks,          \* bound on time
  PrintBlocks,       \* can output fill the serial buffer and block T?
  SlowTicks          \* can a tick come before the work of the last is done?

Kinds == 0 .. Periodic
Clients == {G, T} \cup Users

ASSUME ActorsAssumption ==
  /\ S \notin {T, G, MON, NONE} /\ T \notin {G, MON, NONE}
  /\ G \notin {MON, NONE} /\ MON # NONE
  /\ {S, T, G, MON, NONE} \cap Users = {}
ASSUME NumbersAssumption ==
  /\ Periodic \in Nat
  /\ Period \in [1 .. Periodic -> Nat]
  /\ Deadline \in [Kinds -> Nat]
  /\ TemplatePriority \in [Kinds -> Nat]
  /\ {GeneratorPriority, LowestPriority} \subseteq Nat \ {0}
  /\ {GeneratorQueue, MonitorPeriod, MaxTicks} \subseteq Nat
  /\ {MonitorTimer, PrintBlocks, SlowTicks} \subseteq BOOLEAN

VARIABLES
  now,            \* elapsed ticks
  halted,         \* "no", or the assertion or fault that stopped the system
  \* the kernel
  ready,          \* ready queue of priority 1: a sequence of T and G
  tasks_m,        \* owner of the list mutex
  waiters,        \* its WAITING_TASKS
  armed,          \* timer entries in the timer component's queue
  ticked,         \* TIMER_ISR_LWSEM was posted while T was not waiting on it
  monitorDue,     \* expiration time of the periodic entry
  msg_q,          \* SCHEDULER_QID: the clients whose request is queued
  pool,           \* scheduler_msg_pool has been created
  \* scheduler_task.c
  spc,            \* what Scheduler_task does next
  client,         \* SOURCE_QID of the request being served
  node,           \* "task": the list node being served
  result,         \* "result" of sched_delete_task
  priority,       \* "priority": what update_priorities returned
  active_tasks, overdue_tasks,
  \* list nodes and task descriptors
  nodes,          \* allocated list nodes
  deadline,       \* deadline field
  timer,          \* timer field is not TIMER_NULL_ID
  state,          \* kernel state of a user task
  prio,           \* kernel priority of a user task
  reply,          \* the response a user task got from dd_delete
  \* the timer task
  tpc, expired,   \* what it does next, and the callback's task argument
  \* generator_task.c
  gpc,            \* what Generator_task does next
  kind,           \* 0 while polling for a press, i in the loop over tasks
  start_ticks, release_times,
  created,        \* dd_tcreate's result is not MQX_NULL_TASK_ID
  generator_q     \* messages in the generator's queue

kernel == <<ready, tasks_m, waiters, armed, ticked, monitorDue, msg_q, pool>>
scheduler == <<spc, client, node, result, priority>>
lists == <<active_tasks, overdue_tasks>>
table == <<nodes, deadline, timer, state, prio, reply>>
timerTask == <<tpc, expired>>
generator == <<gpc, kind, start_ticks, release_times, created, generator_q>>
vars == <<now, halted, kernel, scheduler, lists, table, timerTask, generator>>

SchedulerStates ==
  {"receive", "start_timer", "add_task", "delete_active", "delete_overdue",
   "cancel_timer", "update_overdue", "update_active"}
TimerStates ==
  {"wait", "fire", "posted", "print_overdue", "move_overdue", "lock_monitor",
   "ask_active", "ask_overdue", "print_tasks", "unlock_monitor", "print_stats",
   "rearm_monitor"}
UserStates == {"free", "running", "receiving", "returned", "aborted"}
Halts == {"no", "generator assert", "button assert", "user assert",
          "priority assert", "monitor assert", "null insert"}

TypeOK ==
  /\ now \in 0 .. MaxTicks /\ halted \in Halts
  /\ ready \in Seq({T, G})
  /\ tasks_m \in {S, T, NONE} /\ waiters \subseteq {S, T}
  /\ armed \subseteq Users \cup {MON} /\ ticked \in BOOLEAN
  /\ monitorDue \in Nat
  /\ msg_q \in Seq(Clients) /\ pool \in BOOLEAN
  /\ spc \in SchedulerStates
  /\ client \in Clients \cup {NONE} /\ node \in Users \cup {NONE}
  /\ result \in {"ok", "error"} /\ priority \in Nat
  /\ active_tasks \in Seq(Users) /\ overdue_tasks \in Seq(Users)
  /\ nodes \subseteq Users
  /\ deadline \in [Users -> Nat] /\ timer \in [Users -> BOOLEAN]
  /\ state \in [Users -> UserStates] /\ prio \in [Users -> Nat]
  /\ reply \in [Users -> {"none", "ok", "error"}]
  /\ tpc \in TimerStates /\ expired \in Users \cup {NONE}
  /\ gpc \in {"run", "receive", "delay"} /\ kind \in Nat
  /\ start_ticks \in Nat /\ release_times \in [1 .. Periodic -> Int]
  /\ created \in BOOLEAN /\ generator_q \in 0 .. GeneratorQueue

(***************************************************************************)
(* After main_task: the scheduler waits for its first request, the         *)
(* generator is about to run, the monitor's timer, if any, is due.  The    *)
(* generator's release_times are never initialised, so each may make its   *)
(* task due at once or at any time up to a full period later.              *)
(***************************************************************************)
InitialReleases ==
  {r \in [1 .. Periodic -> UNION {-(Period[i] + 1) .. 0 : i \in 1 .. Periodic}] :
     \A i \in 1 .. Periodic : r[i] >= -(Period[i] + 1)}

Init ==
  /\ now = 0 /\ halted = "no"
  /\ ready = <<G>> /\ tasks_m = NONE /\ waiters = {}
  /\ armed = (IF MonitorTimer THEN {MON} ELSE {}) /\ ticked = FALSE /\ monitorDue = 0
  /\ msg_q = <<>> /\ pool = FALSE
  /\ spc = "receive" /\ client = NONE /\ node = NONE
  /\ result = "ok" /\ priority = 0
  /\ active_tasks = <<>> /\ overdue_tasks = <<>>
  /\ nodes = {} /\ deadline = [u \in Users |-> 0]
  /\ timer = [u \in Users |-> FALSE]
  /\ state = [u \in Users |-> "free"] /\ prio = [u \in Users |-> 0]
  /\ reply = [u \in Users |-> "none"]
  /\ tpc = "wait" /\ expired = NONE
  /\ gpc = "run" /\ kind = 0 /\ start_ticks = 0
  /\ release_times \in InitialReleases
  /\ created = FALSE /\ generator_q = 0

-----------------------------------------------------------------------------
(***************************************************************************)
(* The kernel: who runs, the mutex, and the ready queue of priority 1.     *)
(***************************************************************************)

(* Variant: the timer component lets others in while a callback prints.    *)
TimerEntriesHeld_NotWhilePrinting ==
  tpc \notin {"wait", "posted", "print_overdue"}

(* T is inside its loop over expired entries, TIMER_ENTRIES_LWSEM held.    *)
TimerEntriesHeld == tpc \notin {"wait", "posted"}

SchedulerReady ==
  /\ S \notin waiters
  /\ spc = "receive" => msg_q # <<>>
  /\ spc \in {"start_timer", "cancel_timer"} => ~TimerEntriesHeld

UserReady(u) == state[u] \in {"running", "returned", "aborted"}

(* Strict priorities, first come first served within priority 1; the       *)
(* choice between user tasks of equal priority is left open.               *)
Runs(t) ==
  /\ halted = "no"
  /\ \/ t = S /\ SchedulerReady
     \/ t \in {T, G} /\ ~SchedulerReady /\ ready # <<>> /\ t = Head(ready)
     \/ /\ t \in Users /\ ~SchedulerReady /\ ready = <<>> /\ UserReady(t)
        /\ \A u \in Users : UserReady(u) => prio[t] <= prio[u]

(* Everything priority 1 and above is waiting for an interrupt or each     *)
(* other, and no output is pending.                                        *)
Settled ==
  ~SchedulerReady /\ ready = <<>>
  /\ tpc \notin {"print_overdue", "print_tasks", "print_stats"}

(* Variants: a lock that excludes nobody; one that the scheduler, having   *)
(* left it locked in delete_task, cannot pass again.                       *)
MayLock_NoExclusion(t) == t \in {S, T}
MayLock_NotByOwner(t) ==
  /\ tasks_m \in {NONE, t}
  /\ spc = "update_overdue" => tasks_m # S

(* _mutex_lock returns at once to a task that finds tasks_m free, and also *)
(* (with MQX_EDEADLK, which the assertions around it accept) to its owner. *)
MayLock(t) == tasks_m \in {NONE, t}

(* Variant: an unlock frees tasks_m whether or not somebody waits for it.  *)
UnlockTasks_NotHandedOver == tasks_m' = NONE /\ UNCHANGED waiters

(* _mutex_unlock hands tasks_m to the task that waits for it.              *)
UnlockTasks ==
  IF waiters = {} THEN tasks_m' = NONE /\ UNCHANGED waiters
  ELSE /\ tasks_m' \in waiters
       /\ waiters' = waiters \ {tasks_m'}

(* The priority-1 task that an unlock by the scheduler readies.            *)
UnlockReadies == IF T \in waiters THEN <<T>> ELSE <<>>

-----------------------------------------------------------------------------
(***************************************************************************)
(* Scheduler_task.                                                         *)
(***************************************************************************)
Receive(c) ==
  /\ Runs(S) /\ spc = "receive" /\ Head(msg_q) = c
  /\ msg_q' = Tail(msg_q)

(* The response is in the client's own queue; dd_tcreate's and the         *)
(* monitor's receives become ready at the end of their priority's queue.   *)
Respond(clients) == ready' = ready \o clients

(* sched_task_list and sched_overdue_task_list hand out a head pointer.    *)
ServeTaskList ==
  /\ Receive(T) /\ Respond(<<T>>)
  /\ UNCHANGED <<now, halted, tasks_m, waiters, armed, ticked, monitorDue,
                 pool, scheduler, lists, table, timerTask, generator>>

(* A free identity stands for heap room for one more task, its node and    *)
(* its timer entry.                                                        *)
FreeTasks == {u \in Users : state[u] = "free" /\ u \notin nodes}

(* sched_create_task, to the call that starts the deadline's timer: that   *)
(* call waits for TIMER_ENTRIES_LWSEM, with the new task already ready.    *)
CreateTask(u) ==
  /\ Receive(G) /\ u \in FreeTasks
  /\ state' = [state EXCEPT ![u] = "running"]
  /\ prio' = [prio EXCEPT ![u] = TemplatePriority[kind]]
  /\ nodes' = nodes \cup {u}
  /\ deadline' = [deadline EXCEPT ![u] = now + Deadline[kind]]
  /\ client' = G /\ node' = u /\ spc' = "start_timer"
  /\ UNCHANGED <<now, halted, ready, tasks_m, waiters, armed, ticked,
                 monitorDue, pool, result, priority, lists, timer, reply,
                 timerTask, generator>>

CreateFails ==
  /\ Receive(G) /\ FreeTasks = {}
  /\ Respond(<<G>>) /\ created' = FALSE
  /\ UNCHANGED <<now, halted, tasks_m, waiters, armed, ticked, monitorDue,
                 pool, scheduler, lists, table, timerTask, gpc, kind,
                 start_ticks, release_times, generator_q>>

(* The last task the heap has room for may leave none for its timer entry, *)
(* which is allocated before the timer component is waited for: the node   *)
(* is freed and NULL answered, and the task stays, ready and on no list.   *)
CreateWithoutTimer(u) ==
  /\ Receive(G) /\ FreeTasks = {u}
  /\ state' = [state EXCEPT ![u] = "running"]
  /\ prio' = [prio EXCEPT ![u] = TemplatePriority[kind]]
  /\ Respond(<<G>>) /\ created' = FALSE
  /\ UNCHANGED <<now, halted, tasks_m, waiters, armed, ticked, monitorDue,
                 pool, scheduler, lists, nodes, deadline, timer, reply,
                 timerTask, gpc, kind, start_ticks, release_times, generator_q>>

StartTimer ==
  /\ Runs(S) /\ spc = "start_timer"
  /\ armed' = armed \cup {node}
  /\ timer' = [timer EXCEPT ![node] = TRUE]
  /\ spc' = "add_task"
  /\ UNCHANGED <<now, halted, ready, tasks_m, waiters, ticked, monitorDue,
                 msg_q, pool, client, node, result, priority, lists, nodes,
                 deadline, state, prio, reply, timerTask, generator>>

(* _mutex_lock puts the scheduler to sleep while another task owns tasks_m.*)
SchedulerWaits ==
  /\ Runs(S) /\ ~MayLock(S)
  /\ spc \in {"add_task", "delete_active", "delete_overdue",
              "update_overdue", "update_active"}
  /\ waiters' = waiters \cup {S}
  /\ UNCHANGED <<now, halted, ready, tasks_m, armed, ticked, monitorDue,
                 msg_q, pool, scheduler, lists, table, timerTask, generator>>

AddActive ==
  /\ Runs(S) /\ spc = "add_task" /\ MayLock(S)
  /\ active_tasks' = AddTask(active_tasks, node, deadline)
  /\ UnlockTasks /\ Respond(UnlockReadies)
  /\ spc' = "update_overdue"
  /\ UNCHANGED <<now, halted, armed, ticked, monitorDue, msg_q, pool, client,
                 node, result, priority, overdue_tasks, table, timerTask,
                 generator>>

ReceiveDelete(u) ==
  /\ Receive(u)
  /\ client' = u /\ spc' = "delete_active"
  /\ UNCHANGED <<now, halted, ready, tasks_m, waiters, armed, ticked,
                 monitorDue, pool, node, result, priority, lists, table,
                 timerTask, generator>>

(* Variant: the _mem_free is missing.                                      *)
FreeNode_Missing(u) ==
  /\ deadline' = [deadline EXCEPT ![u] = 0]
  /\ timer' = [timer EXCEPT ![u] = FALSE]
  /\ UNCHANGED nodes

FreeNode(u) ==
  /\ nodes' = nodes \ {u}
  /\ deadline' = [deadline EXCEPT ![u] = 0]
  /\ timer' = [timer EXCEPT ![u] = FALSE]

(* Variant: the timer of a deleted task is not cancelled.                  *)
CancelOrFree_NoCancel(u) == node' = u /\ spc' = "update_overdue" /\ FreeNode(u)

(* What follows a successful delete_task: cancel the timer if there is     *)
(* one, else free the node.                                                *)
CancelOrFree(u) ==
  /\ node' = u
  /\ IF timer[u]
       THEN spc' = "cancel_timer" /\ UNCHANGED <<nodes, deadline, timer>>
       ELSE spc' = "update_overdue" /\ FreeNode(u)

(***************************************************************************)
(* How delete_task leaves tasks_m.  It unlocks only when it walked a list  *)
(* and found nothing: an empty list returns without unlocking, and the     *)
(* success path ends in a second _mutex_lock.                              *)
(***************************************************************************)
LeaveDelete(list) ==
  IF list = <<>> \/ client \in Tasks(list)
    THEN tasks_m' = S /\ UNCHANGED <<waiters, ready>>
    ELSE UnlockTasks /\ Respond(UnlockReadies)

(* "result" is not initialised when the task is found in the active list   *)
(* and has no timer to cancel.                                             *)
DeleteActive ==
  /\ Runs(S) /\ spc = "delete_active" /\ MayLock(S)
  /\ LeaveDelete(active_tasks)
  /\ IF client \in Tasks(active_tasks)
       THEN /\ active_tasks' = DeleteTask(active_tasks, client)
            /\ CancelOrFree(client)
            /\ result' \in IF timer[client] THEN {result} ELSE {"ok", "error"}
       ELSE /\ result' = "error" /\ spc' = "delete_overdue"
            /\ UNCHANGED <<active_tasks, node, nodes, deadline, timer>>
  /\ UNCHANGED <<now, halted, armed, ticked, monitorDue, msg_q, pool, client,
                 priority, overdue_tasks, state, prio, reply, timerTask,
                 generator>>

(* A handler returns to the receive; its local variables die.              *)
EndRequest ==
  /\ spc' = "receive" /\ client' = NONE /\ node' = NONE
  /\ result' = "ok" /\ priority' = 0

(* The early returns of sched_delete_task: an error, and no _task_abort.   *)
RefuseDelete ==
  /\ reply' = [reply EXCEPT ![client] = "error"]
  /\ state' = [state EXCEPT ![client] = "returned"]
  /\ EndRequest

DeleteOverdue ==
  /\ Runs(S) /\ spc = "delete_overdue" /\ MayLock(S)
  /\ LeaveDelete(overdue_tasks)
  /\ IF client \in Tasks(overdue_tasks)
       THEN /\ overdue_tasks' = DeleteTask(overdue_tasks, client)
            /\ CancelOrFree(client)
            /\ UNCHANGED <<client, result, priority, state, reply>>
       ELSE /\ RefuseDelete
            /\ UNCHANGED <<overdue_tasks, nodes, deadline, timer>>
  /\ UNCHANGED <<now, halted, armed, ticked, monitorDue, msg_q, pool,
                 active_tasks, prio, timerTask, generator>>

(* _timer_cancel: fails when the entry has already left the timer queue.   *)
CancelTimer ==
  /\ Runs(S) /\ spc = "cancel_timer"
  /\ IF node \in armed
       THEN /\ armed' = armed \ {node}
            /\ result' = "ok" /\ spc' = "update_overdue" /\ FreeNode(node)
            /\ UNCHANGED <<client, node, priority, state, reply>>
       ELSE /\ RefuseDelete
            /\ UNCHANGED <<armed, nodes, deadline, timer>>
  /\ UNCHANGED <<now, halted, ready, tasks_m, waiters, ticked, monitorDue,
                 msg_q, pool, lists, prio, timerTask, generator>>

(* Variant: update_priorities returns for an empty list as delete_task     *)
(* does, without unlocking.                                                *)
UpdateList_EmptyKeepsLock(list, start) ==
  /\ prio' = UpdatedPriorities(prio, list, start, LowestPriority)
  /\ UNCHANGED halted
  /\ IF list = <<>> THEN tasks_m' = S /\ UNCHANGED waiters ELSE UnlockTasks

(* update_priorities returns 0, which the caller asserts it does not, when *)
(* _task_set_priority fails on a node whose task no longer exists.         *)
UpdateList(list, start) ==
  /\ IF \/ \E u \in Tasks(list) : state[u] = "free"
        \/ LastPriority(list, start, LowestPriority) = 0
       THEN halted' = "priority assert" /\ UNCHANGED prio
       ELSE /\ prio' = UpdatedPriorities(prio, list, start, LowestPriority)
            /\ UNCHANGED halted
  /\ UnlockTasks

UpdateOverdue ==
  /\ Runs(S) /\ spc = "update_overdue" /\ MayLock(S)
  /\ UpdateList(overdue_tasks, GeneratorPriority)
  /\ priority' = LastPriority(overdue_tasks, GeneratorPriority, LowestPriority)
  /\ Respond(UnlockReadies)
  /\ spc' = "update_active"
  /\ UNCHANGED <<now, armed, ticked, monitorDue, msg_q, pool, client, node,
                 result, lists, nodes, deadline, timer, state, reply,
                 timerTask, generator>>

(* The second update, the response, and for a deletion _task_abort, which  *)
(* readies the task at its exit handler.                                   *)
UpdateActive ==
  /\ Runs(S) /\ spc = "update_active" /\ MayLock(S)
  /\ UpdateList(active_tasks, priority)
  /\ \/ /\ client = G /\ created' = TRUE
        /\ Respond(UnlockReadies \o <<G>>)
        /\ UNCHANGED <<state, reply>>
     \/ /\ client \in Users
        /\ reply' = [reply EXCEPT ![client] = result]
        /\ state' = [state EXCEPT ![client] = "aborted"]
        /\ Respond(UnlockReadies) /\ UNCHANGED created
  /\ EndRequest
  /\ UNCHANGED <<now, armed, ticked, monitorDue, msg_q, pool, lists,
                 nodes, deadline, timer, timerTask, gpc, kind, start_ticks,
                 release_times, generator_q>>

SchedulerStep ==
  \/ ServeTaskList \/ CreateFails \/ StartTimer \/ SchedulerWaits
  \/ AddActive \/ DeleteActive \/ DeleteOverdue \/ CancelTimer
  \/ UpdateOverdue \/ UpdateActive
  \/ \E u \in Users :
       CreateTask(u) \/ CreateWithoutTimer(u) \/ ReceiveDelete(u)

-----------------------------------------------------------------------------
(***************************************************************************)
(* The timer task: _timer_task and the two callbacks.                      *)
(***************************************************************************)
Expiration(e) == IF e = MON THEN monitorDue ELSE deadline[e]

(* Variants: an entry fires a tick late; every entry counts as expired.    *)
Expired_Late == {e \in armed : Expiration(e) < now}
Expired_Always == armed

Expired == {e \in armed : Expiration(e) <= now}

(* The head of the sorted queue; which of two equal ones is left open.     *)
Earliest(e) == \A f \in armed : Expiration(e) <= Expiration(f)

(* Output either fits the serial buffer or blocks the timer task until     *)
(* the buffer drains (SerialDrained).                                      *)
PrintThen(blocked, next) ==
  \/ tpc' = next /\ UNCHANGED ready
  \/ PrintBlocks /\ tpc' = blocked /\ ready' = Tail(ready)

Fires(e) ==
  /\ Runs(T) /\ tpc \in {"wait", "fire"}
  /\ e \in Expired /\ Earliest(e)
  /\ armed' = armed \ {e}

(* deadline_overdue begins: its debug output.                              *)
FireDeadline(u) ==
  /\ Fires(u) /\ expired' = u
  /\ PrintThen("print_overdue", "move_overdue")
  /\ UNCHANGED <<now, halted, tasks_m, waiters, ticked, monitorDue, msg_q,
                 pool, scheduler, lists, table, generator>>

(* update_monitor begins: the lock must not already be the timer task's.   *)
FireMonitor ==
  /\ Fires(MON) /\ tpc' = "lock_monitor"
  /\ IF tasks_m = T THEN halted' = "monitor assert" ELSE UNCHANGED halted
  /\ UNCHANGED <<now, ready, tasks_m, waiters, ticked, monitorDue, msg_q,
                 pool, scheduler, lists, table, expired, generator>>

(* Nothing (more) has expired: TIMER_ENTRIES_LWSEM is posted, then the     *)
(* task waits for the next post of TIMER_ISR_LWSEM.                        *)
PostEntries ==
  /\ Runs(T) /\ tpc \in {"wait", "fire"} /\ Expired = {}
  /\ tpc' = "posted"
  /\ UNCHANGED <<now, halted, kernel, scheduler, lists, table, expired,
                 generator>>

WaitForTick ==
  /\ Runs(T) /\ tpc = "posted"
  /\ tpc' = "wait" /\ ticked' = FALSE
  /\ ready' = IF ticked THEN ready ELSE Tail(ready)
  /\ UNCHANGED <<now, halted, tasks_m, waiters, armed, monitorDue, msg_q,
                 pool, scheduler, lists, table, expired, generator>>

(* Variant: the overdue task's timer field keeps the fired timer's id.     *)
TimerFieldCleared_Not == UNCHANGED timer

(* The node's timer field is cleared before delete_task takes the lock.    *)
TimerFieldCleared ==
  timer' = IF tpc = "move_overdue" THEN [timer EXCEPT ![expired] = FALSE]
                                   ELSE timer

TimerTaskWaits ==
  /\ Runs(T) /\ ~MayLock(T)
  /\ tpc \in {"move_overdue", "lock_monitor"}
  /\ waiters' = waiters \cup {T} /\ ready' = Tail(ready)
  /\ TimerFieldCleared
  /\ UNCHANGED <<now, halted, tasks_m, armed, ticked, monitorDue, msg_q, pool,
                 scheduler, lists, nodes, deadline, state, prio, reply,
                 timerTask, generator>>

(***************************************************************************)
(* The rest of deadline_overdue: delete_task keeps the lock, add_task      *)
(* takes it again and releases it.  Were the task not in the active list,  *)
(* add_task would be called with NULL.                                     *)
(***************************************************************************)
MoveOverdue ==
  /\ Runs(T) /\ tpc = "move_overdue" /\ MayLock(T)
  /\ TimerFieldCleared
  /\ tpc' = "fire" /\ expired' = NONE
  /\ IF expired \in Tasks(active_tasks)
       THEN /\ active_tasks' = DeleteTask(active_tasks, expired)
            /\ overdue_tasks' = AddTask(overdue_tasks, expired, deadline)
            /\ UnlockTasks /\ UNCHANGED halted
       ELSE halted' = "null insert" /\ UNCHANGED <<lists, tasks_m, waiters>>
  /\ UNCHANGED <<now, ready, armed, ticked, monitorDue, msg_q, pool,
                 scheduler, nodes, deadline, state, prio, reply, generator>>

(* dd_active_list and dd_overdue_list, tasks_m held: a request, a wait.    *)
Ask ==
  /\ msg_q' = Append(msg_q, T) /\ ready' = Tail(ready)

LockMonitor ==
  /\ Runs(T) /\ tpc = "lock_monitor" /\ MayLock(T)
  /\ tasks_m' = T /\ pool' = TRUE
  /\ Ask /\ tpc' = "ask_active"
  /\ UNCHANGED <<now, halted, waiters, armed, ticked, monitorDue, scheduler,
                 lists, table, expired, generator>>

AskOverdue ==
  /\ Runs(T) /\ tpc = "ask_active"
  /\ Ask /\ tpc' = "ask_overdue"
  /\ UNCHANGED <<now, halted, tasks_m, waiters, armed, ticked, monitorDue,
                 pool, scheduler, lists, table, expired, generator>>

PrintTasks ==
  /\ Runs(T) /\ tpc = "ask_overdue"
  /\ PrintThen("print_tasks", "unlock_monitor")
  /\ UNCHANGED <<now, halted, tasks_m, waiters, armed, ticked, monitorDue,
                 msg_q, pool, scheduler, lists, table, expired, generator>>

(* Preemption is off from here to the end of the statistics, which nothing *)
(* but the output in them can observe.                                     *)
UnlockMonitor ==
  /\ Runs(T) /\ tpc = "unlock_monitor"
  /\ UnlockTasks
  /\ PrintThen("print_stats", "rearm_monitor")
  /\ UNCHANGED <<now, halted, armed, ticked, monitorDue, msg_q, pool,
                 scheduler, lists, table, expired, generator>>

(* _timer_task re-inserts a periodic entry one cycle after its expiration. *)
RearmMonitor ==
  /\ Runs(T) /\ tpc = "rearm_monitor"
  /\ armed' = armed \cup {MON} /\ monitorDue' = monitorDue + MonitorPeriod
  /\ tpc' = "fire"
  /\ UNCHANGED <<now, halted, ready, tasks_m, waiters, ticked, msg_q, pool,
                 scheduler, lists, table, expired, generator>>

TimerStep ==
  \/ FireMonitor \/ PostEntries \/ WaitForTick \/ TimerTaskWaits
  \/ MoveOverdue \/ LockMonitor \/ AskOverdue \/ PrintTasks
  \/ UnlockMonitor \/ RearmMonitor
  \/ \E u \in Users : FireDeadline(u)

-----------------------------------------------------------------------------
(***************************************************************************)
(* Generator_task.  Preemption is off until its delay, so sending a        *)
(* request and blocking for the answer is one step.                        *)
(***************************************************************************)
RequestTask(k) ==
  /\ msg_q' = Append(msg_q, G) /\ pool' = TRUE
  /\ kind' = k /\ gpc' = "receive" /\ ready' = Tail(ready)

PollPresses ==
  /\ Runs(G) /\ gpc = "run" /\ kind = 0
  /\ IF generator_q > 0
       THEN /\ generator_q' = generator_q - 1
            /\ RequestTask(0) /\ UNCHANGED start_ticks
       ELSE /\ start_ticks' = now /\ kind' = 1
            /\ UNCHANGED <<ready, msg_q, pool, gpc, generator_q>>
  /\ UNCHANGED <<now, halted, tasks_m, waiters, armed, ticked, monitorDue,
                 scheduler, lists, table, timerTask, release_times, created>>

(* Variant: the period and one tick more.                                  *)
DueTasks_Late ==
  {i \in kind .. Periodic : start_ticks - release_times[i] > Period[i] + 1}

(* The periodic tasks from this index on whose period has elapsed.         *)
DueTasks ==
  {i \in kind .. Periodic : start_ticks - release_times[i] > Period[i]}

ReleaseTask(i) ==
  /\ Runs(G) /\ gpc = "run" /\ kind > 0
  /\ i \in DueTasks /\ \A j \in DueTasks : i <= j
  /\ release_times' = [release_times EXCEPT ![i] = now]
  /\ RequestTask(i)
  /\ UNCHANGED <<now, halted, tasks_m, waiters, armed, ticked, monitorDue,
                 scheduler, lists, table, timerTask, start_ticks, created,
                 generator_q>>

(* Variant: the queue is polled once, before the generator's loop.         *)
DelayGenerator_PollsOnce ==
  /\ Runs(G) /\ gpc = "run" /\ kind > 0 /\ DueTasks = {}
  /\ gpc' = "delay" /\ kind' = 1 /\ start_ticks' = now
  /\ ready' = Tail(ready)
  /\ UNCHANGED <<now, halted, tasks_m, waiters, armed, ticked, monitorDue,
                 msg_q, pool, scheduler, lists, table, timerTask,
                 release_times, created, generator_q>>

DelayGenerator ==
  /\ Runs(G) /\ gpc = "run" /\ kind > 0 /\ DueTasks = {}
  /\ gpc' = "delay" /\ kind' = 0 /\ start_ticks' = 0
  /\ ready' = Tail(ready)
  /\ UNCHANGED <<now, halted, tasks_m, waiters, armed, ticked, monitorDue,
                 msg_q, pool, scheduler, lists, table, timerTask,
                 release_times, created, generator_q>>

(* dd_tcreate returns; the generator asserts that a task was created.      *)
ReleaseDone ==
  /\ Runs(G) /\ gpc = "receive"
  /\ IF created THEN UNCHANGED halted ELSE halted' = "generator assert"
  /\ gpc' = "run" /\ kind' = kind + 1 /\ created' = FALSE
  /\ start_ticks' = IF kind = 0 THEN now ELSE start_ticks
  /\ UNCHANGED <<now, kernel, scheduler, lists, table, timerTask,
                 release_times, generator_q>>

GeneratorStep ==
  \/ PollPresses \/ DelayGenerator \/ ReleaseDone
  \/ \E i \in 1 .. Periodic : ReleaseTask(i)

-----------------------------------------------------------------------------
(***************************************************************************)
(* The scheduled tasks: PeriodicTask_task and Aperiodic_task work for      *)
(* some time and end with dd_delete(self).                                 *)
(***************************************************************************)
FinishTask(u) ==
  /\ Runs(u) /\ state[u] = "running"
  /\ state' = [state EXCEPT ![u] = "receiving"]
  /\ msg_q' = Append(msg_q, u)
  /\ UNCHANGED <<now, halted, ready, tasks_m, waiters, armed, ticked,
                 monitorDue, pool, scheduler, lists, nodes, deadline, timer,
                 prio, reply, timerTask, generator>>

(* An aborted task ends in the kernel's exit handler when it next runs; a  *)
(* task that dd_delete returned to first asserts MQX_OK.  The destruction  *)
(* is one step here; Teardown shows what an interrupt inside it can do.    *)
EndTask(u) ==
  /\ Runs(u) /\ state[u] \in {"aborted", "returned"}
  /\ IF state[u] = "returned" /\ reply[u] = "error"
       THEN halted' = "user assert" ELSE UNCHANGED halted
  /\ state' = [state EXCEPT ![u] = "free"]
  /\ prio' = [prio EXCEPT ![u] = 0]
  /\ reply' = [reply EXCEPT ![u] = "none"]
  /\ UNCHANGED <<now, kernel, scheduler, lists, nodes, deadline, timer,
                 timerTask, generator>>

UserStep(u) == FinishTask(u) \/ EndTask(u)

-----------------------------------------------------------------------------
(***************************************************************************)
(* Interrupts.                                                             *)
(***************************************************************************)

(* _time_notify_kernel: the generator's delay ends, then _timer_isr posts  *)
(* for an expired entry, unless the timer task is ready.                   *)
Tick ==
  LET woken == IF gpc = "delay" THEN <<G>> ELSE <<>>
      posts == /\ \A i \in DOMAIN ready : ready[i] # T
               /\ \E e \in armed : Expiration(e) <= now + 1
  IN /\ halted = "no" /\ now < MaxTicks
     /\ SlowTicks \/ Settled
     /\ now' = now + 1
     /\ gpc' = IF gpc = "delay" THEN "run" ELSE gpc
     /\ IF posts /\ tpc = "wait"
          THEN ready' = ready \o woken \o <<T>> /\ UNCHANGED ticked
          ELSE /\ ready' = ready \o woken
               /\ ticked' = (ticked \/ posts)
     /\ UNCHANGED <<halted, tasks_m, waiters, armed, monitorDue, msg_q, pool,
                    scheduler, lists, table, timerTask, kind, start_ticks,
                    release_times, created, generator_q>>

(* The serial interrupt drains the buffer and readies the timer task.      *)
SerialDrained ==
  /\ halted = "no"
  /\ \/ tpc = "print_overdue" /\ tpc' = "move_overdue"
     \/ tpc = "print_tasks" /\ tpc' = "unlock_monitor"
     \/ tpc = "print_stats" /\ tpc' = "rearm_monitor"
  /\ ready' = Append(ready, T)
  /\ UNCHANGED <<now, halted, tasks_m, waiters, armed, ticked, monitorDue,
                 msg_q, pool, scheduler, lists, table, expired, generator>>

(* Variant: the generator's queue is opened without a limit.               *)
QueueHasRoom_Unlimited == TRUE

(* _msgq_send to the generator's queue drops a message that does not fit.  *)
QueueHasRoom == generator_q < GeneratorQueue

(* gpio1_PORTB_IRQHandler: a message for the generator, from the pool the  *)
(* first dd_ request creates.                                              *)
ButtonPress ==
  /\ halted = "no" /\ QueueHasRoom
  /\ IF pool THEN generator_q' = generator_q + 1 /\ UNCHANGED halted
             ELSE halted' = "button assert" /\ UNCHANGED generator_q
  /\ UNCHANGED <<now, kernel, scheduler, lists, table, timerTask, gpc, kind,
                 start_ticks, release_times, created>>

Next ==
  \/ SchedulerStep \/ TimerStep \/ GeneratorStep
  \/ \E u \in Users : UserStep(u)
  \/ Tick \/ SerialDrained \/ ButtonPress

Spec == Init /\ [][Next]_vars

(***************************************************************************)
(* The kernel always runs the task that Runs names, so a task that stays   *)
(* the one to run takes its step; a busy task's work is finite; the serial *)
(* line drains; ticks keep coming (up to MaxTicks).  Button presses are    *)
(* not promised.                                                           *)
(***************************************************************************)
Fairness ==
  /\ WF_vars(SchedulerStep) /\ WF_vars(TimerStep) /\ WF_vars(GeneratorStep)
  /\ WF_vars(\E u \in Users : UserStep(u))
  /\ WF_vars(SerialDrained) /\ WF_vars(Tick)

FairSpec == Spec /\ Fairness

-----------------------------------------------------------------------------
(***************************************************************************)
(* Safety.                                                                 *)
(***************************************************************************)
Listed == Tasks(active_tasks) \cup Tasks(overdue_tasks)

(* Of all the assertions in these paths only two can ever fail: the        *)
(* generator's (out of room for tasks) and the button handler's (no pool   *)
(* yet).  A finished task never comes back from dd_delete to its own       *)
(* assertion, update_priorities never meets a task that is gone, the       *)
(* monitor never finds tasks_m already its own, and deadline_overdue never *)
(* passes add_task a NULL node.                                            *)
NoOtherAssertFails ==
  halted \in {"no", "generator assert", "button assert"}

(* Although delete_task leaves tasks_m locked on two of its paths, every   *)
(* request that reaches the end of its handler has unlocked it, and the    *)
(* timer task owns it only inside update_monitor.                          *)
LockNotLeaked ==
  /\ tasks_m = S => spc # "receive"
  /\ tasks_m = T => tpc \in {"lock_monitor", "ask_active", "ask_overdue",
                             "print_tasks", "unlock_monitor"}

(* deadline_overdue works on a list node through a raw pointer: while its  *)
(* output blocks, sched_delete_task may not have freed that node.          *)
CallbackNodeAlive == expired # NONE => expired \in nodes

(* Nobody waits for what will not come.  The generator is ready, delayed,  *)
(* or its request is queued or being served.                               *)
GeneratorAwaited ==
  /\ gpc = "run" => G \in Tasks(ready)
  /\ gpc = "receive" => G \in Tasks(ready) \cup Tasks(msg_q) \cup {client}

(* The timer task is ready, waits for tasks_m, has its question queued, or *)
(* waits for a tick or the serial line; and it does not wait for a tick    *)
(* whose post of TIMER_ISR_LWSEM has already come.                         *)
TimerTaskAwaited ==
  /\ tpc \in {"ask_active", "ask_overdue"} => T \in Tasks(ready) \cup Tasks(msg_q)
  /\ tpc \in {"fire", "posted", "move_overdue", "lock_monitor", "unlock_monitor",
              "rearm_monitor"} => T \in Tasks(ready) \cup waiters
  /\ tpc = "wait" => ~ticked

(* No wake-up is lost, although the kernel readies a task in one place, a  *)
(* post finds the timer task waiting in another, and tasks_m is left       *)
(* locked and handed over by either task: whoever waits is known to        *)
(* whoever will wake it; a task in dd_delete has its request queued or     *)
(* served, and somebody owns tasks_m while others wait for it.             *)
NoLostWakeup ==
  /\ GeneratorAwaited /\ TimerTaskAwaited
  /\ \A u \in Users : state[u] = "receiving" => u \in Tasks(msg_q) \cup {client}
  /\ waiters # {} => tasks_m # NONE

(* When nothing of priority 1 and above can go on and no output is         *)
(* pending, the tick's work is done; or it is one of two deadlocks: the    *)
(* scheduler cancels a timer with tasks_m locked and a callback waits for  *)
(* tasks_m, or the scheduler starts a timer and update_monitor waits for   *)
(* its answer.  There is no third, but for the one that takes a task       *)
(* interrupted in its destruction (see Teardown).                          *)
OnlyTwoDeadlocks ==
  Settled =>
    \/ spc = "receive" /\ msg_q = <<>> /\ tpc = "wait" /\ gpc = "delay"
    \/ spc = "cancel_timer" /\ tasks_m = S /\ T \in waiters
    \/ spc = "start_timer" /\ tasks_m = T /\ T \in Tasks(msg_q)

(* A deadline timer is pending exactly for the tasks of the active list,   *)
(* but for the one whose creation, deletion or callback is under way, and  *)
(* the timer field says so; an overdue task has none.                      *)
TimersMatchLists ==
  /\ \A u \in armed \ {MON} :
       /\ timer[u]
       /\ \/ u \in Tasks(active_tasks)
          \/ node = u /\ spc \in {"add_task", "cancel_timer"}
  /\ \A u \in Tasks(active_tasks) : u \in armed \/ u = expired
  /\ \A u \in Tasks(overdue_tasks) : ~timer[u] /\ u \notin armed

(* Both lists are sorted, hold no task twice and share none, although      *)
(* three tasks change them at points where others may be half way.         *)
ListsWellFormed ==
  /\ \A list \in {active_tasks, overdue_tasks} :
       SortedByDeadline(list, deadline) /\ NoDuplicates(list)
  /\ Tasks(active_tasks) \cap Tasks(overdue_tasks) = {}

(* The nodes on the lists are allocated, and every allocated node is on a  *)
(* list or in the hands of the handler: none is freed while linked, and no *)
(* early return loses one.                                                 *)
NoNodeLost == Listed \subseteq nodes /\ nodes \subseteq Listed \cup {node}

(* Between requests the active tasks' priorities strictly descend in       *)
(* deadline order until they reach the lowest, although deadline_overdue   *)
(* changes the list without calling update_priorities.                     *)
PrioritiesFollowList ==
  spc = "receive" =>
    \A i, j \in DOMAIN active_tasks :
      i < j => \/ prio[active_tasks[i]] < prio[active_tasks[j]]
               \/ prio[active_tasks[j]] = LowestPriority

(* Between requests, with the timer task out of its callbacks, an overdue  *)
(* task runs before every task that still has time.                        *)
OverdueFirst ==
  spc = "receive" /\ ~TimerEntriesHeld =>
    \A u \in Tasks(overdue_tasks), v \in Tasks(active_tasks) :
      prio[u] <= prio[v]

(* What the scheduler is for: when a user task has the processor and time  *)
(* is left in the tick, no other unfinished task has an earlier deadline,  *)
(* as long as there are priorities enough to tell them apart.              *)
EarliestDeadlineRuns ==
  \A u, v \in Users :
    /\ Runs(u) /\ state[u] = "running" /\ state[v] = "running"
    /\ prio[u] < LowestPriority
    => deadline[u] <= deadline[v]

(* When a tick's work is done no task past its deadline is still in the    *)
(* active list: no expiration is lost between the timer interrupt and the  *)
(* timer task's loop.                                                      *)
NoMissedDeadlineActive ==
  Settled => \A u \in Tasks(active_tasks) : now < deadline[u]

(* When each tick's work is done before the next, neither tasks_m nor the  *)
(* timer component ever keeps the scheduler from its request: it has       *)
(* served all there is before the timer task enters its loop.              *)
NeverHeldUp == spc # "receive" => SchedulerReady

(* The generator's loop keeps its periods to the tick: its test is a       *)
(* strict one, it looks once a tick, and what it asks the scheduler for in *)
(* between takes no time from the next period, so when a tick's work is    *)
(* done no periodic task's last release is more than its period ago.       *)
ReleasedInTime ==
  Settled => \A i \in 1 .. Periodic : now - release_times[i] <= Period[i]

(* update_monitor walks the lists by pointer while its output blocks: from *)
(* its lock to its unlock nobody changes them.                             *)
ListsStableForMonitor ==
  [][tasks_m = T /\ tpc # "lock_monitor" => UNCHANGED lists]_vars

-----------------------------------------------------------------------------
(***************************************************************************)
(* The scheduler keeps what TaskLifecycle promises of every task.          *)
(***************************************************************************)
Lifecycle == INSTANCE TaskLifecycle WITH
  active <- Tasks(active_tasks),
  overdue <- Tasks(overdue_tasks),
  due <- [u \in Users |-> IF u \in Listed THEN deadline[u] ELSE 0]

(* A task's deadline never changes while it is on a list, it moves to the  *)
(* overdue list only once its deadline has come, never moves back, and is  *)
(* off both lists only after dd_delete.                                    *)
ImplementsLifecycle == Lifecycle!Spec

-----------------------------------------------------------------------------
(***************************************************************************)
(* Liveness.                                                               *)
(***************************************************************************)
Stopped == halted # "no"

(* A task that calls dd_delete is taken off the lists and ended.           *)
DeleteServed ==
  \A u \in Users : state[u] = "receiving" ~> state[u] # "receiving" \/ Stopped

(* dd_tcreate returns to the generator, as long as no task is interrupted  *)
(* in its destruction (see Teardown).                                      *)
CreateServed == gpc = "receive" ~> gpc # "receive" \/ Stopped

(* A generator's queue that fills up while the generator sleeps, so that   *)
(* more presses get lost, has room again once a tick has woken it.         *)
PressesDrained ==
  gpc = "delay" /\ now < MaxTicks /\ generator_q = GeneratorQueue
    ~> generator_q < GeneratorQueue \/ Stopped

(* The monitor's callback gets tasks_m, its two answers, and ends, as long *)
(* as no task is interrupted in its destruction (see Teardown).            *)
MonitorServed == tpc = "lock_monitor" ~> tpc = "fire" \/ Stopped

-----------------------------------------------------------------------------
(***************************************************************************)
(* What comments and assertions in the code say and the code does not do.  *)
(***************************************************************************)

(* dd_scheduler.h on dd_delete's result: "Task ID of the deleted task or   *)
(* an error": a task that was deleted is not answered with an error.       *)
DeletedIsNoError == \A u \in Users : state[u] = "aborted" => reply[u] = "ok"

(* Events.c: assert(msg != NULL) in the button's interrupt handler.        *)
ButtonAssertHolds == halted # "button assert"
=============================================================================
