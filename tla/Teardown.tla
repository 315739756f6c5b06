------------------------------ MODULE Teardown ------------------------------
(***************************************************************************)
(* How a task dies.  DDScheduler ends an aborted task in one step.  The    *)
(* kernel takes several, in the context of the dying task, at that task's  *)
(* low priority and with two of its own locks:                             *)
(*                                                                         *)
(*   TASK_CREATE_LWSEM    held by a dying task through the clean-up of all *)
(*                        components; wanted by the scheduler whenever it  *)
(*                        creates a task or looks up the generator         *)
(*   TIMER_ENTRIES_LWSEM  held by the timer task through its callbacks;    *)
(*                        wanted by the scheduler for the deadline timers  *)
(*                        and by a dying task's timer clean-up             *)
(*   tasks_m              the mutex of the two lists                       *)
(*                                                                         *)
(* This module keeps the three locks with their owners and queues, and     *)
(* which task runs, and abstracts the rest: lists are sets, the moments    *)
(* at which deadlines pass are left open, and so is the order of the       *)
(* scheduled tasks' priorities.                                            *)
(***************************************************************************)
EXTENDS Naturals, Sequences, SequencesExt

CONSTANTS
  Users,         \* tasks the heap has room for
  S, T, G,       \* the scheduler, timer and generator tasks
  MON,           \* the periodic timer entry of update_monitor
  None,
  MonitorTimer,  \* did Monitor_task get its timer?
  Releases,      \* tasks the generator releases in one round at most
  PrintBlocks,   \* can output fill the serial buffer and block T?
  MaxTicks       \* bound on time

Actors == {S, T} \cup Users
Locks == {"TASK_CREATE_LWSEM", "TIMER_ENTRIES_LWSEM", "tasks_m"}

ASSUME TeardownAssumption ==
  /\ S # T /\ G \notin {S, T} /\ None \notin {S, T, G} /\ MON # None
  /\ {S, T, G, MON, None} \cap Users = {}
  /\ {Releases, MaxTicks} \subseteq Nat
  /\ {MonitorTimer, PrintBlocks} \subseteq BOOLEAN

VARIABLES
  ticks,
  lock,     \* for each lock its owner followed by the tasks that wait for it
  ready,    \* ready queue of priority 1: a sequence of T and G
  msg_q,    \* clients whose request is in the scheduler's queue
  spc,      \* what Scheduler_task does next, or the lock it is waiting for
  client,   \* whom it serves
  node,     \* the task it creates
  tpc,      \* the same for the timer task
  expired,  \* the task of the callback under way
  ticked,   \* TIMER_ISR_LWSEM was posted while T was not waiting on it
  armed,    \* timer entries that have not expired
  due,      \* entries that have expired and not fired
  gpc,      \* the same for Generator_task, whose assertion halts the system
  round,    \* tasks it has released in this round
  active, overdue,
  state     \* of each user task

scheduler == <<spc, client, node>>
timerTask == <<tpc, expired, ticked>>
entries == <<armed, due>>
generator == <<gpc, round>>
lists == <<active, overdue>>
vars == <<ticks, lock, ready, msg_q, scheduler, timerTask, entries,
          generator, lists, state>>

SchedulerStates ==
  {"receive", "create", "start_timer", "add_task", "delete_active",
   "delete_overdue", "cancel_timer", "find_generator", "update_overdue",
   "update_active"}
Printing == {"print_overdue", "print_tasks", "print_stats"}
Asking == {"ask_active", "ask_overdue"}
TimerStates == Printing \cup Asking \cup
  {"isr", "woken", "fire", "printed", "move_overdue", "lock_monitor",
   "has_active", "has_overdue", "unlock_monitor", "rearm_monitor", "second"}
GeneratorStates == {"run", "receive", "failed", "delay", "halted"}
UserStates == {"free", "running", "receiving", "aborted", "destroy",
               "cleanup", "unlink"}

TypeOK ==
  /\ ticks \in 0 .. MaxTicks
  /\ lock \in [Locks -> Seq(Actors)] /\ \A l \in Locks : IsInjective(lock[l])
  /\ ready \in Seq({T, G}) /\ msg_q \in Seq({T, G} \cup Users)
  /\ spc \in SchedulerStates /\ client \in {G, None} \cup Users
  /\ node \in Users \cup {None}
  /\ tpc \in TimerStates /\ expired \in Users \cup {None}
  /\ ticked \in BOOLEAN
  /\ armed \subseteq Users \cup {MON} /\ due \subseteq Users \cup {MON}
  /\ gpc \in GeneratorStates /\ round \in 0 .. Releases
  /\ active \subseteq Users /\ overdue \subseteq Users
  /\ state \in [Users -> UserStates]

Init ==
  /\ ticks = 0
  /\ lock = [l \in Locks |-> <<>>]
  /\ ready = <<G>> /\ msg_q = <<>>
  /\ spc = "receive" /\ client = None /\ node = None
  /\ tpc = "isr" /\ expired = None /\ ticked = FALSE
  /\ armed = (IF MonitorTimer THEN {MON} ELSE {}) /\ due = {}
  /\ gpc = "run" /\ round = 0
  /\ active = {} /\ overdue = {}
  /\ state = [u \in Users |-> "free"]

-----------------------------------------------------------------------------
(***************************************************************************)
(* Locks.  A lock that is given up goes to the first of its waiters, ready *)
(* or not to run.  An owner that asks again keeps it (only the scheduler   *)
(* does, of tasks_m).                                                      *)
(***************************************************************************)

(* Variant: the mutex makes its owner wait for itself.                     *)
Wait_BehindItself(locks, t, l) == [locks EXCEPT ![l] = Append(@, t)]

Wait(locks, t, l) ==
  IF Contains(locks[l], t) THEN locks
                           ELSE [locks EXCEPT ![l] = Append(@, t)]

Post(locks, l) == [locks EXCEPT ![l] = Tail(@)]

Owns(t, l) == lock[l] # <<>> /\ Head(lock[l]) = t

Waits(t, l) == lock[l] # <<>> /\ Contains(Tail(lock[l]), t)

Blocked(t) == \E l \in Locks : Waits(t, l)

(***************************************************************************)
(* Who runs: strict priorities, first come first served between T and G.   *)
(***************************************************************************)
SchedulerReady == ~Blocked(S) /\ (spc = "receive" => msg_q # <<>>)

Able(t) ==
  IF t = T THEN ~Blocked(T) /\ tpc \notin {"isr"} \cup Printing \cup Asking
           ELSE gpc \in {"run", "failed"}

UserReady(u) == ~Blocked(u) /\ state[u] \notin {"free", "receiving"}

Runs(t) ==
  /\ gpc # "halted"
  /\ \/ t = S /\ SchedulerReady
     \/ t \in {T, G} /\ ~SchedulerReady /\ Able(t) /\ ready # <<>> /\ t = Head(ready)
     \/ t \in Users /\ ~SchedulerReady /\ ready = <<>> /\ UserReady(t)

(* The ready queue after a step: who can go on keeps its place, who now    *)
(* can joins at the end, in the given order when both do.                  *)
Requeue(joining) ==
  LET order == IF ready = <<>> THEN joining
                               ELSE IF Head(ready) = T THEN <<T, G>> ELSE <<G, T>>
      place == [t \in {T, G} |-> IF Able(t)' THEN <<t>> ELSE <<>>]
  IN ready' = place[order[1]] \o place[order[2]]

-----------------------------------------------------------------------------
(***************************************************************************)
(* Scheduler_task.  A step ends where the next lock is asked for; the next *)
(* one runs when the scheduler owns that lock.                             *)
(***************************************************************************)
Serve(c) ==
  /\ spc = "receive" /\ Runs(S)
  /\ Head(msg_q) = c /\ msg_q' = Tail(msg_q)

At(step) == spc = step /\ Runs(S)

AnswerMonitor ==
  /\ Serve(T)
  /\ tpc' = IF tpc = "ask_active" THEN "has_active" ELSE "has_overdue"
  /\ UNCHANGED <<ticks, lock, scheduler, expired, ticked, entries, generator,
                 lists, state>>
  /\ Requeue(<<T, G>>)

BeginCreate ==
  /\ Serve(G)
  /\ lock' = Wait(lock, S, "TASK_CREATE_LWSEM")
  /\ spc' = "create" /\ client' = G
  /\ UNCHANGED <<ticks, node, timerTask, entries, generator, lists, state>>
  /\ Requeue(<<T, G>>)

CreateTask(u) ==
  /\ At("create") /\ state[u] = "free"
  /\ state' = [state EXCEPT ![u] = "running"]
  /\ lock' = Wait(Post(lock, "TASK_CREATE_LWSEM"), S, "TIMER_ENTRIES_LWSEM")
  /\ node' = u /\ spc' = "start_timer"
  /\ UNCHANGED <<ticks, msg_q, client, timerTask, entries, generator, lists>>
  /\ Requeue(<<T, G>>)

(* No room for a task, while dying ones still have theirs, or none left    *)
(* for the timer's entry, which is allocated before TIMER_ENTRIES_LWSEM is *)
(* asked for: NULL is answered at once, and the task, if made, stays.      *)
CreateFails ==
  /\ At("create")
  /\ \/ ~(\E u \in Users : state[u] = "free") /\ UNCHANGED state
     \/ \E u \in Users :
          /\ state[u] = "free" /\ \A v \in Users \ {u} : state[v] # "free"
          /\ state' = [state EXCEPT ![u] = "running"]
  /\ lock' = Post(lock, "TASK_CREATE_LWSEM")
  /\ spc' = "receive" /\ client' = None /\ gpc' = "failed"
  /\ UNCHANGED <<ticks, msg_q, node, timerTask, entries, round, lists>>
  /\ Requeue(<<T, G>>)

StartTimer ==
  /\ At("start_timer")
  /\ armed' = armed \cup {node}
  /\ lock' = Wait(Post(lock, "TIMER_ENTRIES_LWSEM"), S, "tasks_m")
  /\ spc' = "add_task"
  /\ UNCHANGED <<ticks, msg_q, client, node, timerTask, due, generator, lists,
                 state>>
  /\ Requeue(<<T, G>>)

AddTask ==
  /\ At("add_task")
  /\ active' = active \cup {node} /\ node' = None
  /\ lock' = Wait(Post(lock, "tasks_m"), S, "TASK_CREATE_LWSEM")
  /\ spc' = "find_generator"
  /\ UNCHANGED <<ticks, msg_q, client, timerTask, entries, generator, overdue,
                 state>>
  /\ Requeue(<<T, G>>)

(* _task_get_id_from_name walks the list of all task descriptors.          *)
FindGenerator ==
  /\ At("find_generator")
  /\ lock' = Wait(Post(lock, "TASK_CREATE_LWSEM"), S, "tasks_m")
  /\ spc' = "update_overdue"
  /\ UNCHANGED <<ticks, msg_q, client, node, timerTask, entries, generator,
                 lists, state>>
  /\ Requeue(<<T, G>>)

UpdateOverdue ==
  /\ At("update_overdue")
  /\ lock' = Wait(Post(lock, "tasks_m"), S, "tasks_m")
  /\ spc' = "update_active"
  /\ UNCHANGED <<ticks, msg_q, client, node, timerTask, entries, generator,
                 lists, state>>
  /\ Requeue(<<T, G>>)

(* The second update, then the answer; a deletion ends in _task_abort.     *)
UpdateActive ==
  /\ At("update_active")
  /\ lock' = Post(lock, "tasks_m")
  /\ \/ client = G /\ gpc' = "run" /\ UNCHANGED state
     \/ /\ client \in Users /\ UNCHANGED gpc
        /\ state' = [state EXCEPT ![client] = "aborted"]
  /\ spc' = "receive" /\ client' = None
  /\ UNCHANGED <<ticks, msg_q, node, timerTask, entries, round, lists>>
  /\ Requeue(<<T, G>>)

BeginDelete(u) ==
  /\ Serve(u)
  /\ lock' = Wait(lock, S, "tasks_m")
  /\ spc' = "delete_active" /\ client' = u
  /\ UNCHANGED <<ticks, node, timerTask, entries, generator, lists, state>>
  /\ Requeue(<<T, G>>)

(* delete_task keeps tasks_m when the list is empty and when it succeeds.  *)
KeepsLock(list) == list = {} \/ client \in list

(* A task of the active list has a timer, so _timer_cancel follows.        *)
DeleteActive ==
  LET kept == IF KeepsLock(active) THEN lock ELSE Post(lock, "tasks_m")
  IN /\ At("delete_active")
     /\ active' = active \ {client}
     /\ IF client \in active
          THEN /\ lock' = Wait(kept, S, "TIMER_ENTRIES_LWSEM")
               /\ spc' = "cancel_timer"
          ELSE lock' = Wait(kept, S, "tasks_m") /\ spc' = "delete_overdue"
     /\ UNCHANGED <<ticks, msg_q, client, node, timerTask, entries, generator,
                    overdue, state>>
     /\ Requeue(<<T, G>>)

(* That the task is in one of the lists, and its timer, if it has one, not *)
(* fired by the time it is cancelled, is DDScheduler's to show.            *)
DeleteOverdue ==
  /\ At("delete_overdue")
  /\ overdue' = overdue \ {client}
  /\ lock' = Wait(lock, S, "TASK_CREATE_LWSEM")
  /\ spc' = "find_generator"
  /\ UNCHANGED <<ticks, msg_q, client, node, timerTask, entries, generator,
                 active, state>>
  /\ Requeue(<<T, G>>)

CancelTimer ==
  /\ At("cancel_timer")
  /\ armed' = armed \ {client} /\ due' = due \ {client}
  /\ lock' = Wait(Post(lock, "TIMER_ENTRIES_LWSEM"), S, "TASK_CREATE_LWSEM")
  /\ spc' = "find_generator"
  /\ UNCHANGED <<ticks, msg_q, client, node, timerTask, generator, lists,
                 state>>
  /\ Requeue(<<T, G>>)

SchedulerStep ==
  \/ AnswerMonitor \/ BeginCreate \/ CreateFails \/ StartTimer \/ AddTask
  \/ FindGenerator
  \/ UpdateOverdue \/ UpdateActive \/ DeleteActive \/ DeleteOverdue
  \/ CancelTimer
  \/ \E u \in Users : CreateTask(u) \/ BeginDelete(u)

-----------------------------------------------------------------------------
(***************************************************************************)
(* The timer task: one round over the entries of each of its two queues,   *)
(* of which the second is empty, each under TIMER_ENTRIES_LWSEM.           *)
(***************************************************************************)
TimerAt(step) == tpc = step /\ Runs(T)

PrintThen(blocked, next) == tpc' = next \/ (PrintBlocks /\ tpc' = blocked)

TakeEntries ==
  /\ TimerAt("woken")
  /\ lock' = Wait(lock, T, "TIMER_ENTRIES_LWSEM")
  /\ tpc' = "fire"
  /\ UNCHANGED <<ticks, msg_q, scheduler, expired, ticked, entries, generator,
                 lists, state>>
  /\ Requeue(<<T, G>>)

FireDeadline(u) ==
  /\ TimerAt("fire") /\ u \in due
  /\ due' = due \ {u} /\ expired' = u
  /\ PrintThen("print_overdue", "printed")
  /\ UNCHANGED <<ticks, lock, msg_q, scheduler, ticked, armed, generator,
                 lists, state>>
  /\ Requeue(<<T, G>>)

LockLists ==
  /\ TimerAt("printed")
  /\ lock' = Wait(lock, T, "tasks_m")
  /\ tpc' = "move_overdue"
  /\ UNCHANGED <<ticks, msg_q, scheduler, expired, ticked, entries, generator,
                 lists, state>>
  /\ Requeue(<<T, G>>)

(* Variant: add_task returns without unlocking.                            *)
AddTaskLeaves_Locked(locks) == locks

(* The locks when deadline_overdue's add_task returns.                     *)
AddTaskLeaves(locks) == Post(locks, "tasks_m")

(* deadline_overdue's delete_task and add_task, tasks_m kept in between.   *)
MoveOverdue ==
  /\ TimerAt("move_overdue")
  /\ active' = active \ {expired} /\ overdue' = overdue \cup {expired}
  /\ lock' = AddTaskLeaves(lock)
  /\ tpc' = "fire" /\ expired' = None
  /\ UNCHANGED <<ticks, msg_q, scheduler, ticked, entries, generator, state>>
  /\ Requeue(<<T, G>>)

FireMonitor ==
  /\ TimerAt("fire") /\ MON \in due
  /\ due' = due \ {MON}
  /\ lock' = Wait(lock, T, "tasks_m")
  /\ tpc' = "lock_monitor"
  /\ UNCHANGED <<ticks, msg_q, scheduler, expired, ticked, armed, generator,
                 lists, state>>
  /\ Requeue(<<T, G>>)

(* dd_active_list, then dd_overdue_list: a request, and a wait.            *)
Ask ==
  /\ \/ TimerAt("lock_monitor") /\ tpc' = "ask_active"
     \/ TimerAt("has_active") /\ tpc' = "ask_overdue"
  /\ msg_q' = Append(msg_q, T)
  /\ UNCHANGED <<ticks, lock, scheduler, expired, ticked, entries, generator,
                 lists, state>>
  /\ Requeue(<<T, G>>)

PrintTasks ==
  /\ TimerAt("has_overdue")
  /\ PrintThen("print_tasks", "unlock_monitor")
  /\ UNCHANGED <<ticks, lock, msg_q, scheduler, expired, ticked, entries,
                 generator, lists, state>>
  /\ Requeue(<<T, G>>)

UnlockMonitor ==
  /\ TimerAt("unlock_monitor")
  /\ lock' = Post(lock, "tasks_m")
  /\ PrintThen("print_stats", "rearm_monitor")
  /\ UNCHANGED <<ticks, msg_q, scheduler, expired, ticked, entries, generator,
                 lists, state>>
  /\ Requeue(<<T, G>>)

RearmMonitor ==
  /\ TimerAt("rearm_monitor")
  /\ armed' = armed \cup {MON}
  /\ tpc' = "fire"
  /\ UNCHANGED <<ticks, lock, msg_q, scheduler, expired, ticked, due,
                 generator, lists, state>>
  /\ Requeue(<<T, G>>)

(* The second round: given up, TIMER_ENTRIES_LWSEM may be another's now.   *)
SecondQueue ==
  /\ TimerAt("fire") /\ due = {}
  /\ lock' = Wait(Post(lock, "TIMER_ENTRIES_LWSEM"), T, "TIMER_ENTRIES_LWSEM")
  /\ tpc' = "second"
  /\ UNCHANGED <<ticks, msg_q, scheduler, expired, ticked, entries, generator,
                 lists, state>>
  /\ Requeue(<<T, G>>)

WaitForTick ==
  /\ TimerAt("second")
  /\ lock' = Post(lock, "TIMER_ENTRIES_LWSEM")
  /\ tpc' = (IF ticked THEN "woken" ELSE "isr") /\ ticked' = FALSE
  /\ UNCHANGED <<ticks, msg_q, scheduler, expired, entries, generator, lists,
                 state>>
  /\ Requeue(<<T, G>>)

TimerStep ==
  \/ TakeEntries \/ LockLists \/ MoveOverdue \/ FireMonitor \/ Ask
  \/ PrintTasks \/ UnlockMonitor \/ RearmMonitor \/ SecondQueue \/ WaitForTick
  \/ \E u \in Users : FireDeadline(u)

-----------------------------------------------------------------------------
(***************************************************************************)
(* Generator_task.                                                         *)
(***************************************************************************)
Release ==
  /\ gpc = "run" /\ round < Releases /\ Runs(G)
  /\ msg_q' = Append(msg_q, G)
  /\ gpc' = "receive" /\ round' = round + 1
  /\ UNCHANGED <<ticks, lock, scheduler, timerTask, entries, lists, state>>
  /\ Requeue(<<T, G>>)

Delay ==
  /\ gpc = "run" /\ Runs(G)
  /\ gpc' = "delay" /\ round' = 0
  /\ UNCHANGED <<ticks, lock, msg_q, scheduler, timerTask, entries, lists,
                 state>>
  /\ Requeue(<<T, G>>)

(* A release that failed fails its assertion and stops the system.         *)
FailAssertion ==
  /\ gpc = "failed" /\ Runs(G)
  /\ gpc' = "halted"
  /\ UNCHANGED <<ticks, lock, ready, msg_q, scheduler, timerTask, entries,
                 round, lists, state>>

GeneratorStep == Release \/ Delay \/ FailAssertion

-----------------------------------------------------------------------------
(***************************************************************************)
(* The scheduled tasks: dd_delete, and after _task_abort the kernel's      *)
(* _task_destroy_internal, which any interrupt may break off.              *)
(***************************************************************************)
UserAt(u, step) == state[u] = step /\ Runs(u)

FinishTask(u) ==
  /\ UserAt(u, "running")
  /\ msg_q' = Append(msg_q, u)
  /\ state' = [state EXCEPT ![u] = "receiving"]
  /\ UNCHANGED <<ticks, lock, scheduler, timerTask, entries, generator, lists>>
  /\ Requeue(<<T, G>>)

BeginDestroy(u) ==
  /\ UserAt(u, "aborted")
  /\ lock' = Wait(lock, u, "TASK_CREATE_LWSEM")
  /\ state' = [state EXCEPT ![u] = "destroy"]
  /\ UNCHANGED <<ticks, msg_q, scheduler, timerTask, entries, generator,
                 lists>>
  /\ Requeue(<<T, G>>)

(* Variant: the clean-up of a task wants the list mutex.                   *)
CleanupLock_Lists == "tasks_m"

(* The lock that a component's clean-up function waits for.                *)
CleanupLock == "TIMER_ENTRIES_LWSEM"

BeginCleanup(u) ==
  /\ UserAt(u, "destroy")
  /\ lock' = Wait(lock, u, CleanupLock)
  /\ state' = [state EXCEPT ![u] = "cleanup"]
  /\ UNCHANGED <<ticks, msg_q, scheduler, timerTask, entries, generator,
                 lists>>
  /\ Requeue(<<T, G>>)

(* Variant: an early return of _timer_cleanup keeps the lock.              *)
CleanedUp_KeepsLock(locks) == locks

(* The locks after _timer_cleanup.                                         *)
CleanedUp(locks) == Post(locks, CleanupLock)

(* _timer_cleanup removes the dying task's own timers.  It has none: the   *)
(* deadline timers are the scheduler's.                                    *)
EndCleanup(u) ==
  /\ UserAt(u, "cleanup")
  /\ lock' = CleanedUp(lock)
  /\ state' = [state EXCEPT ![u] = "unlink"]
  /\ UNCHANGED <<ticks, msg_q, scheduler, timerTask, entries, generator,
                 lists>>
  /\ Requeue(<<T, G>>)

(* The descriptor leaves the list of all tasks; its memory is free.        *)
EndDestroy(u) ==
  /\ UserAt(u, "unlink")
  /\ lock' = Post(lock, "TASK_CREATE_LWSEM")
  /\ state' = [state EXCEPT ![u] = "free"]
  /\ UNCHANGED <<ticks, msg_q, scheduler, timerTask, entries, generator,
                 lists>>
  /\ Requeue(<<T, G>>)

UserStep(u) ==
  \/ FinishTask(u) \/ BeginDestroy(u) \/ BeginCleanup(u) \/ EndCleanup(u)
  \/ EndDestroy(u)

-----------------------------------------------------------------------------
(***************************************************************************)
(* Interrupts.  Any entries may expire at a tick; _timer_isr posts when    *)
(* one has and the timer task is not ready.  The delayed generator joins   *)
(* the ready queue before it.                                              *)
(***************************************************************************)
Tick ==
  /\ gpc # "halted" /\ ticks < MaxTicks /\ ticks' = ticks + 1
  /\ \E expiring \in SUBSET armed :
       armed' = armed \ expiring /\ due' = due \cup expiring
  /\ LET posts == due' # {} /\ ~Contains(ready, T)
     IN /\ tpc' = IF posts /\ tpc = "isr" THEN "woken" ELSE tpc
        /\ ticked' = (ticked \/ (posts /\ tpc # "isr"))
  /\ gpc' = IF gpc = "delay" THEN "run" ELSE gpc
  /\ UNCHANGED <<lock, msg_q, scheduler, expired, round, lists, state>>
  /\ Requeue(<<G, T>>)

SerialDrained ==
  /\ gpc # "halted" /\ tpc \in Printing
  /\ tpc' = CASE tpc = "print_overdue" -> "printed"
              [] tpc = "print_tasks" -> "unlock_monitor"
              [] tpc = "print_stats" -> "rearm_monitor"
  /\ UNCHANGED <<ticks, lock, msg_q, scheduler, expired, ticked, entries,
                 generator, lists, state>>
  /\ Requeue(<<T, G>>)

(* What the processor does.                                                *)
Work ==
  \/ SchedulerStep \/ TimerStep \/ GeneratorStep
  \/ \E u \in Users : UserStep(u)

Next == Work \/ Tick \/ SerialDrained

Spec == Init /\ [][Next]_vars

(***************************************************************************)
(* The processor does not idle while a task can run, and no task works for *)
(* ever; the serial line drains; ticks come, up to MaxTicks.               *)
(***************************************************************************)
Fairness == WF_vars(Work) /\ WF_vars(SerialDrained) /\ WF_vars(Tick)

FairSpec == Spec /\ Fairness

-----------------------------------------------------------------------------
(***************************************************************************)
(* Circular waits.                                                         *)
(***************************************************************************)

(* A lock's waiter waits for its owner, the timer task that has sent a     *)
(* request for the scheduler.                                              *)
WaitsFor(t, v) ==
  \/ \E l \in Locks : Waits(t, l) /\ Owns(v, l)
  \/ t = T /\ tpc \in Asking /\ v = S

Circular(tasks) ==
  tasks # {} /\ \A t \in tasks : \E v \in tasks : WaitsFor(t, v)

Deadlocked == \E tasks \in SUBSET Actors : Circular(tasks)

(* Every circular wait goes through both the scheduler and the timer task: *)
(* dying tasks never block each other, nor one of the two on its own.      *)
OnlyThroughTimer ==
  \A tasks \in SUBSET Actors : Circular(tasks) => {S, T} \subseteq tasks

(* Nothing moves any more, for a reason that is known.                     *)
Stopped == Deadlocked \/ gpc = "halted"

(* An aborted task is gone in the end, however often its destruction is    *)
(* broken off and whoever is given the locks before it, unless there is a  *)
(* circular wait or the generator found no room: nothing else keeps a lock *)
(* or loses a waiter for ever.                                             *)
Destroyed ==
  \A u \in Users : state[u] = "aborted" ~> state[u] = "free" \/ Stopped

(* Likewise every request, of a task, the generator or the monitor, gets   *)
(* its answer.                                                             *)
Answered ==
  /\ \A u \in Users :
       state[u] = "receiving" ~> state[u] # "receiving" \/ Stopped
  /\ gpc = "receive" ~> gpc # "receive" \/ Stopped
  /\ tpc \in Asking ~> tpc \notin Asking \/ Stopped

(* dd_scheduler.h on dd_tcreate's result: "Task ID of the task created or  *)
(* an error".  Claimed here only for a scheduler that does not wait for    *)
(* the timer task itself, so that it takes a dying task to break it.       *)
CreateReturns == gpc = "receive" ~> gpc # "receive" \/ WaitsFor(S, T)
=============================================================================
