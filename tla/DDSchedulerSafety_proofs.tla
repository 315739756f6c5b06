---------------------- MODULE DDSchedulerSafety_proofs ----------------------
(***************************************************************************)
(* The safety of DDScheduler, proved from one inductive invariant about    *)
(* the lists, the lock and the timers; and from it, that DDScheduler       *)
(* implements TaskLifecycle.                                               *)
(***************************************************************************)
EXTENDS DDScheduler_proofs

-----------------------------------------------------------------------------
(***************************************************************************)
(* The lists, the lock and the timers.                                     *)
(***************************************************************************)
LockStates == {"add_task", "delete_active", "delete_overdue",
               "update_overdue", "update_active"}

(* Who may hold or wait for tasks_m.  The timer task can wait for it only  *)
(* in a deadlock: the scheduler, which holds it, waits for the timer       *)
(* component, which the timer task holds.                                  *)
LockInv ==
  /\ S \in waiters => tasks_m = T /\ spc \in LockStates
  /\ T \in waiters => tasks_m = S /\ spc = "cancel_timer"
  /\ tasks_m = S => spc \notin {"receive", "start_timer"}
  /\ spc = "cancel_timer" => tasks_m = S
  /\ tasks_m = T => tpc \in {"lock_monitor", "ask_active", "ask_overdue",
                             "print_tasks", "unlock_monitor"}
  /\ tpc \in {"ask_active", "ask_overdue", "print_tasks", "unlock_monitor"} =>
       tasks_m = T

(* A creation that failed has its answer on the way, with the generator    *)
(* ready to take it, or has stopped the system.                            *)
CreationFailed ==
  halted # "no" \/ (G \in Tasks(ready) /\ gpc = "receive" /\ ~created)

(* A task is listed from the end of its creation until its deletion, but   *)
(* for one whose creation failed half way.                                 *)
UserInv ==
  /\ \A u \in Users :
       /\ u \in Listed => state[u] \in {"running", "receiving"}
       /\ state[u] \in {"running", "receiving"} =>
            \/ u \in Listed
            \/ node = u /\ spc \in {"start_timer", "add_task"}
            \/ client = u /\ spc \in {"cancel_timer", "update_overdue", "update_active"}
            \/ state[u] = "running" /\ CreationFailed
       /\ state[u] # "returned"
  /\ spc = "delete_active" => client \in Listed
  /\ spc = "delete_overdue" => client \in Tasks(overdue_tasks)
  /\ spc \in {"cancel_timer", "update_overdue", "update_active"} => client \notin Listed
  /\ spc \in {"start_timer", "add_task"} =>
       node \notin Listed /\ state[node] \in {"running", "receiving"}

NodeInv ==
  /\ NoNodeLost
  /\ spc \in {"receive", "delete_active", "delete_overdue"} => node = NONE
  /\ spc \in {"start_timer", "add_task", "cancel_timer"} => node \in nodes
  /\ spc \in {"update_overdue", "update_active"} => nodes \subseteq Listed

TimerInv ==
  /\ TimersMatchLists
  /\ \A u \in Tasks(active_tasks) : timer[u] \/ T \in waiters
  /\ spc = "add_task" => node \in armed
  /\ spc = "cancel_timer" => node \in armed \/ node = expired

CallbackInv ==
  /\ expired # NONE <=> tpc \in {"print_overdue", "move_overdue"}
  /\ expired \notin armed
  /\ expired # NONE =>
       /\ deadline[expired] <= now
       /\ \/ expired \in Tasks(active_tasks)
          \/ spc = "cancel_timer" /\ node = expired

HaltInv ==
  /\ halted \in {"no", "generator assert", "button assert"}
  /\ spc = "update_active" => priority > 0

SInv == /\ LockInv /\ UserInv /\ NodeInv /\ ListsWellFormed /\ TimerInv /\ CallbackInv
        /\ HaltInv

-----------------------------------------------------------------------------
(* What the types say of the lists and of the values that are no task.     *)
LEMMA ListTypes ==
  ASSUME TypeInv
  PROVE  /\ active_tasks \in Seq(Users) /\ overdue_tasks \in Seq(Users)
         /\ Tasks(active_tasks) \subseteq Users /\ Tasks(overdue_tasks) \subseteq Users
         /\ Listed \subseteq Users
         /\ NONE \notin Users /\ MON \notin Users /\ G \notin Users /\ T \notin Users
         /\ MON # NONE /\ S # T /\ S # NONE /\ T # NONE /\ G # T /\ G # NONE
         /\ deadline \in [Users -> Nat] /\ timer \in [Users -> BOOLEAN]
         /\ state \in [Users -> UserStates] /\ nodes \subseteq Users
<1>1. active_tasks \in Seq(Users) /\ overdue_tasks \in Seq(Users)
  BY DEF TypeInv, TypeOK
<1>2. Tasks(active_tasks) \subseteq Users /\ Tasks(overdue_tasks) \subseteq Users
  BY <1>1, TasksOfSeq
<1> QED BY <1>1, <1>2, ActorsAssumption DEF Listed, TypeInv, TypeOK

(* Whoever is made ready, those that were ready stay so.                   *)
LEMMA ConcatKeeps ==
  ASSUME NEW q \in Seq({T, G}), NEW r \in Seq({T, G})
  PROVE  Tasks(q) \cup Tasks(r) \subseteq Tasks(q \o r)
<1>1. \A i \in DOMAIN q : i \in DOMAIN (q \o r) /\ (q \o r)[i] = q[i]
  OBVIOUS
<1>2. \A i \in DOMAIN r : /\ Len(q) + i \in DOMAIN (q \o r)
                          /\ (q \o r)[Len(q) + i] = r[i]
  OBVIOUS
<1> QED BY <1>1, <1>2 DEF Tasks, ToSet

(* The generator leaves the ready queue only by a step of its own.         *)
LEMMA GeneratorStaysReady ==
  ASSUME TypeInv, G \in Tasks(ready), Next, ~GeneratorStep
  PROVE  G \in Tasks(ready')
<1>1. /\ ready \in Seq({T, G}) /\ UnlockReadies \in Seq({T, G})
      /\ <<T>> \in Seq({T, G}) /\ <<G>> \in Seq({T, G}) /\ <<>> \in Seq({T, G})
      /\ UnlockReadies \o <<G>> \in Seq({T, G})
  <2>1. <<>> \in Seq({T, G}) /\ <<T>> \in Seq({T, G}) /\ <<G>> \in Seq({T, G})
    OBVIOUS
  <2>2. UnlockReadies \in Seq({T, G})
    BY <2>1 DEF UnlockReadies
  <2> QED BY <2>1, <2>2 DEF TypeInv, TypeOK
<1>2. ASSUME NEW r \in Seq({T, G}), ready' = ready \o r PROVE G \in Tasks(ready')
  BY <1>1, <1>2, ConcatKeeps
<1>3. ASSUME SchedulerStep PROVE G \in Tasks(ready')
  <2>1. ASSUME NEW list, LeaveDelete(list) PROVE G \in Tasks(ready')
    BY <1>1, <1>2, <2>1 DEF LeaveDelete, Respond
  <2>2. ASSUME ServeTaskList \/ CreateFails \/ AddActive \/ UpdateOverdue \/ UpdateActive
        PROVE  G \in Tasks(ready')
    BY <1>1, <1>2, <2>2 DEF ServeTaskList, CreateFails, AddActive, UpdateOverdue,
       UpdateActive, Respond
  <2>3. ASSUME NEW u \in Users, CreateWithoutTimer(u) PROVE G \in Tasks(ready')
    BY <1>1, <1>2, <2>3 DEF CreateWithoutTimer, Respond
  <2>4. ASSUME StartTimer \/ SchedulerWaits \/ CancelTimer
               \/ \E u \in Users : CreateTask(u) \/ ReceiveDelete(u)
        PROVE  ready' = ready
    BY <2>4 DEF StartTimer, SchedulerWaits, CancelTimer, CreateTask, ReceiveDelete
  <2> QED BY <1>3, <2>1, <2>2, <2>3, <2>4 DEF SchedulerStep, DeleteActive, DeleteOverdue
<1>4. ASSUME TimerStep PROVE G \in Tasks(ready')
  <2>1. Runs(T) /\ ready' \in {ready, Tail(ready)}
    BY <1>4 DEF TimerStep, FireMonitor, PostEntries, WaitForTick, TimerTaskWaits,
       MoveOverdue, LockMonitor, AskOverdue, PrintTasks, UnlockMonitor, RearmMonitor,
       FireDeadline, Fires, PrintThen, Ask, kernel
  <2>2. Tasks(Tail(ready)) = Tasks(ready) \ {T} /\ G # T
    BY <2>1, RunningIsReady, ListTypes
  <2> QED BY <2>1, <2>2
<1>5. ASSUME NEW u \in Users, UserStep(u) PROVE ready' = ready
  BY <1>5 DEF UserStep, FinishTask, EndTask, kernel
<1>6. ASSUME Tick PROVE G \in Tasks(ready')
  <2>1. gpc # "delay"
    BY DEF TypeInv, GeneratorPlace
  <2>2. ready' \in {ready \o <<>>, ready \o <<>> \o <<T>>}
    BY <1>6, <2>1 DEF Tick
  <2> QED BY <1>1, <1>2, <2>2, ConcatEmptySeq
<1>7. ASSUME SerialDrained PROVE G \in Tasks(ready')
  <2>1. ready' = ready \o <<T>>
    BY <1>1, <1>7, AppendIsConcat DEF SerialDrained
  <2> QED BY <1>1, <1>2, <2>1
<1>8. ASSUME ButtonPress PROVE ready' = ready
  BY <1>8 DEF ButtonPress, kernel
<1> QED BY <1>3, <1>4, <1>5, <1>6, <1>7, <1>8 DEF Next

(* After a failed creation the generator's own next step stops the system. *)
LEMMA FailureStays ==
  ASSUME TypeInv, CreationFailed, Next
  PROVE  CreationFailed'
<1>1. halted = "no"
  BY WhoRuns DEF Next, SchedulerStep, ServeTaskList, CreateFails, StartTimer,
     SchedulerWaits, AddActive, DeleteActive, DeleteOverdue, CancelTimer,
     UpdateOverdue, UpdateActive, CreateTask, CreateWithoutTimer, ReceiveDelete,
     Receive, TimerStep, FireMonitor, PostEntries, WaitForTick, TimerTaskWaits,
     MoveOverdue, LockMonitor, AskOverdue, PrintTasks, UnlockMonitor,
     RearmMonitor, FireDeadline, Fires, GeneratorStep, PollPresses, DelayGenerator,
     ReleaseDone, ReleaseTask, UserStep, FinishTask, EndTask, Tick, SerialDrained,
     ButtonPress
<1>2. G \in Tasks(ready) /\ gpc = "receive" /\ ~created
  BY <1>1 DEF CreationFailed
<1>3. CASE GeneratorStep
  <2>1. ReleaseDone
    BY <1>2, <1>3 DEF GeneratorStep, PollPresses, DelayGenerator, ReleaseTask
  <2>2. halted' # "no"
    BY <1>2, <2>1 DEF ReleaseDone
  <2> QED BY <2>2 DEF CreationFailed
<1>4. CASE ~GeneratorStep
  <2>1. G \in Tasks(ready')
    BY <1>2, <1>4, GeneratorStaysReady
  <2>2. client # G
    BY <1>2 DEF TypeInv, GeneratorPlace
  <2>3. gpc' = gpc /\ ~created'
    <3>1. ASSUME SchedulerStep PROVE gpc' = gpc /\ ~created'
      BY <1>2, <2>2, <3>1 DEF SchedulerStep, ServeTaskList, CreateFails, StartTimer,
         SchedulerWaits, AddActive, DeleteActive, DeleteOverdue, CancelTimer,
         UpdateOverdue, UpdateActive, CreateTask, CreateWithoutTimer, ReceiveDelete,
         generator
    <3>2. ASSUME TimerStep PROVE gpc' = gpc /\ created' = created
      BY <3>2 DEF TimerStep, FireMonitor, PostEntries, WaitForTick, TimerTaskWaits,
         MoveOverdue, LockMonitor, AskOverdue, PrintTasks, UnlockMonitor,
         RearmMonitor, FireDeadline, generator
    <3>3. ASSUME Tick \/ SerialDrained \/ ButtonPress \/ \E u \in Users : UserStep(u)
          PROVE  gpc' = gpc /\ created' = created
      BY <1>2, <3>3 DEF Tick, SerialDrained, ButtonPress, UserStep, FinishTask,
         EndTask, generator
    <3> QED BY <1>2, <1>4, <3>1, <3>2, <3>3 DEF Next
  <2> QED BY <1>2, <2>1, <2>3 DEF CreationFailed
<1> QED BY <1>3, <1>4

(* A part of the invariant holds after a step that leaves alone the        *)
(* variables it speaks of.                                                 *)
LEMMA SafetyFrames ==
  ASSUME SInv, CreationFailed => CreationFailed'
  PROVE  /\ UNCHANGED <<tasks_m, waiters, spc, tpc>> => LockInv'
         /\ UNCHANGED <<lists, state, spc, client, node>> => UserInv'
         /\ UNCHANGED <<lists, nodes, spc, node>> => NodeInv'
         /\ UNCHANGED <<lists, deadline>> => ListsWellFormed'
         /\ UNCHANGED <<lists, armed, timer, node, spc, expired, waiters>> => TimerInv'
         /\ UNCHANGED <<lists, deadline, now, armed, node, spc, tpc, expired>> => CallbackInv'
         /\ UNCHANGED <<halted, spc, priority>> => HaltInv'
<1>1. UNCHANGED <<tasks_m, waiters, spc, tpc>> => LockInv'
  BY DEF SInv, LockInv
<1>2. UNCHANGED <<lists, state, spc, client, node>> => UserInv'
  BY DEF SInv, UserInv, lists, Listed
<1>3. UNCHANGED <<lists, nodes, spc, node>> => NodeInv'
  BY DEF SInv, NodeInv, lists, Listed, NoNodeLost
<1>4. UNCHANGED <<lists, deadline>> => ListsWellFormed'
  BY DEF SInv, ListsWellFormed, lists
<1>5. UNCHANGED <<lists, armed, timer, node, spc, expired, waiters>> => TimerInv'
  BY DEF SInv, TimerInv, TimersMatchLists, lists
<1>6. UNCHANGED <<lists, deadline, now, armed, node, spc, tpc, expired>> => CallbackInv'
  BY DEF SInv, CallbackInv, lists
<1>7. UNCHANGED <<halted, spc, priority>> => HaltInv'
  BY DEF SInv, HaltInv
<1> QED BY <1>1, <1>2, <1>3, <1>4, <1>5, <1>6, <1>7

(* The order of a list is the order of its tasks' deadlines only.          *)
LEMMA SortedFrame ==
  ASSUME NEW s \in Seq(Users), NEW d, NEW e, SortedByDeadline(s, d),
         \A u \in Tasks(s) : e[u] = d[u]
  PROVE  SortedByDeadline(s, e)
<1>1. \A i \in DOMAIN s : s[i] \in Tasks(s)
  BY DEF Tasks, ToSet
<1> QED BY <1>1 DEF SortedByDeadline

LEMMA ListsFrame ==
  ASSUME TypeInv, SInv, UNCHANGED <<active_tasks, overdue_tasks>>,
         \A u \in Listed : deadline'[u] = deadline[u]
  PROVE  ListsWellFormed'
<1>1. active_tasks \in Seq(Users) /\ overdue_tasks \in Seq(Users)
  BY ListTypes
<1>2. /\ \A u \in Tasks(active_tasks) : deadline'[u] = deadline[u]
      /\ \A u \in Tasks(overdue_tasks) : deadline'[u] = deadline[u]
  BY DEF Listed
<1>3. SortedByDeadline(active_tasks, deadline) /\ SortedByDeadline(overdue_tasks, deadline)
  BY DEF SInv, ListsWellFormed
<1>4. SortedByDeadline(active_tasks, deadline')
  BY <1>1, <1>2, <1>3, SortedFrame
<1>5. SortedByDeadline(overdue_tasks, deadline')
  BY <1>1, <1>2, <1>3, SortedFrame
<1> QED BY <1>4, <1>5 DEF SInv, ListsWellFormed

(* The scheduler runs: it waits for nothing, and when it is at one of its  *)
(* locks the timer task does not wait for tasks_m either.                  *)
LEMMA SchedulerRunning ==
  ASSUME TypeInv, SInv, Runs(S)
  PROVE  /\ S \notin waiters /\ halted = "no"
         /\ spc # "cancel_timer" => T \notin waiters /\ waiters = {}
         /\ spc \in {"start_timer", "cancel_timer"} =>
              tpc \in {"wait", "posted"} /\ expired = NONE
<1>1. SchedulerReady /\ halted = "no"
  BY WhoRuns
<1>2. waiters \subseteq {S, T}
  BY DEF TypeInv, TypeOK
<1> QED BY <1>1, <1>2 DEF SchedulerReady, TimerEntriesHeld, SInv, LockInv, CallbackInv

(* An unlock by the running scheduler frees tasks_m.                       *)
LEMMA SchedulerFrees ==
  ASSUME TypeInv, SInv, Runs(S), spc # "cancel_timer", UnlockTasks
  PROVE  tasks_m' = NONE /\ waiters' = {}
BY SchedulerRunning DEF UnlockTasks

LEMMA CreateTaskSafe ==
  ASSUME TypeInv, SInv, NEW u \in Users, CreateTask(u),
         CreationFailed => CreationFailed'
  PROVE  SInv'
<1>1. /\ Runs(S) /\ spc = "receive" /\ u \in FreeTasks
      /\ spc' = "start_timer" /\ node' = u /\ client' = G
      /\ state' = [state EXCEPT ![u] = "running"] /\ nodes' = nodes \cup {u}
      /\ deadline' = [deadline EXCEPT ![u] = now + Deadline[kind]]
      /\ active_tasks' = active_tasks /\ overdue_tasks' = overdue_tasks
      /\ tasks_m' = tasks_m /\ waiters' = waiters /\ tpc' = tpc /\ expired' = expired
      /\ timer' = timer /\ armed' = armed /\ halted' = halted /\ now' = now
  BY DEF CreateTask, Receive, lists, timerTask
<1>2. u \notin Listed /\ state[u] = "free" /\ u \notin nodes /\ Listed' = Listed
  BY <1>1 DEF FreeTasks, SInv, NodeInv, NoNodeLost, Listed
<1>3. LockInv'
  BY <1>1, SchedulerRunning DEF SInv, LockInv
<1>4. UserInv'
  BY <1>1, <1>2, ListTypes DEF SInv, UserInv
<1>5. NodeInv'
  BY <1>1, <1>2, ListTypes DEF SInv, NodeInv, NoNodeLost
<1>6. ListsWellFormed'
  <2>1. \A v \in Listed : deadline'[v] = deadline[v]
    BY <1>1, <1>2, ListTypes
  <2> QED BY <1>1, <2>1, ListsFrame
<1>7. TimerInv'
  BY <1>1, SchedulerRunning DEF SInv, TimerInv, TimersMatchLists
<1>8. CallbackInv'
  BY <1>1, <1>2, ListTypes DEF SInv, CallbackInv, Listed
<1>9. HaltInv'
  BY <1>1 DEF SInv, HaltInv
<1> QED BY <1>3, <1>4, <1>5, <1>6, <1>7, <1>8, <1>9 DEF SInv

LEMMA CreateWithoutTimerSafe ==
  ASSUME TypeInv, SInv, NEW u \in Users, CreateWithoutTimer(u),
         CreationFailed => CreationFailed'
  PROVE  SInv'
<1>1. /\ Runs(S) /\ spc = "receive" /\ u \in FreeTasks
      /\ Respond(<<G>>) /\ created' = FALSE /\ gpc' = gpc
      /\ state' = [state EXCEPT ![u] = "running"]
      /\ UNCHANGED <<now, halted, tasks_m, waiters, armed, scheduler, lists,
                     nodes, deadline, timer, timerTask>>
  BY DEF CreateWithoutTimer, Receive
<1>2. u \notin Listed /\ state[u] = "free"
  BY <1>1 DEF FreeTasks, SInv, UserInv
<1>3. gpc = "receive"
  <2>1. G \in Tasks(msg_q)
    BY ReceiveTasks DEF CreateWithoutTimer
  <2> QED BY <2>1 DEF TypeInv, GeneratorPlace
<1>4. G \in Tasks(ready')
  <2>1. ready \in Seq({T, G}) /\ <<G>> \in Seq({T, G}) /\ ready' = ready \o <<G>>
    BY <1>1 DEF TypeInv, TypeOK, Respond
  <2>2. Tasks(<<G>>) \subseteq Tasks(ready')
    BY <2>1, ConcatKeeps
  <2>3. G \in Tasks(<<G>>)
    BY DEF Tasks, ToSet
  <2> QED BY <2>2, <2>3
<1>5. CreationFailed'
  BY <1>1, <1>3, <1>4 DEF CreationFailed
<1>6. UserInv'
  BY <1>1, <1>2, <1>5, ListTypes DEF SInv, UserInv, Listed, lists, scheduler
<1> QED BY <1>1, <1>6, SafetyFrames DEF SInv, scheduler, timerTask

LEMMA ReceiveDeleteSafe ==
  ASSUME TypeInv, UserPlace, SInv, NEW u \in Users, ReceiveDelete(u),
         CreationFailed => CreationFailed'
  PROVE  SInv'
<1>1. /\ Runs(S) /\ spc = "receive" /\ spc' = "delete_active" /\ client' = u
      /\ node' = node /\ state' = state /\ halted' = halted
      /\ active_tasks' = active_tasks /\ overdue_tasks' = overdue_tasks
      /\ nodes' = nodes /\ deadline' = deadline /\ timer' = timer /\ armed' = armed
      /\ tasks_m' = tasks_m /\ waiters' = waiters /\ tpc' = tpc
      /\ expired' = expired /\ now' = now
  BY DEF ReceiveDelete, Receive, lists, timerTask, table
<1>2. state[u] = "receiving"
  <2>1. u \in Tasks(msg_q)
    BY ReceiveTasks DEF ReceiveDelete
  <2> QED BY <2>1 DEF UserPlace
<1>3. u \in Listed /\ Listed' = Listed
  BY <1>1, <1>2 DEF SInv, UserInv, Listed
<1>4. LockInv'
  BY <1>1, SchedulerRunning DEF SInv, LockInv
<1>5. UserInv'
  BY <1>1, <1>3, ListTypes DEF SInv, UserInv
<1>6. NodeInv'
  BY <1>1, <1>3 DEF SInv, NodeInv, NoNodeLost
<1>7. ListsWellFormed'
  BY <1>1, SafetyFrames DEF lists
<1>8. TimerInv'
  BY <1>1 DEF SInv, TimerInv, TimersMatchLists
<1>9. CallbackInv'
  BY <1>1 DEF SInv, CallbackInv
<1>10. HaltInv'
  BY <1>1 DEF SInv, HaltInv
<1> QED BY <1>4, <1>5, <1>6, <1>7, <1>8, <1>9, <1>10 DEF SInv

LEMMA StartTimerSafe ==
  ASSUME TypeInv, SInv, StartTimer, CreationFailed => CreationFailed'
  PROVE  SInv'
<1>1. /\ Runs(S) /\ spc = "start_timer" /\ spc' = "add_task"
      /\ armed' = armed \cup {node} /\ timer' = [timer EXCEPT ![node] = TRUE]
      /\ client' = client /\ node' = node /\ state' = state /\ halted' = halted
      /\ active_tasks' = active_tasks /\ overdue_tasks' = overdue_tasks
      /\ nodes' = nodes /\ deadline' = deadline /\ now' = now
      /\ tasks_m' = tasks_m /\ waiters' = waiters /\ tpc' = tpc /\ expired' = expired
  BY DEF StartTimer, lists, timerTask
<1>2. node \in Users /\ node \notin Listed /\ Listed' = Listed /\ expired = NONE
  BY <1>1, SchedulerRunning DEF SInv, UserInv, TypeInv, Served, Listed
<1>3. LockInv'
  BY <1>1, SchedulerRunning DEF SInv, LockInv
<1>4. UserInv'
  BY <1>1, <1>2 DEF SInv, UserInv
<1>5. NodeInv'
  BY <1>1, <1>2 DEF SInv, NodeInv, NoNodeLost
<1>6. ListsWellFormed'
  BY <1>1, SafetyFrames DEF lists
<1>7. TimerInv'
  BY <1>1, <1>2, ListTypes DEF SInv, TimerInv, TimersMatchLists, Listed
<1>8. CallbackInv'
  BY <1>1, <1>2, ListTypes DEF SInv, CallbackInv
<1>9. HaltInv'
  BY <1>1 DEF SInv, HaltInv
<1> QED BY <1>3, <1>4, <1>5, <1>6, <1>7, <1>8, <1>9 DEF SInv

(* Steps that leave the variables of the invariant alone.                  *)
LEMMA UntouchedSafe ==
  ASSUME SInv,
         UNCHANGED <<now, halted, tasks_m, waiters, armed, scheduler, lists,
                     nodes, deadline, timer, state, timerTask>>,
         CreationFailed => CreationFailed'
  PROVE  SInv'
BY SafetyFrames DEF SInv, scheduler, timerTask

LEMMA SchedulerWaitsSafe ==
  ASSUME TypeInv, SInv, SchedulerWaits, CreationFailed => CreationFailed'
  PROVE  SInv'
<1>1. /\ Runs(S) /\ spc \in LockStates /\ ~MayLock(S)
      /\ waiters' = waiters \cup {S}
      /\ UNCHANGED <<now, halted, tasks_m, armed, scheduler, lists, table, timerTask>>
  BY DEF SchedulerWaits, LockStates
<1>2. tasks_m = T
  BY <1>1 DEF MayLock, TypeInv, TypeOK
<1>3. LockInv'
  BY <1>1, <1>2, ListTypes, SchedulerRunning DEF SInv, LockInv, scheduler, timerTask,
     LockStates
<1>4. TimerInv'
  BY <1>1, ListTypes DEF SInv, TimerInv, TimersMatchLists, scheduler, lists,
     table, timerTask
<1>5. UserInv' /\ NodeInv' /\ ListsWellFormed' /\ CallbackInv' /\ HaltInv'
  BY <1>1, SafetyFrames DEF scheduler, table, timerTask
<1> QED BY <1>3, <1>4, <1>5 DEF SInv

LEMMA AddActiveSafe ==
  ASSUME TypeInv, SInv, AddActive, CreationFailed => CreationFailed'
  PROVE  SInv'
<1>1. /\ Runs(S) /\ MayLock(S) /\ spc = "add_task" /\ spc' = "update_overdue" /\ UnlockTasks
      /\ active_tasks' = AddTask(active_tasks, node, deadline)
      /\ overdue_tasks' = overdue_tasks /\ client' = client /\ node' = node
      /\ state' = state /\ halted' = halted /\ priority' = priority
      /\ nodes' = nodes /\ deadline' = deadline /\ timer' = timer
      /\ armed' = armed /\ tpc' = tpc /\ expired' = expired /\ now' = now
  BY DEF AddActive, table, timerTask
<1>2. /\ node \in Users /\ node \notin Listed /\ client = G
      /\ node \in armed /\ timer[node]
  BY <1>1, ListTypes DEF SInv, UserInv, TimerInv, TimersMatchLists, TypeInv, Served
<1>3. /\ Tasks(active_tasks') = Tasks(active_tasks) \cup {node}
      /\ Listed' = Listed \cup {node}
      /\ NoDuplicates(active_tasks') /\ SortedByDeadline(active_tasks', deadline)
  <2>1. Tasks(active_tasks') = Tasks(active_tasks) \cup {node} /\ NoDuplicates(active_tasks')
    BY <1>1, <1>2, ListTypes, AddTaskProperties DEF SInv, ListsWellFormed, Listed
  <2>2. SortedByDeadline(active_tasks', deadline)
    BY <1>1, <1>2, ListTypes, AddTaskSorted DEF SInv, ListsWellFormed
  <2> QED BY <1>1, <2>1, <2>2 DEF Listed
<1>4. LockInv'
  BY <1>1, SchedulerFrees, ListTypes DEF SInv, LockInv, MayLock
<1>5. UserInv'
  BY <1>1, <1>2, <1>3, ListTypes DEF SInv, UserInv
<1>6. NodeInv'
  BY <1>1, <1>2, <1>3 DEF SInv, NodeInv, NoNodeLost
<1>7. ListsWellFormed'
  BY <1>1, <1>2, <1>3 DEF SInv, ListsWellFormed, Listed
<1>8. TimerInv'
  BY <1>1, <1>2, <1>3, ListTypes, SchedulerRunning DEF SInv, TimerInv,
     TimersMatchLists, Listed
<1>9. CallbackInv'
  BY <1>1, <1>3 DEF SInv, CallbackInv
<1>10. HaltInv'
  BY <1>1 DEF SInv, HaltInv
<1> QED BY <1>4, <1>5, <1>6, <1>7, <1>8, <1>9, <1>10 DEF SInv

(* delete_task on the active list: the task is there, and has a timer to   *)
(* cancel; or it is on the overdue list.                                   *)
LEMMA DeleteActiveSafe ==
  ASSUME TypeInv, SInv, DeleteActive, CreationFailed => CreationFailed'
  PROVE  SInv'
<1>1. /\ Runs(S) /\ MayLock(S) /\ spc = "delete_active" /\ LeaveDelete(active_tasks)
      /\ overdue_tasks' = overdue_tasks /\ client' = client
      /\ state' = state /\ halted' = halted /\ priority' = priority
      /\ armed' = armed /\ tpc' = tpc /\ expired' = expired /\ now' = now
  BY DEF DeleteActive, timerTask
<1>2. client \in Listed /\ client \in Users /\ node = NONE
  BY <1>1, ListTypes DEF SInv, UserInv, NodeInv
<1>3. waiters = {} /\ S \notin waiters /\ T \notin waiters
  BY <1>1, SchedulerRunning
<1>4. CASE client \in Tasks(active_tasks)
  <2>1. timer[client]
    BY <1>3, <1>4 DEF SInv, TimerInv
  <2>2. /\ active_tasks' = DeleteTask(active_tasks, client)
        /\ spc' = "cancel_timer" /\ node' = client /\ tasks_m' = S
        /\ nodes' = nodes /\ deadline' = deadline /\ timer' = timer
        /\ waiters' = waiters
    BY <1>1, <1>4, <2>1 DEF DeleteActive, CancelOrFree, LeaveDelete
  <2>3. /\ Tasks(active_tasks') = Tasks(active_tasks) \ {client}
        /\ NoDuplicates(active_tasks') /\ SortedByDeadline(active_tasks', deadline)
    <3>1. NoDuplicates(active_tasks) /\ SortedByDeadline(active_tasks, deadline)
      BY DEF SInv, ListsWellFormed
    <3> QED BY <1>4, <2>2, <3>1, ListTypes, DeleteTaskProperties, DeleteTaskSorted
  <2>4. Listed' = Listed \ {client}
    BY <1>1, <1>4, <2>3 DEF SInv, ListsWellFormed, Listed
  <2>5. LockInv'
    BY <1>1, <1>3, <2>2, ListTypes DEF SInv, LockInv, MayLock
  <2>6. UserInv'
    BY <1>1, <2>2, <2>4 DEF SInv, UserInv
  <2>7. NodeInv'
    BY <1>1, <1>2, <2>2, <2>4, ListTypes DEF SInv, NodeInv, NoNodeLost
  <2>8. ListsWellFormed'
    BY <1>1, <2>2, <2>3 DEF SInv, ListsWellFormed
  <2>9. TimerInv'
    BY <1>1, <1>4, <2>2, <2>3 DEF SInv, TimerInv, TimersMatchLists
  <2>10. CallbackInv'
    BY <1>1, <2>2, <2>3 DEF SInv, CallbackInv
  <2>11. HaltInv'
    BY <1>1, <2>2 DEF SInv, HaltInv
  <2> QED BY <2>5, <2>6, <2>7, <2>8, <2>9, <2>10, <2>11 DEF SInv
<1>5. CASE client \notin Tasks(active_tasks)
  <2>1. /\ active_tasks' = active_tasks /\ spc' = "delete_overdue" /\ node' = node
        /\ nodes' = nodes /\ deadline' = deadline /\ timer' = timer
    BY <1>5 DEF DeleteActive
  <2>2. waiters' = {} /\ tasks_m' \in {S, NONE}
    BY <1>1, <1>3 DEF LeaveDelete, UnlockTasks
  <2>3. LockInv'
    BY <1>1, <2>1, <2>2, ListTypes DEF SInv, LockInv, MayLock
  <2>4. UserInv'
    BY <1>1, <1>2, <1>5, <2>1 DEF SInv, UserInv, Listed
  <2>5. NodeInv'
    BY <1>1, <2>1 DEF SInv, NodeInv, NoNodeLost, Listed
  <2>6. ListsWellFormed'
    BY <1>1, <2>1, SafetyFrames DEF lists
  <2>7. TimerInv'
    BY <1>1, <1>3, <2>1, <2>2 DEF SInv, TimerInv, TimersMatchLists
  <2>8. CallbackInv'
    BY <1>1, <2>1 DEF SInv, CallbackInv
  <2>9. HaltInv'
    BY <1>1, <2>1 DEF SInv, HaltInv
  <2> QED BY <2>3, <2>4, <2>5, <2>6, <2>7, <2>8, <2>9 DEF SInv
<1> QED BY <1>4, <1>5

(* delete_task on the overdue list: the task is there and has no timer.    *)
LEMMA DeleteOverdueSafe ==
  ASSUME TypeInv, SInv, DeleteOverdue, CreationFailed => CreationFailed'
  PROVE  SInv'
<1>1. client \in Users /\ client \in Tasks(overdue_tasks) /\ ~timer[client] /\ node = NONE
  BY ListTypes DEF DeleteOverdue, SInv, UserInv, NodeInv, TimerInv, TimersMatchLists
<1>2. /\ Runs(S) /\ MayLock(S) /\ spc = "delete_overdue" /\ LeaveDelete(overdue_tasks)
      /\ overdue_tasks' = DeleteTask(overdue_tasks, client) /\ CancelOrFree(client)
      /\ active_tasks' = active_tasks /\ client' = client
      /\ state' = state /\ halted' = halted /\ priority' = priority
      /\ armed' = armed /\ tpc' = tpc /\ expired' = expired /\ now' = now
  BY <1>1 DEF DeleteOverdue, timerTask
<1>3. /\ tasks_m' = S /\ waiters' = waiters /\ waiters = {}
      /\ node' = client /\ spc' = "update_overdue" /\ nodes' = nodes \ {client}
      /\ deadline' = [deadline EXCEPT ![client] = 0]
      /\ timer' = [timer EXCEPT ![client] = FALSE]
  BY <1>1, <1>2, SchedulerRunning DEF LeaveDelete, CancelOrFree, FreeNode
<1>4. /\ Tasks(overdue_tasks') = Tasks(overdue_tasks) \ {client}
      /\ NoDuplicates(overdue_tasks') /\ SortedByDeadline(overdue_tasks', deadline)
      /\ overdue_tasks' \in Seq(Users)
  <2>1. NoDuplicates(overdue_tasks) /\ SortedByDeadline(overdue_tasks, deadline)
    BY DEF SInv, ListsWellFormed
  <2> QED BY <1>1, <1>2, <2>1, ListTypes, DeleteTaskProperties, DeleteTaskSorted
<1>5. Listed' = Listed \ {client} /\ client \notin Tasks(active_tasks)
  BY <1>1, <1>2, <1>4 DEF SInv, ListsWellFormed, Listed
<1>6. LockInv'
  BY <1>2, <1>3, ListTypes DEF SInv, LockInv, MayLock
<1>7. UserInv'
  BY <1>2, <1>3, <1>5 DEF SInv, UserInv
<1>8. NodeInv'
  BY <1>1, <1>2, <1>3, <1>5, ListTypes DEF SInv, NodeInv, NoNodeLost
<1>9. ListsWellFormed'
  <2>1. /\ \A u \in Tasks(active_tasks) : deadline'[u] = deadline[u]
        /\ \A u \in Tasks(overdue_tasks') : deadline'[u] = deadline[u]
    BY <1>3, <1>4, <1>5, ListTypes
  <2>2. SortedByDeadline(active_tasks, deadline') /\ SortedByDeadline(overdue_tasks', deadline')
    BY <1>4, <2>1, ListTypes, SortedFrame DEF SInv, ListsWellFormed
  <2> QED BY <1>2, <1>4, <2>2 DEF SInv, ListsWellFormed
<1>10. TimerInv'
  BY <1>1, <1>2, <1>3, <1>4, <1>5, ListTypes DEF SInv, TimerInv, TimersMatchLists
<1>11. CallbackInv'
  BY <1>1, <1>2, <1>3, <1>5, ListTypes DEF SInv, CallbackInv
<1>12. HaltInv'
  BY <1>2, <1>3 DEF SInv, HaltInv
<1> QED BY <1>6, <1>7, <1>8, <1>9, <1>10, <1>11, <1>12 DEF SInv

(* _timer_cancel: the timer has not fired, so it never fails.              *)
LEMMA CancelTimerSafe ==
  ASSUME TypeInv, SInv, CancelTimer, CreationFailed => CreationFailed'
  PROVE  SInv'
<1>1. /\ Runs(S) /\ spc = "cancel_timer" /\ S \notin waiters
      /\ tpc \in {"wait", "posted"} /\ expired = NONE
  BY SchedulerRunning DEF CancelTimer
<1>2. node \in Users /\ node = client /\ node \notin Listed
  BY <1>1 DEF TypeInv, Served, SInv, UserInv
<1>3. node \in armed
  BY <1>1, <1>2, ListTypes DEF SInv, TimerInv
<1>4. /\ armed' = armed \ {node} /\ spc' = "update_overdue"
      /\ nodes' = nodes \ {node} /\ deadline' = [deadline EXCEPT ![node] = 0]
      /\ timer' = [timer EXCEPT ![node] = FALSE]
      /\ client' = client /\ node' = node /\ priority' = priority /\ state' = state
      /\ active_tasks' = active_tasks /\ overdue_tasks' = overdue_tasks
      /\ tasks_m' = tasks_m /\ waiters' = waiters /\ halted' = halted
      /\ tpc' = tpc /\ expired' = expired /\ now' = now
  BY <1>1, <1>3 DEF CancelTimer, FreeNode, lists, timerTask
<1>5. Listed' = Listed
  BY <1>4 DEF Listed
<1>6. LockInv'
  BY <1>1, <1>4, ListTypes DEF SInv, LockInv, TypeInv, TimerTaskPlace
<1>7. UserInv'
  BY <1>1, <1>2, <1>4, <1>5 DEF SInv, UserInv
<1>8. NodeInv'
  BY <1>1, <1>2, <1>4, <1>5, ListTypes DEF SInv, NodeInv, NoNodeLost
<1>9. ListsWellFormed'
  <2>1. \A u \in Listed : deadline'[u] = deadline[u]
    BY <1>2, <1>4, ListTypes
  <2> QED BY <1>4, <2>1, ListsFrame
<1>10. TimerInv'
  BY <1>1, <1>2, <1>4, ListTypes DEF SInv, TimerInv, TimersMatchLists, Listed
<1>11. CallbackInv'
  BY <1>1, <1>4, ListTypes DEF SInv, CallbackInv
<1>12. HaltInv'
  BY <1>1, <1>4 DEF SInv, HaltInv
<1> QED BY <1>6, <1>7, <1>8, <1>9, <1>10, <1>11, <1>12 DEF SInv

(* update_priorities meets no task that is gone and returns a priority.    *)
LEMMA UpdateListSafe ==
  ASSUME TypeInv, SInv, halted = "no", NEW list \in Seq(Users),
         Tasks(list) \subseteq Listed, NEW start \in Nat, start > 0,
         UpdateList(list, start)
  PROVE  halted' = "no" /\ LastPriority(list, start, LowestPriority) > 0
<1>1. /\ LowestPriority \in Nat /\ LowestPriority > 0
      /\ Len(list) \in Nat
  BY NumbersAssumption, LenProperties DEF TypeInv, TypeOK
<1>2. /\ LastPriority(list, start, LowestPriority) > 0
      /\ LastPriority(list, start, LowestPriority) # 0
  BY <1>1 DEF LastPriority, Clamp
<1>3. \A u \in Tasks(list) : state[u] # "free"
  <2>1. \A u \in Tasks(list) : u \in Users /\ u \in Listed
    BY ListTypes
  <2> QED BY <2>1 DEF SInv, UserInv
<1> QED BY <1>2, <1>3 DEF UpdateList

LEMMA UpdateOverdueSafe ==
  ASSUME TypeInv, SInv, UpdateOverdue, CreationFailed => CreationFailed'
  PROVE  SInv'
<1>1. /\ Runs(S) /\ MayLock(S) /\ UpdateList(overdue_tasks, GeneratorPriority)
      /\ priority' = LastPriority(overdue_tasks, GeneratorPriority, LowestPriority)
      /\ spc = "update_overdue" /\ spc' = "update_active"
      /\ client' = client /\ node' = node /\ state' = state
      /\ active_tasks' = active_tasks /\ overdue_tasks' = overdue_tasks
      /\ nodes' = nodes /\ deadline' = deadline /\ timer' = timer
      /\ armed' = armed /\ tpc' = tpc /\ expired' = expired /\ now' = now
  BY DEF UpdateOverdue, lists, timerTask
<1>2. halted = "no" /\ waiters = {} /\ tasks_m' = NONE /\ waiters' = {}
  BY <1>1, SchedulerRunning, SchedulerFrees DEF UpdateList
<1>3. halted' = "no" /\ priority' > 0
  <2>1. Tasks(overdue_tasks) \subseteq Listed
    BY DEF Listed
  <2>2. GeneratorPriority \in Nat /\ GeneratorPriority > 0
    BY NumbersAssumption
  <2> QED BY <1>1, <1>2, <2>1, <2>2, ListTypes, UpdateListSafe
<1>4. LockInv'
  BY <1>1, <1>2, ListTypes DEF SInv, LockInv, MayLock
<1>5. UserInv'
  BY <1>1 DEF SInv, UserInv, Listed
<1>6. NodeInv'
  BY <1>1 DEF SInv, NodeInv, NoNodeLost, Listed
<1>7. ListsWellFormed'
  BY <1>1, SafetyFrames DEF lists
<1>8. TimerInv'
  BY <1>1, <1>2 DEF SInv, TimerInv, TimersMatchLists
<1>9. CallbackInv'
  BY <1>1 DEF SInv, CallbackInv
<1>10. HaltInv'
  BY <1>3 DEF HaltInv
<1> QED BY <1>4, <1>5, <1>6, <1>7, <1>8, <1>9, <1>10 DEF SInv

LEMMA UpdateActiveSafe ==
  ASSUME TypeInv, SInv, UpdateActive, CreationFailed => CreationFailed'
  PROVE  SInv'
<1>1. /\ Runs(S) /\ MayLock(S) /\ UpdateList(active_tasks, priority)
      /\ spc = "update_active" /\ spc' = "receive" /\ client' = NONE /\ node' = NONE
      /\ active_tasks' = active_tasks /\ overdue_tasks' = overdue_tasks
      /\ nodes' = nodes /\ deadline' = deadline /\ timer' = timer
      /\ armed' = armed /\ tpc' = tpc /\ expired' = expired /\ now' = now
      /\ \/ client = G /\ state' = state
         \/ client \in Users /\ state' = [state EXCEPT ![client] = "aborted"]
  BY DEF UpdateActive, EndRequest, lists, timerTask
<1>2. halted = "no" /\ waiters = {} /\ tasks_m' = NONE /\ waiters' = {}
  BY <1>1, SchedulerRunning, SchedulerFrees DEF UpdateList
<1>3. halted' = "no"
  <2>1. Tasks(active_tasks) \subseteq Listed
    BY DEF Listed
  <2>2. priority \in Nat /\ priority > 0
    BY <1>1 DEF SInv, HaltInv, TypeInv, TypeOK
  <2> QED BY <1>1, <1>2, <2>1, <2>2, ListTypes, UpdateListSafe
<1>4. LockInv'
  BY <1>1, <1>2, ListTypes DEF SInv, LockInv, MayLock
<1>5. UserInv'
  <2>1. Listed' = Listed /\ client \notin Listed
    BY <1>1 DEF SInv, UserInv, Listed
  <2> QED BY <1>1, <2>1, ListTypes DEF SInv, UserInv
<1>6. NodeInv'
  BY <1>1 DEF SInv, NodeInv, NoNodeLost, Listed
<1>7. ListsWellFormed'
  BY <1>1, SafetyFrames DEF lists
<1>8. TimerInv'
  BY <1>1, <1>2 DEF SInv, TimerInv, TimersMatchLists
<1>9. CallbackInv'
  BY <1>1 DEF SInv, CallbackInv
<1>10. HaltInv'
  BY <1>1, <1>3 DEF HaltInv
<1> QED BY <1>4, <1>5, <1>6, <1>7, <1>8, <1>9, <1>10 DEF SInv

LEMMA SchedulerSafe ==
  ASSUME TypeInv, UserPlace, SInv, SchedulerStep,
         CreationFailed => CreationFailed'
  PROVE  SInv'
<1>1. ASSUME ServeTaskList PROVE SInv'
  BY <1>1, UntouchedSafe DEF ServeTaskList, table
<1>2. ASSUME CreateFails PROVE SInv'
  BY <1>2, UntouchedSafe DEF CreateFails, table
<1> QED BY <1>1, <1>2, StartTimerSafe, SchedulerWaitsSafe, AddActiveSafe,
        DeleteActiveSafe, DeleteOverdueSafe, CancelTimerSafe, UpdateOverdueSafe,
        UpdateActiveSafe, CreateTaskSafe, CreateWithoutTimerSafe, ReceiveDeleteSafe
        DEF SchedulerStep

-----------------------------------------------------------------------------
(* The timer task runs: it waits for nothing, and the scheduler is not in  *)
(* the middle of a handler but at one of the points where it waits.        *)
LEMMA TimerTaskRunning ==
  ASSUME TypeInv, SInv, Runs(T)
  PROVE  /\ T \notin waiters /\ halted = "no" /\ waiters \subseteq {S}
         /\ tpc \notin {"print_overdue", "print_tasks", "print_stats"}
         /\ S \in waiters \/ spc \in {"receive", "start_timer", "cancel_timer"}
         /\ tasks_m # T => S \notin waiters
<1>1. T \in Tasks(ready) /\ halted = "no" /\ ~SchedulerReady
  <2>1. ready # <<>> /\ T = Head(ready) /\ halted = "no" /\ ~SchedulerReady
    BY WhoRuns
  <2> QED BY <2>1, ReadyTail DEF TypeInv, TypeOK, QueuesDistinct
<1>2. T \notin waiters /\ waiters \subseteq {S, T} /\ tpc \notin Printing
  BY <1>1 DEF TypeInv, TypeOK, TimerTaskPlace
<1> QED BY <1>1, <1>2 DEF SchedulerReady, SInv, LockInv, Printing

(* A deadline's timer fires: its task is in the active list, or is being   *)
(* deleted.                                                                *)
LEMMA FireDeadlineSafe ==
  ASSUME TypeInv, SInv, NEW u \in Users, FireDeadline(u),
         CreationFailed => CreationFailed'
  PROVE  SInv'
<1>1. /\ Runs(T) /\ tpc \in {"wait", "fire"} /\ u \in armed /\ deadline[u] <= now
      /\ armed' = armed \ {u} /\ expired' = u
      /\ tpc' \in {"print_overdue", "move_overdue"}
      /\ UNCHANGED <<now, halted, tasks_m, waiters, scheduler, lists, table>>
  BY ListTypes DEF FireDeadline, Fires, PrintThen, Expired, Expiration
<1>2. spc # "add_task" /\ tasks_m # T /\ expired = NONE
  BY <1>1, TimerTaskRunning DEF SInv, LockInv, CallbackInv
<1>3. LockInv'
  BY <1>1, <1>2, ListTypes DEF SInv, LockInv, scheduler
<1>4. TimerInv'
  <2>1. /\ active_tasks' = active_tasks /\ overdue_tasks' = overdue_tasks
        /\ timer' = timer /\ spc' = spc /\ node' = node /\ waiters' = waiters
    BY <1>1 DEF scheduler, lists, table
  <2>2. TimersMatchLists'
    BY <1>1, <1>2, <2>1, ListTypes DEF SInv, TimerInv, TimersMatchLists
  <2>3. spc = "cancel_timer" => node # NONE
    BY ListTypes DEF TypeInv, Served
  <2> QED BY <1>1, <1>2, <2>1, <2>2, <2>3 DEF SInv, TimerInv
<1>5. CallbackInv'
  BY <1>1, <1>2, ListTypes DEF SInv, CallbackInv, TimerInv, TimersMatchLists,
     scheduler, lists, table
<1>6. UserInv' /\ NodeInv' /\ ListsWellFormed' /\ HaltInv'
  BY <1>1, SafetyFrames DEF scheduler, table
<1> QED BY <1>3, <1>4, <1>5, <1>6 DEF SInv

(* The timer task moves on and touches nothing else of the invariant.      *)
LEMMA TimerTaskMoves ==
  ASSUME TypeInv, SInv, expired = NONE, expired' = NONE,
         tpc' \notin {"print_overdue", "move_overdue"},
         armed' \ {MON} = armed \ {MON}, NONE \notin armed',
         UNCHANGED <<now, halted, scheduler, lists, table>>,
         T \in waiters' <=> T \in waiters, LockInv',
         CreationFailed => CreationFailed'
  PROVE  SInv'
<1>1. TimerInv'
  <2>1. /\ active_tasks' = active_tasks /\ overdue_tasks' = overdue_tasks
        /\ timer' = timer /\ spc' = spc /\ node' = node
    BY DEF scheduler, lists, table
  <2>2. \A u \in Users : u \in armed' <=> u \in armed
    BY ListTypes
  <2>3. TimersMatchLists'
    BY <2>1, <2>2, ListTypes DEF SInv, TimerInv, TimersMatchLists
  <2>4. spc \in {"add_task", "cancel_timer"} => node \in Users
    BY DEF TypeInv, Served
  <2> QED BY <2>1, <2>2, <2>3, <2>4 DEF SInv, TimerInv
<1>2. CallbackInv'
  BY ListTypes DEF SInv, CallbackInv, scheduler, lists, table
<1>3. UserInv' /\ NodeInv' /\ ListsWellFormed' /\ HaltInv'
  BY SafetyFrames DEF scheduler, table
<1> QED BY <1>1, <1>2, <1>3 DEF SInv

(* It waits for tasks_m only when the scheduler holds it, waiting to       *)
(* cancel a timer.                                                         *)
LEMMA TimerTaskWaitsSafe ==
  ASSUME TypeInv, SInv, TimerTaskWaits, CreationFailed => CreationFailed'
  PROVE  SInv'
<1>1. /\ Runs(T) /\ ~MayLock(T) /\ TimerFieldCleared
      /\ tpc \in {"move_overdue", "lock_monitor"}
      /\ waiters' = waiters \cup {T} /\ tpc' = tpc /\ expired' = expired
      /\ UNCHANGED <<now, halted, tasks_m, armed, scheduler, lists, nodes,
                     deadline, state>>
  BY DEF TimerTaskWaits, timerTask
<1>2. tasks_m = S /\ spc = "cancel_timer"
  <2>1. tasks_m = S
    BY <1>1 DEF MayLock, TypeInv, TypeOK
  <2> QED BY <1>1, <2>1, TimerTaskRunning, ListTypes DEF SInv, LockInv
<1>3. /\ active_tasks' = active_tasks /\ overdue_tasks' = overdue_tasks
      /\ spc' = spc /\ node' = node
  BY <1>1 DEF scheduler, lists
<1>4. LockInv'
  BY <1>1, <1>2, <1>3, TimerTaskRunning, ListTypes DEF SInv, LockInv
<1>5. TimerInv'
  <2>1. tpc = "move_overdue" => expired \in Users
    BY <1>2, ListTypes DEF SInv, CallbackInv, TypeInv, TypeOK
  <2>2. \A u \in Users : u # expired => timer'[u] = timer[u]
    BY <1>1, ListTypes DEF TimerFieldCleared
  <2>3. expired \in Users => timer'[expired] \in {FALSE, timer[expired]}
    BY <1>1, ListTypes DEF TimerFieldCleared
  <2>4. armed \subseteq Users \cup {MON}
    BY DEF TypeInv, TypeOK
  <2>5. TimersMatchLists'
    BY <1>1, <1>3, <2>2, <2>3, <2>4, ListTypes DEF SInv, TimerInv, CallbackInv,
       TimersMatchLists
  <2> QED BY <1>1, <1>2, <1>3, <2>5 DEF SInv, TimerInv
<1>6. UserInv' /\ NodeInv' /\ ListsWellFormed' /\ CallbackInv' /\ HaltInv'
  BY <1>1, SafetyFrames DEF scheduler
<1> QED BY <1>4, <1>5, <1>6 DEF SInv

(* deadline_overdue's second half: the task is in the active list, and     *)
(* nobody else holds or waits for tasks_m.                                 *)
LEMMA MoveOverdueSafe ==
  ASSUME TypeInv, SInv, MoveOverdue, CreationFailed => CreationFailed'
  PROVE  SInv'
<1>1. /\ Runs(T) /\ MayLock(T) /\ TimerFieldCleared /\ tpc = "move_overdue"
      /\ tpc' = "fire" /\ expired' = NONE
      /\ UNCHANGED <<now, armed, scheduler, nodes, deadline, state>>
  BY DEF MoveOverdue
<1>2. /\ tasks_m = NONE /\ waiters = {} /\ halted = "no" /\ spc # "cancel_timer"
  <2>1. tasks_m = NONE
    BY <1>1 DEF MayLock, SInv, LockInv
  <2> QED BY <1>1, <2>1, TimerTaskRunning, ListTypes DEF SInv, LockInv
<1>3. expired \in Users /\ expired \in Tasks(active_tasks) /\ expired \notin armed
  BY <1>1, <1>2, ListTypes DEF SInv, CallbackInv
<1>4. /\ active_tasks' = DeleteTask(active_tasks, expired)
      /\ overdue_tasks' = AddTask(overdue_tasks, expired, deadline)
      /\ tasks_m' = NONE /\ waiters' = {} /\ halted' = "no"
      /\ timer' = [timer EXCEPT ![expired] = FALSE]
  BY <1>1, <1>2, <1>3 DEF MoveOverdue, UnlockTasks, TimerFieldCleared
<1>5. /\ spc' = spc /\ node' = node /\ client' = client /\ priority' = priority
  BY <1>1 DEF scheduler
<1>6. /\ Tasks(active_tasks') = Tasks(active_tasks) \ {expired}
      /\ NoDuplicates(active_tasks') /\ SortedByDeadline(active_tasks', deadline)
  <2>1. NoDuplicates(active_tasks) /\ SortedByDeadline(active_tasks, deadline)
    BY DEF SInv, ListsWellFormed
  <2> QED BY <1>3, <1>4, <2>1, ListTypes, DeleteTaskProperties, DeleteTaskSorted
<1>7. /\ Tasks(overdue_tasks') = Tasks(overdue_tasks) \cup {expired}
      /\ NoDuplicates(overdue_tasks') /\ SortedByDeadline(overdue_tasks', deadline)
  <2>1. /\ NoDuplicates(overdue_tasks) /\ SortedByDeadline(overdue_tasks, deadline)
        /\ expired \notin Tasks(overdue_tasks)
    BY <1>3 DEF SInv, ListsWellFormed
  <2>2. Tasks(overdue_tasks') = Tasks(overdue_tasks) \cup {expired} /\ NoDuplicates(overdue_tasks')
    BY <1>3, <1>4, <2>1, ListTypes, AddTaskProperties
  <2>3. SortedByDeadline(overdue_tasks', deadline)
    BY <1>3, <1>4, <2>1, ListTypes, AddTaskSorted
  <2> QED BY <2>2, <2>3
<1>8. Listed' = Listed
  BY <1>3, <1>6, <1>7 DEF Listed
<1>9. LockInv'
  BY <1>1, <1>2, <1>4, <1>5, ListTypes DEF SInv, LockInv
<1>10. UserInv'
  BY <1>1, <1>5, <1>7, <1>8 DEF SInv, UserInv
<1>11. NodeInv'
  BY <1>1, <1>5, <1>8 DEF SInv, NodeInv, NoNodeLost
<1>12. ListsWellFormed'
  BY <1>1, <1>6, <1>7 DEF SInv, ListsWellFormed
<1>13. TimerInv'
  <2>1. armed \subseteq Users \cup {MON} /\ armed' = armed
    BY <1>1 DEF TypeInv, TypeOK
  <2>2. TimersMatchLists'
    BY <1>3, <1>4, <1>5, <1>6, <1>7, <2>1, ListTypes DEF SInv, TimerInv, TimersMatchLists
  <2> QED BY <1>2, <1>3, <1>4, <1>5, <1>6, <2>1, <2>2, ListTypes DEF SInv, TimerInv
<1>14. CallbackInv'
  <2>1. NONE \notin armed
    BY ListTypes DEF TypeInv, TypeOK
  <2> QED BY <1>1, <2>1 DEF CallbackInv
<1>15. HaltInv'
  BY <1>4, <1>5 DEF SInv, HaltInv
<1> QED BY <1>9, <1>10, <1>11, <1>12, <1>13, <1>14, <1>15 DEF SInv

(* Every step of the timer task.                                           *)
LEMMA TimerSafe ==
  ASSUME TypeInv, SInv, TimerStep, CreationFailed => CreationFailed'
  PROVE  SInv'
<1>0. NONE \notin armed /\ MON # NONE
  BY ListTypes DEF TypeInv, TypeOK
<1>1. ASSUME FireMonitor PROVE SInv'
  <2>1. /\ Runs(T) /\ tpc \in {"wait", "fire"} /\ tpc' = "lock_monitor"
        /\ armed' = armed \ {MON} /\ tasks_m' = tasks_m /\ waiters' = waiters
        /\ expired' = expired
        /\ UNCHANGED <<now, scheduler, lists, table>>
        /\ IF tasks_m = T THEN halted' = "monitor assert" ELSE UNCHANGED halted
    BY <1>1 DEF FireMonitor, Fires
  <2>2. tasks_m # T /\ expired = NONE
    BY <2>1, ListTypes DEF SInv, LockInv, CallbackInv
  <2>3. LockInv'
    BY <2>1, <2>2 DEF SInv, LockInv, scheduler
  <2> QED BY <1>0, <2>1, <2>2, <2>3, TimerTaskMoves
<1>2. ASSUME PostEntries PROVE SInv'
  <2>1. /\ tpc \in {"wait", "fire"} /\ tpc' = "posted" /\ expired' = expired
        /\ UNCHANGED <<now, halted, tasks_m, waiters, armed, scheduler, lists, table>>
    BY <1>2 DEF PostEntries, kernel
  <2>2. tasks_m # T /\ expired = NONE
    BY <2>1 DEF SInv, LockInv, CallbackInv
  <2>3. LockInv'
    BY <2>1, <2>2 DEF SInv, LockInv, scheduler
  <2> QED BY <1>0, <2>1, <2>2, <2>3, TimerTaskMoves
<1>3. ASSUME WaitForTick PROVE SInv'
  <2>1. /\ tpc = "posted" /\ tpc' = "wait" /\ expired' = expired
        /\ UNCHANGED <<now, halted, tasks_m, waiters, armed, scheduler, lists, table>>
    BY <1>3 DEF WaitForTick
  <2>2. tasks_m # T /\ expired = NONE
    BY <2>1 DEF SInv, LockInv, CallbackInv
  <2>3. LockInv'
    BY <2>1, <2>2 DEF SInv, LockInv, scheduler
  <2> QED BY <1>0, <2>1, <2>2, <2>3, TimerTaskMoves
<1>4. ASSUME LockMonitor PROVE SInv'
  <2>1. /\ Runs(T) /\ MayLock(T) /\ tpc = "lock_monitor" /\ tpc' = "ask_active"
        /\ tasks_m' = T /\ expired' = expired
        /\ UNCHANGED <<now, halted, waiters, armed, scheduler, lists, table>>
    BY <1>4 DEF LockMonitor
  <2>2. expired = NONE
    BY <2>1 DEF SInv, CallbackInv
  <2>3. LockInv'
    BY <2>1, TimerTaskRunning, ListTypes DEF SInv, LockInv, MayLock, scheduler
  <2> QED BY <1>0, <2>1, <2>2, <2>3, TimerTaskMoves
<1>5. ASSUME AskOverdue PROVE SInv'
  <2>1. /\ tpc = "ask_active" /\ tpc' = "ask_overdue" /\ expired' = expired
        /\ UNCHANGED <<now, halted, tasks_m, waiters, armed, scheduler, lists, table>>
    BY <1>5 DEF AskOverdue
  <2>2. expired = NONE
    BY <2>1 DEF SInv, CallbackInv
  <2>3. LockInv'
    BY <2>1 DEF SInv, LockInv, scheduler
  <2> QED BY <1>0, <2>1, <2>2, <2>3, TimerTaskMoves
<1>6. ASSUME PrintTasks PROVE SInv'
  <2>1. /\ tpc = "ask_overdue" /\ tpc' \in {"print_tasks", "unlock_monitor"}
        /\ expired' = expired
        /\ UNCHANGED <<now, halted, tasks_m, waiters, armed, scheduler, lists, table>>
    BY <1>6 DEF PrintTasks, PrintThen
  <2>2. expired = NONE
    BY <2>1 DEF SInv, CallbackInv
  <2>3. LockInv'
    BY <2>1 DEF SInv, LockInv, scheduler
  <2> QED BY <1>0, <2>1, <2>2, <2>3, TimerTaskMoves
<1>7. ASSUME UnlockMonitor PROVE SInv'
  <2>1. /\ Runs(T) /\ UnlockTasks /\ tpc = "unlock_monitor"
        /\ tpc' \in {"print_stats", "rearm_monitor"} /\ expired' = expired
        /\ UNCHANGED <<now, halted, armed, scheduler, lists, table>>
    BY <1>7 DEF UnlockMonitor, PrintThen
  <2>2. expired = NONE /\ tasks_m = T
    BY <2>1 DEF SInv, CallbackInv, LockInv
  <2>3. waiters \subseteq {S} /\ waiters' = {} /\ tasks_m' \in {NONE, S}
        /\ (tasks_m' = S => S \in waiters)
    BY <2>1, TimerTaskRunning, ListTypes DEF UnlockTasks
  <2>4. LockInv'
    BY <2>1, <2>2, <2>3, ListTypes DEF SInv, LockInv, LockStates, scheduler
  <2> QED BY <1>0, <2>1, <2>2, <2>3, <2>4, ListTypes, TimerTaskMoves
<1>8. ASSUME RearmMonitor PROVE SInv'
  <2>1. /\ tpc = "rearm_monitor" /\ tpc' = "fire" /\ expired' = expired
        /\ armed' = armed \cup {MON}
        /\ UNCHANGED <<now, halted, tasks_m, waiters, scheduler, lists, table>>
    BY <1>8 DEF RearmMonitor
  <2>2. expired = NONE
    BY <2>1 DEF SInv, CallbackInv
  <2>3. LockInv'
    BY <2>1 DEF SInv, LockInv, scheduler
  <2> QED BY <1>0, <2>1, <2>2, <2>3, TimerTaskMoves
<1> QED BY <1>1, <1>2, <1>3, <1>4, <1>5, <1>6, <1>7, <1>8, TimerTaskWaitsSafe,
        MoveOverdueSafe, FireDeadlineSafe DEF TimerStep

-----------------------------------------------------------------------------
(* The generator, the scheduled tasks and the interrupts.                  *)
LEMMA GeneratorSafe ==
  ASSUME SInv, GeneratorStep, CreationFailed => CreationFailed'
  PROVE  SInv'
<1>1. ASSUME PollPresses PROVE SInv'
  BY <1>1, UntouchedSafe DEF PollPresses, table
<1>2. ASSUME NEW i \in 1 .. Periodic, ReleaseTask(i) PROVE SInv'
  BY <1>2, UntouchedSafe DEF ReleaseTask, table
<1>3. ASSUME DelayGenerator PROVE SInv'
  BY <1>3, UntouchedSafe DEF DelayGenerator, table
<1>4. ASSUME ReleaseDone PROVE SInv'
  <2>1. /\ halted' \in {halted, "generator assert"}
        /\ UNCHANGED <<now, tasks_m, waiters, armed, scheduler, lists, table, timerTask>>
    BY <1>4 DEF ReleaseDone, kernel
  <2>2. HaltInv'
    BY <2>1 DEF SInv, HaltInv, scheduler
  <2> QED BY <2>1, <2>2, SafetyFrames DEF SInv, scheduler, table, timerTask
<1> QED BY <1>1, <1>2, <1>3, <1>4 DEF GeneratorStep

LEMMA UserSafe ==
  ASSUME TypeInv, SInv, NEW u \in Users, UserStep(u),
         CreationFailed => CreationFailed'
  PROVE  SInv'
<1>1. ASSUME FinishTask(u) PROVE SInv'
  <2>1. /\ state[u] = "running" /\ state' = [state EXCEPT ![u] = "receiving"]
        /\ UNCHANGED <<now, halted, tasks_m, waiters, armed, scheduler, lists,
                       nodes, deadline, timer, timerTask>>
    BY <1>1 DEF FinishTask
  <2>2. ~CreationFailed
    BY <1>1, WhoRuns DEF FinishTask, CreationFailed, Tasks, ToSet
  <2>3. UserInv'
    BY <2>1, <2>2, ListTypes DEF SInv, UserInv, Listed, lists, scheduler
  <2> QED BY <2>1, <2>3, SafetyFrames DEF SInv, scheduler, timerTask
<1>2. ASSUME EndTask(u) PROVE SInv'
  <2>1. state[u] = "aborted"
    BY <1>2 DEF EndTask, SInv, UserInv
  <2>2. /\ state' = [state EXCEPT ![u] = "free"]
        /\ UNCHANGED <<now, halted, tasks_m, waiters, armed, scheduler, lists,
                       nodes, deadline, timer, timerTask>>
    BY <1>2, <2>1 DEF EndTask, kernel
  <2>3. UserInv'
    BY <2>1, <2>2, ListTypes DEF SInv, UserInv, Listed, lists, scheduler
  <2> QED BY <2>2, <2>3, SafetyFrames DEF SInv, scheduler, timerTask
<1> QED BY <1>1, <1>2 DEF UserStep

LEMMA InterruptSafe ==
  ASSUME TypeInv, SInv, Tick \/ SerialDrained \/ ButtonPress,
         CreationFailed => CreationFailed'
  PROVE  SInv'
<1>1. ASSUME Tick PROVE SInv'
  <2>1. /\ now' = now + 1 /\ now \in Nat
        /\ UNCHANGED <<halted, tasks_m, waiters, armed, scheduler, lists, table, timerTask>>
    BY <1>1 DEF Tick, TypeInv, TypeOK
  <2>2. CallbackInv'
    <3>1. expired # NONE => expired \in Users /\ deadline[expired] \in Nat
      BY ListTypes DEF TypeInv, TypeOK
    <3> QED BY <2>1, <3>1 DEF SInv, CallbackInv, scheduler, lists, table, timerTask
  <2> QED BY <2>1, <2>2, SafetyFrames DEF SInv, scheduler, table, timerTask
<1>2. ASSUME SerialDrained PROVE SInv'
  <2>1. /\ \/ tpc = "print_overdue" /\ tpc' = "move_overdue"
           \/ tpc = "print_tasks" /\ tpc' = "unlock_monitor"
           \/ tpc = "print_stats" /\ tpc' = "rearm_monitor"
        /\ expired' = expired
        /\ UNCHANGED <<now, halted, tasks_m, waiters, armed, scheduler, lists, table>>
    BY <1>2 DEF SerialDrained
  <2>2. LockInv'
    BY <2>1 DEF SInv, LockInv, scheduler
  <2>3. CallbackInv'
    BY <2>1 DEF SInv, CallbackInv, scheduler, lists, table
  <2> QED BY <2>1, <2>2, <2>3, SafetyFrames DEF SInv, scheduler, table
<1>3. ASSUME ButtonPress PROVE SInv'
  <2>1. /\ halted' \in {halted, "button assert"}
        /\ UNCHANGED <<now, tasks_m, waiters, armed, scheduler, lists, table, timerTask>>
    BY <1>3 DEF ButtonPress, kernel
  <2>2. HaltInv'
    BY <2>1 DEF SInv, HaltInv, scheduler
  <2> QED BY <2>1, <2>2, SafetyFrames DEF SInv, scheduler, table, timerTask
<1> QED BY <1>1, <1>2, <1>3

-----------------------------------------------------------------------------
(***************************************************************************)
(* The inductive invariant.                                                *)
(***************************************************************************)
SafetyInv == TypeInv /\ UserPlace /\ SInv

LEMMA InitSafe == Init => SafetyInv
<1> SUFFICES ASSUME Init PROVE SafetyInv
  OBVIOUS
<1>1. TypeInv /\ UserPlace
  BY InitTypes
<1>2. /\ Tasks(active_tasks) = {} /\ Tasks(overdue_tasks) = {}
      /\ SortedByDeadline(active_tasks, deadline) /\ NoDuplicates(active_tasks)
      /\ SortedByDeadline(overdue_tasks, deadline) /\ NoDuplicates(overdue_tasks)
  BY DEF Init, Tasks, ToSet, SortedByDeadline, NoDuplicates
<1>3. Listed = {}
  BY <1>2 DEF Listed
<1>4. LockInv
  BY <1>1, ListTypes DEF Init, LockInv
<1>5. UserInv
  BY <1>3 DEF Init, UserInv
<1>6. NodeInv
  BY <1>3 DEF Init, NodeInv, NoNodeLost
<1>7. ListsWellFormed
  BY <1>2 DEF ListsWellFormed
<1>8. TimerInv
  <2>1. armed \ {MON} = {}
    BY DEF Init
  <2> QED BY <1>2, <2>1 DEF Init, TimerInv, TimersMatchLists
<1>9. CallbackInv
  BY <1>1, ListTypes DEF Init, CallbackInv
<1>10. HaltInv
  BY DEF Init, HaltInv
<1> QED BY <1>1, <1>4, <1>5, <1>6, <1>7, <1>8, <1>9, <1>10 DEF SafetyInv, SInv

LEMMA NextSafe == SafetyInv /\ [Next]_vars => SafetyInv'
<1> SUFFICES ASSUME TypeInv, UserPlace, SInv, [Next]_vars PROVE SafetyInv'
  BY DEF SafetyInv
<1>1. TypeInv' /\ UserPlace'
  BY TypeInvStep
<1>2. ASSUME Next PROVE SInv'
  BY <1>2, FailureStays, SchedulerSafe, TimerSafe, GeneratorSafe, UserSafe, InterruptSafe DEF Next
<1>3. ASSUME UNCHANGED vars PROVE SInv'
  <2>1. CreationFailed' <=> CreationFailed
    BY <1>3 DEF vars, kernel, generator, CreationFailed
  <2> QED BY <1>3, <2>1, UntouchedSafe DEF vars, kernel, table
<1> QED BY <1>1, <1>2, <1>3 DEF SafetyInv

LEMMA AlwaysSafe == Spec => []SafetyInv
BY InitSafe, NextSafe, PTL DEF Spec

(* The two assertions that can fail are the generator's and the button     *)
(* handler's: a finished task never comes back to the assertion after its  *)
(* dd_delete, update_priorities never fails, the monitor never finds       *)
(* tasks_m its own and deadline_overdue never inserts NULL.                *)
THEOREM AssertionsHold == Spec => []NoOtherAssertFails
<1>1. SafetyInv => NoOtherAssertFails
  BY DEF SafetyInv, SInv, HaltInv, NoOtherAssertFails
<1> QED BY <1>1, AlwaysSafe, PTL

(* tasks_m is free of the scheduler whenever it receives a request, and    *)
(* the timer task owns it only inside update_monitor.                      *)
THEOREM LockReleased == Spec => []LockNotLeaked
<1>1. SafetyInv => LockNotLeaked
  BY DEF SafetyInv, SInv, LockInv, LockNotLeaked
<1> QED BY <1>1, AlwaysSafe, PTL

(* The list node of a running deadline callback has not been freed.        *)
THEOREM CallbackSafe == Spec => []CallbackNodeAlive
<1>1. SafetyInv => CallbackNodeAlive
  BY DEF SafetyInv, SInv, CallbackInv, NodeInv, NoNodeLost, Listed, CallbackNodeAlive
<1> QED BY <1>1, AlwaysSafe, PTL

(* Deadline timers are pending exactly for the active list's tasks.        *)
THEOREM TimersCorrect == Spec => []TimersMatchLists
<1>1. SafetyInv => TimersMatchLists
  BY DEF SafetyInv, SInv, TimerInv
<1> QED BY <1>1, AlwaysSafe, PTL

(* The lists are sorted, without duplicates and disjoint.                  *)
THEOREM ListsCorrect == Spec => []ListsWellFormed
<1>1. SafetyInv => ListsWellFormed
  BY DEF SafetyInv, SInv
<1> QED BY <1>1, AlwaysSafe, PTL

(* No list node is freed while linked, and none is lost.                   *)
THEOREM NodesCorrect == Spec => []NoNodeLost
<1>1. SafetyInv => NoNodeLost
  BY DEF SafetyInv, SInv, NodeInv
<1> QED BY <1>1, AlwaysSafe, PTL

(* Nobody changes the lists while the monitor, having locked them, walks   *)
(* them: every step that does has MayLock's permission.                    *)
THEOREM MonitorSeesStableLists == Spec => ListsStableForMonitor
<1>1. SafetyInv /\ [Next]_vars => [tasks_m = T /\ tpc # "lock_monitor" => UNCHANGED lists]_vars
  <2> SUFFICES ASSUME SafetyInv, Next, tasks_m = T, tpc # "lock_monitor"
               PROVE  UNCHANGED lists
    OBVIOUS
  <2>1. ~MayLock(S) /\ tpc # "move_overdue"
    BY ListTypes DEF SafetyInv, SInv, LockInv, MayLock
  <2>2. ASSUME SchedulerStep PROVE UNCHANGED lists
    BY <2>1, <2>2 DEF SchedulerStep, ServeTaskList, CreateFails, StartTimer,
       SchedulerWaits, AddActive, DeleteActive, DeleteOverdue, CancelTimer,
       UpdateOverdue, UpdateActive, CreateTask, CreateWithoutTimer, ReceiveDelete
  <2>3. ASSUME TimerStep PROVE UNCHANGED lists
    BY <2>1, <2>3 DEF TimerStep, FireMonitor, PostEntries, WaitForTick,
       TimerTaskWaits, MoveOverdue, LockMonitor, AskOverdue, PrintTasks,
       UnlockMonitor, RearmMonitor, FireDeadline
  <2>4. ASSUME GeneratorStep PROVE UNCHANGED lists
    BY <2>4 DEF GeneratorStep, PollPresses, DelayGenerator, ReleaseDone, ReleaseTask
  <2>5. ASSUME NEW u \in Users, UserStep(u) PROVE UNCHANGED lists
    BY <2>5 DEF UserStep, FinishTask, EndTask
  <2>6. ASSUME Tick \/ SerialDrained \/ ButtonPress PROVE UNCHANGED lists
    BY <2>6 DEF Tick, SerialDrained, ButtonPress
  <2> QED BY <2>2, <2>3, <2>4, <2>5, <2>6 DEF Next
<1> QED BY <1>1, AlwaysSafe, PTL DEF Spec, ListsStableForMonitor
-----------------------------------------------------------------------------
(***************************************************************************)
(* DDScheduler implements TaskLifecycle: what the scheduler, the timer     *)
(* task and the generator do step by step to the lists and the nodes are,  *)
(* seen from the lists, admissions, misses, completions and ticks.         *)
(***************************************************************************)
active == Tasks(active_tasks)
overdue == Tasks(overdue_tasks)
due == [u \in Users |-> IF u \in Listed THEN deadline[u] ELSE 0]

(* A step that changes neither the clock nor the lists, and no deadline of *)
(* a listed task, is a stutter.                                            *)
LEMMA Stutters ==
  ASSUME now' = now, active_tasks' = active_tasks, overdue_tasks' = overdue_tasks,
         \A u \in Listed : deadline'[u] = deadline[u]
  PROVE  UNCHANGED <<now, active, overdue, due>>
<1>1. Listed' = Listed
  BY DEF Listed
<1>2. due' = due
  BY <1>1 DEF due
<1> QED BY <1>2 DEF active, overdue

(* A task off the lists has no promised deadline.                          *)
LEMMA CompleteStep ==
  ASSUME TypeInv, SInv, NEW u \in Listed, now' = now,
         active' = active \ {u}, overdue' = overdue \ {u},
         \A v \in Listed : v # u => deadline'[v] = deadline[v]
  PROVE  Lifecycle!Complete(u)
<1>1. Listed' = Listed \ {u} /\ Listed \subseteq Users
  BY ListTypes DEF Listed, active, overdue
<1>2. due' = [due EXCEPT ![u] = 0]
  BY <1>1 DEF due
<1> QED BY <1>1, <1>2 DEF Lifecycle!Complete, active, overdue, due, Listed

LEMMA AddActiveAdmits ==
  ASSUME TypeInv, SInv, AddActive
  PROVE  \E u \in Users : Lifecycle!Admit(u)
<1>1. /\ node \in Users /\ node \notin Listed
      /\ active_tasks' = AddTask(active_tasks, node, deadline)
      /\ overdue_tasks' = overdue_tasks /\ deadline' = deadline /\ now' = now
  BY DEF AddActive, SInv, UserInv, TypeInv, Served, table
<1>2. PICK u \in Users : u = node
  BY <1>1
<1>3. active' = active \cup {u} /\ overdue' = overdue
  <2>1. Tasks(AddTask(active_tasks, node, deadline)) = Tasks(active_tasks) \cup {node}
    <3>1. /\ active_tasks \in Seq(Users) /\ node \in Users
          /\ deadline \in [Users -> Nat]
      BY <1>1, ListTypes
    <3> QED BY ONLY <3>1, AddTaskProperties
  <2> QED BY <1>1, <1>2, <2>1 DEF active, overdue
<1>4. Listed' = Listed \cup {u}
  BY <1>3 DEF Listed, active, overdue
<1>5. due' = [due EXCEPT ![u] = due'[u]] /\ due'[u] \in Nat
  BY <1>1, <1>2, <1>4, ListTypes DEF due
<1>6. Lifecycle!Admit(u)
  BY <1>1, <1>2, <1>3, <1>5 DEF Lifecycle!Admit, active, overdue, due, Listed
<1> QED BY <1>6

(* delete_task on the active list completes the task, or finds nothing.    *)
LEMMA DeleteActiveCompletes ==
  ASSUME TypeInv, SInv, DeleteActive
  PROVE  \/ \E u \in Users : Lifecycle!Complete(u)
         \/ UNCHANGED <<now, active, overdue, due>>
<1>1. /\ now' = now /\ overdue_tasks' = overdue_tasks /\ client \in Listed
      /\ client \in Users /\ T \notin waiters
  BY SchedulerRunning, ListTypes DEF DeleteActive, SInv, UserInv
<1>2. CASE client \in Tasks(active_tasks)
  <2>1. timer[client] /\ client \notin Tasks(overdue_tasks) /\ NoDuplicates(active_tasks)
    BY <1>1, <1>2 DEF SInv, TimerInv, ListsWellFormed
  <2>2. deadline' = deadline /\ active_tasks' = DeleteTask(active_tasks, client)
    BY <1>2, <2>1 DEF DeleteActive, CancelOrFree
  <2>3. PICK u \in Listed : u = client /\ u \in Users
    BY <1>1
  <2>4. active' = active \ {u} /\ overdue' = overdue \ {u}
    <3>1. Tasks(DeleteTask(active_tasks, client)) = Tasks(active_tasks) \ {client}
      BY <1>2, <2>1, ListTypes, DeleteTaskProperties
    <3> QED BY <1>1, <2>1, <2>2, <2>3, <3>1 DEF active, overdue
  <2>5. Lifecycle!Complete(u)
    BY <1>1, <2>2, <2>4, CompleteStep
  <2> QED BY <2>3, <2>5
<1>3. CASE client \notin Tasks(active_tasks)
  BY <1>1, <1>3, Stutters DEF DeleteActive
<1> QED BY <1>2, <1>3

LEMMA DeleteOverdueCompletes ==
  ASSUME TypeInv, SInv, DeleteOverdue
  PROVE  \E u \in Users : Lifecycle!Complete(u)
<1>1. /\ client \in Users /\ client \in Tasks(overdue_tasks) /\ client \in Listed
      /\ client \notin Tasks(active_tasks) /\ NoDuplicates(overdue_tasks)
      /\ ~timer[client]
  BY ListTypes DEF DeleteOverdue, SInv, UserInv, ListsWellFormed, TimerInv,
     TimersMatchLists, Listed
<1>2. /\ now' = now /\ active_tasks' = active_tasks
      /\ overdue_tasks' = DeleteTask(overdue_tasks, client)
      /\ deadline' = [deadline EXCEPT ![client] = 0]
  BY <1>1 DEF DeleteOverdue, CancelOrFree, FreeNode
<1>3. PICK u \in Listed : u = client /\ u \in Users
  BY <1>1
<1>4. active' = active \ {u} /\ overdue' = overdue \ {u}
  <2>1. Tasks(DeleteTask(overdue_tasks, client)) = Tasks(overdue_tasks) \ {client}
    BY <1>1, ListTypes, DeleteTaskProperties
  <2> QED BY <1>1, <1>2, <1>3, <2>1 DEF active, overdue
<1>5. \A v \in Listed : v # u => deadline'[v] = deadline[v]
  BY <1>2, <1>3, ListTypes
<1>6. Lifecycle!Complete(u)
  BY <1>2, <1>4, <1>5, CompleteStep
<1> QED BY <1>3, <1>6

LEMMA MoveOverdueMisses ==
  ASSUME TypeInv, SInv, MoveOverdue
  PROVE  \E u \in Users : Lifecycle!Miss(u)
<1>1. /\ MayLock(T) /\ tpc = "move_overdue" /\ now' = now /\ deadline' = deadline
      /\ Runs(T)
  BY DEF MoveOverdue
<1>2. /\ expired \in Users /\ expired \in Tasks(active_tasks)
      /\ deadline[expired] <= now /\ NoDuplicates(active_tasks)
  BY <1>1, ListTypes DEF SInv, CallbackInv, LockInv, MayLock, ListsWellFormed
<1>3. /\ active_tasks' = DeleteTask(active_tasks, expired)
      /\ overdue_tasks' = AddTask(overdue_tasks, expired, deadline)
  BY <1>2 DEF MoveOverdue
<1>4. PICK u \in Users : u = expired
  BY <1>2
<1>5. active' = active \ {u} /\ overdue' = overdue \cup {u}
  <2>1. /\ active_tasks \in Seq(Users) /\ overdue_tasks \in Seq(Users)
        /\ deadline \in [Users -> Nat]
    BY ListTypes
  <2>2. Tasks(DeleteTask(active_tasks, expired)) = Tasks(active_tasks) \ {expired}
    BY <1>2, <2>1, DeleteTaskProperties
  <2>3. Tasks(AddTask(overdue_tasks, expired, deadline)) = Tasks(overdue_tasks) \cup {expired}
    BY ONLY <1>2, <2>1, AddTaskProperties
  <2> QED BY <1>3, <1>4, <2>2, <2>3 DEF active, overdue
<1>6. Listed' = Listed /\ u \in Listed
  BY <1>2, <1>4, <1>5 DEF Listed, active, overdue
<1>7. due' = due /\ due[u] <= now
  BY <1>1, <1>2, <1>4, <1>6 DEF due
<1>8. Lifecycle!Miss(u)
  BY <1>1, <1>2, <1>4, <1>5, <1>7 DEF Lifecycle!Miss, active, overdue, due, Listed
<1> QED BY <1>8

(* The steps of the scheduler that do not change a list.                   *)
LEMMA SchedulerLifecycle ==
  ASSUME TypeInv, SInv, SchedulerStep
  PROVE  Lifecycle!Next \/ UNCHANGED <<now, active, overdue, due>>
<1>1. ASSUME ServeTaskList \/ CreateFails \/ StartTimer \/ SchedulerWaits
             \/ UpdateOverdue \/ UpdateActive
      PROVE  UNCHANGED <<now, active, overdue, due>>
  BY <1>1, Stutters DEF ServeTaskList, CreateFails, StartTimer, SchedulerWaits,
     UpdateOverdue, UpdateActive, lists, table
<1>2. ASSUME NEW u \in Users, CreateTask(u)
      PROVE  UNCHANGED <<now, active, overdue, due>>
  <2>1. u \notin Listed
    BY <1>2 DEF CreateTask, FreeTasks, SInv, UserInv
  <2> QED BY <1>2, <2>1, ListTypes, Stutters DEF CreateTask, lists
<1>3. ASSUME NEW u \in Users, ReceiveDelete(u)
      PROVE  UNCHANGED <<now, active, overdue, due>>
  BY <1>3, Stutters DEF ReceiveDelete, lists, table
<1>4. ASSUME CancelTimer PROVE UNCHANGED <<now, active, overdue, due>>
  <2>1. node \notin Listed
    BY <1>4 DEF CancelTimer, TypeInv, Served, SInv, UserInv
  <2>2. deadline' \in {deadline, [deadline EXCEPT ![node] = 0]}
    BY <1>4 DEF CancelTimer, FreeNode
  <2> QED BY <1>4, <2>1, <2>2, ListTypes, Stutters DEF CancelTimer, lists
<1>5. ASSUME AddActive \/ DeleteActive \/ DeleteOverdue
      PROVE  Lifecycle!Next \/ UNCHANGED <<now, active, overdue, due>>
  BY <1>5, AddActiveAdmits, DeleteActiveCompletes, DeleteOverdueCompletes
     DEF Lifecycle!Next
<1>6. ASSUME NEW u \in Users, CreateWithoutTimer(u)
      PROVE  UNCHANGED <<now, active, overdue, due>>
  BY <1>6, Stutters DEF CreateWithoutTimer, lists
<1> QED BY <1>1, <1>2, <1>3, <1>4, <1>5, <1>6 DEF SchedulerStep

LEMMA NextLifecycle ==
  ASSUME TypeInv, SInv, [Next]_vars
  PROVE  Lifecycle!Next \/ UNCHANGED <<now, active, overdue, due>>
<1>1. ASSUME TimerStep
      PROVE  Lifecycle!Next \/ UNCHANGED <<now, active, overdue, due>>
  <2>1. CASE MoveOverdue
    BY <2>1, MoveOverdueMisses DEF Lifecycle!Next
  <2>2. CASE ~MoveOverdue
    BY <1>1, <2>2, Stutters DEF TimerStep, FireMonitor, PostEntries, WaitForTick,
       TimerTaskWaits, LockMonitor, AskOverdue, PrintTasks, UnlockMonitor,
       RearmMonitor, FireDeadline, lists, table
  <2> QED BY <2>1, <2>2
<1>2. ASSUME GeneratorStep PROVE UNCHANGED <<now, active, overdue, due>>
  BY <1>2, Stutters DEF GeneratorStep, PollPresses, DelayGenerator, ReleaseDone,
     ReleaseTask, lists, table
<1>3. ASSUME NEW u \in Users, UserStep(u) PROVE UNCHANGED <<now, active, overdue, due>>
  BY <1>3, Stutters DEF UserStep, FinishTask, EndTask, lists
<1>4. ASSUME Tick PROVE Lifecycle!Next
  <2>1. Listed' = Listed
    BY <1>4 DEF Tick, lists, Listed
  <2> QED BY <1>4, <2>1 DEF Tick, lists, table, Lifecycle!Next, Lifecycle!Tick
<1>5. ASSUME SerialDrained \/ ButtonPress PROVE UNCHANGED <<now, active, overdue, due>>
  BY <1>5, Stutters DEF SerialDrained, ButtonPress, lists, table
<1>6. ASSUME UNCHANGED vars PROVE UNCHANGED <<now, active, overdue, due>>
  BY <1>6, Stutters DEF vars, lists, table
<1> QED BY <1>1, <1>2, <1>3, <1>4, <1>5, <1>6, SchedulerLifecycle DEF Next

(* The scheduler keeps TaskLifecycle's promise: a listed task's deadline   *)
(* is fixed, it becomes overdue only once its deadline has come, never     *)
(* becomes active again, and leaves only through dd_delete.                *)
THEOREM LifecycleImplemented == Spec => ImplementsLifecycle
<1>1. Init => Lifecycle!Init
  <2> SUFFICES ASSUME Init PROVE Lifecycle!Init
    OBVIOUS
  <2>1. Tasks(active_tasks) = {} /\ Tasks(overdue_tasks) = {}
    BY DEF Init, Tasks, ToSet
  <2>2. Listed = {}
    BY <2>1 DEF Listed
  <2> QED BY <2>1, <2>2 DEF Init, Lifecycle!Init
<1>2. SafetyInv /\ [Next]_vars =>
        [Lifecycle!Next]_<<now, Tasks(active_tasks), Tasks(overdue_tasks),
                           [u \in Users |-> IF u \in Listed THEN deadline[u] ELSE 0]>>
  BY NextLifecycle DEF SafetyInv, active, overdue, due
<1> QED BY <1>1, <1>2, AlwaysSafe, PTL DEF Spec, ImplementsLifecycle, Lifecycle!Spec
=============================================================================
