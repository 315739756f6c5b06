---------------------- MODULE DDSchedulerTiming_proofs ----------------------
(***************************************************************************)
(* Who will wake whom, and when: no wake-up is lost; and when each tick's  *)
(* work is done before the next, all of it is on time.                     *)
(***************************************************************************)
EXTENDS DDSchedulerPriority_proofs

-----------------------------------------------------------------------------
(***************************************************************************)
(* No wake-up is lost.  TypeInv says that each task waits in one place at  *)
(* most, NoLostWakeup that it is in one while it waits.                    *)
(***************************************************************************)
UsersAwaited ==
  \A u \in Users : state[u] = "receiving" => u \in Tasks(msg_q) \cup {client}

LockAwaited == waiters # {} => tasks_m # NONE

LEMMA WakeupParts ==
  NoLostWakeup <=> GeneratorAwaited /\ TimerTaskAwaited /\ UsersAwaited /\ LockAwaited
BY DEF NoLostWakeup, UsersAwaited, LockAwaited

LEMMA UnlockAwaited ==
  ASSUME TypeInv, UnlockTasks
  PROVE  LockAwaited'
<1>1. NONE \notin waiters
  BY ListTypes DEF TypeInv, TypeOK
<1> QED BY <1>1 DEF UnlockTasks, LockAwaited

(* What a step of the scheduler does to those who wait: it readies tasks,  *)
(* and a request it takes it answers or serves.                            *)
LEMMA SchedulerWakes ==
  ASSUME TypeInv, SInv, SchedulerStep
  PROVE  /\ Tasks(ready) \subseteq Tasks(ready')
         /\ \A c \in Tasks(msg_q) : c \in Tasks(msg_q') \cup Tasks(ready') \cup {client'}
         /\ client = G => G \in Tasks(ready') \cup {client'}
         /\ T \in Tasks(msg_q) => T \in Tasks(msg_q') \cup Tasks(ready')
         /\ T \in waiters => T \in Tasks(ready') \cup waiters'
         /\ \A u \in Users : state'[u] = "receiving" =>
              /\ state[u] = "receiving"
              /\ u \in Tasks(msg_q) => u \in Tasks(msg_q') \cup {client'}
              /\ u = client => u = client'
         /\ UNCHANGED <<gpc, tpc, ticked>>
<1> DEFINE Goal == 
      /\ Tasks(ready) \subseteq Tasks(ready')
      /\ \A c \in Tasks(msg_q) : c \in Tasks(msg_q') \cup Tasks(ready') \cup {client'}
      /\ client = G => G \in Tasks(ready') \cup {client'}
      /\ T \in Tasks(msg_q) => T \in Tasks(msg_q') \cup Tasks(ready')
      /\ T \in waiters => T \in Tasks(ready') \cup waiters'
      /\ \A u \in Users : state'[u] = "receiving" =>
           /\ state[u] = "receiving"
           /\ u \in Tasks(msg_q) => u \in Tasks(msg_q') \cup {client'}
           /\ u = client => u = client'
      /\ UNCHANGED <<gpc, tpc, ticked>>
<1>0. /\ ready \in Seq({T, G}) /\ NoDuplicates(ready) /\ state \in [Users -> UserStates]
      /\ client \in Clients \cup {NONE} /\ waiters \subseteq {S, T}
  BY DEF TypeInv, TypeOK, QueuesDistinct
<1>1. ASSUME ServeTaskList PROVE Goal
  <2>1. T \in Tasks(msg_q) /\ Tasks(msg_q') = Tasks(msg_q) \ {T}
    BY <1>1, ReceiveTasks DEF ServeTaskList
  <2>2. Tasks(ready') = Tasks(ready) \cup {T}
    BY <1>0, <1>1, <2>1, ReadyAppend DEF ServeTaskList, Respond, TypeInv, TimerTaskPlace
  <2> QED BY <1>1, <2>1, <2>2, ListTypes DEF ServeTaskList, scheduler, table, timerTask,
          generator
<1>2. ASSUME CreateFails PROVE Goal
  <2>1. G \in Tasks(msg_q) /\ Tasks(msg_q') = Tasks(msg_q) \ {G}
    BY <1>2, ReceiveTasks DEF CreateFails
  <2>2. Tasks(ready') = Tasks(ready) \cup {G}
    BY <1>0, <1>2, <2>1, ReadyAppend DEF CreateFails, Respond, TypeInv, GeneratorPlace
  <2> QED BY <1>2, <2>1, <2>2, ListTypes DEF CreateFails, scheduler, table, timerTask
<1>3. ASSUME NEW u \in Users, CreateTask(u) PROVE Goal
  <2>1. /\ G \in Tasks(msg_q) /\ Tasks(msg_q') = Tasks(msg_q) \ {G}
        /\ spc = "receive" /\ client' = G
    BY <1>3, ReceiveTasks DEF CreateTask, Receive
  <2>2. \A v \in Users : state'[v] = "receiving" => state[v] = "receiving"
    BY <1>0, <1>3 DEF CreateTask
  <2>3. client = NONE
    BY <2>1 DEF TypeInv, Served
  <2> QED BY <1>3, <2>1, <2>2, <2>3, ListTypes DEF CreateTask, timerTask, generator
<1>4. ASSUME NEW u \in Users, ReceiveDelete(u) PROVE Goal
  <2>1. /\ u \in Tasks(msg_q) /\ Tasks(msg_q') = Tasks(msg_q) \ {u}
        /\ spc = "receive" /\ client' = u
    BY <1>4, ReceiveTasks DEF ReceiveDelete, Receive
  <2>2. client = NONE
    BY <2>1 DEF TypeInv, Served
  <2> QED BY <1>4, <2>1, <2>2, ListTypes DEF ReceiveDelete, table, timerTask, generator
<1>5. ASSUME UpdateActive PROVE Goal
  <2>1. /\ client \in {G} \cup Users /\ client' = NONE /\ msg_q' = msg_q
        /\ UNCHANGED <<gpc, tpc, ticked>>
    BY <1>5 DEF UpdateActive, EndRequest, timerTask, TypeInv, Served
  <2>2. CASE client = G
    <3>1. /\ Respond(UnlockReadies \o <<G>>) /\ state' = state
      BY <1>5, <2>2, ListTypes DEF UpdateActive
    <3>2. G \notin Tasks(ready)
      BY <2>2 DEF TypeInv, GeneratorPlace
    <3>3. Tasks(ready') = Tasks(ready) \cup (waiters \cap {T}) \cup {G}
      BY <3>1, <3>2, AnswerGeneratorTasks
    <3> QED BY <2>1, <2>2, <3>1, <3>3, ListTypes
  <2>3. CASE client \in Users
    <3>1. /\ Respond(UnlockReadies) /\ state' = [state EXCEPT ![client] = "aborted"]
      BY <1>5, <2>3, ListTypes DEF UpdateActive
    <3>2. Tasks(ready') = Tasks(ready) \cup (waiters \cap {T})
      BY <3>1, UnlockReadiesTasks
    <3> QED BY <1>0, <2>1, <2>3, <3>1, <3>2, ListTypes
  <2> QED BY <2>1, <2>2, <2>3
<1>6. ASSUME UNCHANGED <<msg_q, gpc, tpc, ticked, client, state>>,
             \/ UNCHANGED <<ready, waiters>>
             \/ ready' = ready /\ waiters \subseteq waiters'
             \/ Respond(UnlockReadies)
      PROVE  Goal
  <2>1. /\ Tasks(ready) \subseteq Tasks(ready')
        /\ T \in waiters => T \in Tasks(ready') \cup waiters'
    BY <1>6, UnlockReadiesTasks
  <2> QED BY <1>6, <2>1
<1>7. ASSUME AddActive \/ UpdateOverdue \/ StartTimer \/ SchedulerWaits PROVE Goal
  BY <1>6, <1>7 DEF AddActive, UpdateOverdue, StartTimer, SchedulerWaits, scheduler,
     table, timerTask, generator
<1>8. ASSUME DeleteActive PROVE Goal
  BY <1>6, <1>8 DEF DeleteActive, LeaveDelete, timerTask, generator
<1>9. ASSUME DeleteOverdue PROVE Goal
  <2>1. client \in Tasks(overdue_tasks)
    BY <1>9 DEF DeleteOverdue, SInv, UserInv
  <2> QED BY <1>6, <1>9, <2>1 DEF DeleteOverdue, LeaveDelete, timerTask, generator
<1>10. ASSUME CancelTimer PROVE Goal
  <2>1. node \in armed
    BY <1>10, SchedulerRunning, ListTypes DEF CancelTimer, SInv, TimerInv, TypeInv, Served
  <2> QED BY <1>6, <1>10, <2>1 DEF CancelTimer, timerTask, generator
<1>11. ASSUME NEW u \in Users, CreateWithoutTimer(u) PROVE Goal
  <2>1. G \in Tasks(msg_q) /\ Tasks(msg_q') = Tasks(msg_q) \ {G}
    BY <1>11, ReceiveTasks DEF CreateWithoutTimer
  <2>2. Tasks(ready') = Tasks(ready) \cup {G}
    BY <1>0, <1>11, <2>1, ReadyAppend DEF CreateWithoutTimer, Respond, TypeInv,
       GeneratorPlace
  <2>3. \A v \in Users : state'[v] = "receiving" => state[v] = "receiving"
    BY <1>0, <1>11 DEF CreateWithoutTimer
  <2> QED BY <1>11, <2>1, <2>2, <2>3, ListTypes DEF CreateWithoutTimer, scheduler,
          timerTask
<1> HIDE DEF Goal
<1>12. Goal
  BY <1>1, <1>2, <1>3, <1>4, <1>5, <1>7, <1>8, <1>9, <1>10, <1>11 DEF SchedulerStep
<1> QED BY <1>12 DEF Goal

LEMMA SchedulerWakeups ==
  ASSUME TypeInv, SInv, NoLostWakeup, SchedulerStep
  PROVE  NoLostWakeup'
<1>1. GeneratorAwaited'
  BY SchedulerWakes DEF NoLostWakeup, GeneratorAwaited
<1>2. TimerTaskAwaited'
  BY SchedulerWakes DEF NoLostWakeup, TimerTaskAwaited
<1>3. UsersAwaited'
  BY SchedulerWakes DEF NoLostWakeup, UsersAwaited
<1>4. LockAwaited'
  <2>1. Runs(S)
    BY DEF SchedulerStep, ServeTaskList, CreateFails, StartTimer, SchedulerWaits,
       AddActive, DeleteActive, DeleteOverdue, CancelTimer, UpdateOverdue, UpdateActive,
       CreateTask, CreateWithoutTimer, ReceiveDelete, Receive
  <2>2. ASSUME UNCHANGED <<tasks_m, waiters>> PROVE LockAwaited'
    BY <2>2 DEF NoLostWakeup, LockAwaited
  <2>3. ASSUME SchedulerWaits PROVE LockAwaited'
    BY <2>3 DEF SchedulerWaits, MayLock, LockAwaited
  <2>4. ASSUME UnlockTasks \/ (tasks_m' = S /\ UNCHANGED waiters) PROVE LockAwaited'
    BY <2>4, UnlockAwaited, ListTypes DEF LockAwaited
  <2>5. ASSUME DeleteActive \/ DeleteOverdue PROVE LockAwaited'
    BY <2>4, <2>5 DEF DeleteActive, DeleteOverdue, LeaveDelete
  <2>6. ASSUME AddActive \/ UpdateOverdue \/ UpdateActive PROVE LockAwaited'
    BY <2>4, <2>6 DEF AddActive, UpdateOverdue, UpdateActive, UpdateList
  <2> QED BY <2>2, <2>3, <2>5, <2>6 DEF SchedulerStep, ServeTaskList, CreateFails,
          StartTimer, CancelTimer, CreateTask, CreateWithoutTimer, ReceiveDelete
<1> QED BY <1>1, <1>2, <1>3, <1>4, WakeupParts DEF NoLostWakeup, UsersAwaited, LockAwaited

(* The timer task stops only for tasks_m, for an answer to a question it   *)
(* has asked, for the serial line, or for a tick.                          *)
LEMMA TimerWakeups ==
  ASSUME TypeInv, SInv, NoLostWakeup, TimerStep
  PROVE  NoLostWakeup'
<1>1. Runs(T) /\ UNCHANGED <<gpc, client, state>>
  BY DEF TimerStep, FireMonitor, FireDeadline, Fires, PostEntries, WaitForTick,
     TimerTaskWaits, MoveOverdue, LockMonitor, AskOverdue, PrintTasks,
     UnlockMonitor, RearmMonitor, scheduler, table, generator
<1>2. /\ T \in Tasks(ready) /\ Tasks(Tail(ready)) = Tasks(ready) \ {T} /\ T \notin waiters
      /\ Tasks(Append(msg_q, T)) = Tasks(msg_q) \cup {T}
  BY <1>1, RunningIsReady, RequestTasks DEF TypeInv, TimerTaskPlace
<1>3. ready' \in {ready, Tail(ready)} /\ msg_q' \in {msg_q, Append(msg_q, T)}
  BY DEF TimerStep, FireMonitor, FireDeadline, PostEntries, WaitForTick,
     TimerTaskWaits, MoveOverdue, LockMonitor, AskOverdue, PrintTasks,
     UnlockMonitor, RearmMonitor, kernel, PrintThen, Ask
<1>4. GeneratorAwaited' /\ UsersAwaited'
  BY <1>1, <1>2, <1>3, ListTypes DEF NoLostWakeup, GeneratorAwaited, UsersAwaited
<1>5. TimerTaskAwaited'
  <2>1. ASSUME ready' = ready, tpc' \notin {"ask_active", "ask_overdue"},
               tpc' = "wait" => ticked' = FALSE
        PROVE  TimerTaskAwaited'
    BY <1>2, <2>1 DEF TimerTaskAwaited
  <2>2. ASSUME tpc' \in {"ask_active", "ask_overdue"}, msg_q' = Append(msg_q, T)
        PROVE  TimerTaskAwaited'
    BY <1>2, <2>2 DEF TimerTaskAwaited
  <2>3. ASSUME tpc' \in Printing PROVE TimerTaskAwaited'
    BY <2>3 DEF TimerTaskAwaited, Printing
  <2>4. ASSUME FireMonitor \/ PostEntries \/ MoveOverdue \/ RearmMonitor
        PROVE  TimerTaskAwaited'
    BY <2>1, <2>4 DEF FireMonitor, PostEntries, MoveOverdue, RearmMonitor, kernel
  <2>5. ASSUME NEW u \in Users, FireDeadline(u) PROVE TimerTaskAwaited'
    BY <2>1, <2>3, <2>5 DEF FireDeadline, PrintThen, Printing
  <2>6. ASSUME PrintTasks \/ UnlockMonitor PROVE TimerTaskAwaited'
    BY <2>1, <2>3, <2>6 DEF PrintTasks, UnlockMonitor, PrintThen, Printing
  <2>7. ASSUME LockMonitor \/ AskOverdue PROVE TimerTaskAwaited'
    BY <2>2, <2>7 DEF LockMonitor, AskOverdue, Ask
  <2>8. ASSUME WaitForTick PROVE TimerTaskAwaited'
    BY <2>8 DEF WaitForTick, TimerTaskAwaited
  <2>9. ASSUME TimerTaskWaits PROVE TimerTaskAwaited'
    BY <2>9 DEF TimerTaskWaits, TimerTaskAwaited, timerTask
  <2> QED BY <2>4, <2>5, <2>6, <2>7, <2>8, <2>9 DEF TimerStep
<1>6. LockAwaited'
  <2>1. ASSUME UNCHANGED <<tasks_m, waiters>> PROVE LockAwaited'
    BY <2>1 DEF NoLostWakeup, LockAwaited
  <2>2. ASSUME TimerTaskWaits PROVE LockAwaited'
    BY <2>2 DEF TimerTaskWaits, MayLock, LockAwaited
  <2>3. ASSUME LockMonitor PROVE LockAwaited'
    BY <2>3, ListTypes DEF LockMonitor, LockAwaited
  <2>4. ASSUME UnlockTasks PROVE LockAwaited'
    BY <2>4, UnlockAwaited
  <2>5. ASSUME MoveOverdue \/ UnlockMonitor PROVE LockAwaited'
    BY <2>1, <2>4, <2>5 DEF MoveOverdue, UnlockMonitor
  <2> QED BY <2>1, <2>2, <2>3, <2>5 DEF TimerStep, FireMonitor, FireDeadline,
          PostEntries, WaitForTick, AskOverdue, PrintTasks, RearmMonitor, kernel
<1> QED BY <1>4, <1>5, <1>6, WakeupParts DEF NoLostWakeup, UsersAwaited, LockAwaited

LEMMA GeneratorWakeups ==
  ASSUME TypeInv, NoLostWakeup, GeneratorStep
  PROVE  NoLostWakeup'
<1>1. Runs(G) /\ UNCHANGED <<tpc, ticked, client, state, tasks_m, waiters>>
  BY DEF GeneratorStep, PollPresses, DelayGenerator, ReleaseDone, ReleaseTask, kernel,
     scheduler, table, timerTask
<1>2. /\ G \in Tasks(ready) /\ Tasks(Tail(ready)) = Tasks(ready) \ {G}
      /\ Tasks(Append(msg_q, G)) = Tasks(msg_q) \cup {G}
  BY <1>1, RunningIsReady, RequestTasks
<1>3. \/ ready' = ready /\ msg_q' = msg_q /\ gpc' \in {"run", "receive"}
      \/ ready' = Tail(ready) /\ msg_q' = msg_q /\ gpc' = "delay"
      \/ ready' = Tail(ready) /\ msg_q' = Append(msg_q, G) /\ gpc' = "receive"
  BY DEF GeneratorStep, PollPresses, DelayGenerator, ReleaseDone, ReleaseTask,
     RequestTask, kernel
<1>4. GeneratorAwaited'
  BY <1>2, <1>3 DEF GeneratorAwaited
<1>5. TimerTaskAwaited' /\ UsersAwaited' /\ LockAwaited'
  BY <1>1, <1>2, <1>3, ListTypes DEF NoLostWakeup, TimerTaskAwaited, UsersAwaited,
     LockAwaited
<1> QED BY <1>4, <1>5, WakeupParts DEF NoLostWakeup, UsersAwaited, LockAwaited

LEMMA UserWakeups ==
  ASSUME TypeInv, UserPlace, NoLostWakeup, NEW u \in Users, UserStep(u)
  PROVE  NoLostWakeup'
<1>0. state \in [Users -> UserStates] /\ msg_q \in Seq(Clients) /\ u \in Clients
  BY DEF TypeInv, TypeOK, Clients
<1>1. ASSUME FinishTask(u) PROVE NoLostWakeup'
  <2>1. Tasks(msg_q') = Tasks(msg_q) \cup {u}
    BY <1>0, <1>1, AppendTasks DEF FinishTask
  <2>2. /\ state' = [state EXCEPT ![u] = "receiving"]
        /\ UNCHANGED <<ready, tasks_m, waiters, ticked, tpc, gpc, client>>
    BY <1>1 DEF FinishTask, scheduler, timerTask, generator
  <2>3. UsersAwaited'
    BY <1>0, <2>1, <2>2 DEF NoLostWakeup, UsersAwaited
  <2> QED BY <2>1, <2>2, <2>3, WakeupParts DEF NoLostWakeup, GeneratorAwaited,
          TimerTaskAwaited, UsersAwaited, LockAwaited
<1>2. ASSUME EndTask(u) PROVE NoLostWakeup'
  <2>1. /\ state' = [state EXCEPT ![u] = "free"]
        /\ UNCHANGED <<ready, tasks_m, waiters, ticked, msg_q, tpc, gpc, client>>
    BY <1>2 DEF EndTask, kernel, scheduler, timerTask, generator
  <2>2. UsersAwaited'
    BY <1>0, <2>1 DEF NoLostWakeup, UsersAwaited
  <2> QED BY <2>1, <2>2, WakeupParts DEF NoLostWakeup, GeneratorAwaited,
          TimerTaskAwaited, UsersAwaited, LockAwaited
<1> QED BY <1>1, <1>2 DEF UserStep

(* A tick readies the generator, and the timer task or its semaphore.      *)
LEMMA TickReadies ==
  ASSUME TypeInv, SInv, NoLostWakeup, Tick
  PROVE  /\ Tasks(ready) \subseteq Tasks(ready')
         /\ gpc = "delay" => G \in Tasks(ready')
         /\ G \in Tasks(ready') => G \in Tasks(ready) \/ gpc = "delay"
         /\ tpc = "wait" => ticked' = FALSE
<1> DEFINE woken == IF gpc = "delay" THEN <<G>> ELSE <<>>
           posts == /\ \A i \in DOMAIN ready : ready[i] # T
                    /\ \E e \in armed : Expiration(e) <= now + 1
           base == ready \o woken
<1>1. IF posts /\ tpc = "wait" THEN ready' = base \o <<T>> /\ UNCHANGED ticked
      ELSE ready' = base /\ ticked' = (ticked \/ posts)
  BY DEF Tick
<1>2. ready \in Seq({T, G}) /\ NoDuplicates(ready) /\ ticked \in BOOLEAN
  BY DEF TypeInv, TypeOK, QueuesDistinct
<1>3. /\ base \in Seq({T, G}) /\ NoDuplicates(base)
      /\ Tasks(base) = Tasks(ready) \cup (IF gpc = "delay" THEN {G} ELSE {})
  <2>1. CASE gpc = "delay"
    <3>1. G \notin Tasks(ready)
      BY <2>1 DEF TypeInv, GeneratorPlace
    <3> QED BY <1>2, <2>1, <3>1, ReadyAppend
  <2>2. CASE gpc # "delay"
    <3>1. base = ready
      BY <1>2, <2>2, ConcatEmptySeq
    <3> QED BY <1>2, <2>2, <3>1
  <2> QED BY <2>1, <2>2
<1>4. posts => T \notin Tasks(ready)
  BY DEF Tasks, ToSet
<1> HIDE DEF base, posts
<1>5. posts => Tasks(base \o <<T>>) = Tasks(base) \cup {T}
  BY <1>3, <1>4, ReadyAppend, ListTypes
<1>6. tpc = "wait" => ~ticked
  BY DEF NoLostWakeup, TimerTaskAwaited
<1> QED BY <1>1, <1>2, <1>3, <1>5, <1>6, ListTypes

LEMMA InterruptWakeups ==
  ASSUME TypeInv, SInv, NoLostWakeup, Tick \/ SerialDrained \/ ButtonPress
  PROVE  NoLostWakeup'
<1>1. ASSUME Tick PROVE NoLostWakeup'
  <2>1. /\ gpc' = (IF gpc = "delay" THEN "run" ELSE gpc)
        /\ UNCHANGED <<tasks_m, waiters, msg_q, tpc, client, state>>
    BY <1>1 DEF Tick, scheduler, table, timerTask
  <2>2. GeneratorAwaited'
    BY <1>1, <2>1, TickReadies DEF NoLostWakeup, GeneratorAwaited
  <2>3. TimerTaskAwaited'
    BY <1>1, <2>1, TickReadies DEF NoLostWakeup, TimerTaskAwaited
  <2>4. UsersAwaited' /\ LockAwaited'
    BY <2>1 DEF NoLostWakeup, UsersAwaited, LockAwaited
  <2> QED BY <2>2, <2>3, <2>4, WakeupParts DEF NoLostWakeup, UsersAwaited, LockAwaited
<1>2. ASSUME SerialDrained PROVE NoLostWakeup'
  <2>1. /\ tpc \in Printing /\ tpc' \in {"move_overdue", "unlock_monitor", "rearm_monitor"}
        /\ ready' = Append(ready, T)
        /\ UNCHANGED <<tasks_m, waiters, msg_q, gpc, client, state>>
    BY <1>2 DEF SerialDrained, Printing, scheduler, table, generator
  <2>2. Tasks(ready') = Tasks(ready) \cup {T}
    <3>1. ready \in Seq({T, G}) /\ T \in {T, G}
      BY DEF TypeInv, TypeOK
    <3> QED BY <2>1, <3>1, AppendTasks
  <2>3. GeneratorAwaited' /\ TimerTaskAwaited'
    BY <2>1, <2>2 DEF NoLostWakeup, GeneratorAwaited, TimerTaskAwaited
  <2>4. UsersAwaited' /\ LockAwaited'
    BY <2>1 DEF NoLostWakeup, UsersAwaited, LockAwaited
  <2> QED BY <2>3, <2>4, WakeupParts DEF NoLostWakeup, UsersAwaited, LockAwaited
<1>3. ASSUME ButtonPress PROVE NoLostWakeup'
  BY <1>3 DEF ButtonPress, kernel, scheduler, table, timerTask, NoLostWakeup,
     GeneratorAwaited, TimerTaskAwaited
<1> QED BY <1>1, <1>2, <1>3

LEMMA InitWakeups == Init => NoLostWakeup
BY DEF Init, NoLostWakeup, GeneratorAwaited, TimerTaskAwaited, Tasks, ToSet

LEMMA NextWakeups == SafetyInv /\ NoLostWakeup /\ [Next]_vars => NoLostWakeup'
<1> SUFFICES ASSUME TypeInv, UserPlace, SInv, NoLostWakeup, [Next]_vars
             PROVE  NoLostWakeup'
  BY DEF SafetyInv
<1>1. ASSUME Next PROVE NoLostWakeup'
  BY <1>1, SchedulerWakeups, TimerWakeups, GeneratorWakeups, UserWakeups,
     InterruptWakeups DEF Next
<1>2. ASSUME UNCHANGED vars PROVE NoLostWakeup'
  BY <1>2 DEF vars, kernel, scheduler, table, timerTask, generator, NoLostWakeup,
     GeneratorAwaited, TimerTaskAwaited
<1> QED BY <1>1, <1>2

(* No wake-up is ever lost, in the deadlocks of tasks_m either: whoever    *)
(* waits is queued where the one it waits for will find it.                *)
THEOREM WakeupsKept == Spec => []NoLostWakeup
BY AlwaysSafe, InitWakeups, NextWakeups, PTL DEF Spec

-----------------------------------------------------------------------------
(***************************************************************************)
(* The deadlocks.  While the timer task asks, with tasks_m its own, the    *)
(* scheduler has no deletion to serve that would make it wait for tasks_m. *)
(***************************************************************************)
Asking == {"ask_active", "ask_overdue"}

AskInv ==
  /\ tpc \in Asking =>
       \/ spc = "start_timer"
       \/ spc = "receive" /\ Tasks(msg_q) \subseteq {T, G}
  /\ tpc = "lock_monitor" => tasks_m # T

(* What keeps the scheduler from running while the timer task or a task    *)
(* below it runs.                                                          *)
LEMMA SchedulerBlocked ==
  ASSUME SInv, ~SchedulerReady
  PROVE  \/ spc = "receive" /\ msg_q = <<>>
         \/ spc \in LockStates /\ tasks_m = T /\ S \in waiters
         \/ spc = "start_timer" /\ TimerEntriesHeld
         \/ spc = "cancel_timer" /\ tasks_m = S /\ TimerEntriesHeld
BY DEF SchedulerReady, SInv, LockInv

LEMMA LockMonitorStep ==
  ASSUME TypeInv, SInv, AskInv, Next, tpc' = "lock_monitor"
  PROVE  tasks_m' # T
<1>1. ASSUME SchedulerStep PROVE tasks_m' # T
  <2>1. Runs(S) /\ tasks_m # T
    BY <1>1, SchedulerWakes DEF AskInv, SchedulerStep, ServeTaskList, CreateFails,
       StartTimer, SchedulerWaits, AddActive, DeleteActive, DeleteOverdue, CancelTimer,
       UpdateOverdue, UpdateActive, CreateTask, CreateWithoutTimer, ReceiveDelete,
       Receive
  <2>2. ASSUME UnlockTasks, spc # "cancel_timer" PROVE tasks_m' # T
    BY <2>1, <2>2, SchedulerFrees, ListTypes
  <2>3. ASSUME DeleteActive \/ DeleteOverdue PROVE tasks_m' # T
    BY <2>2, <2>3, ListTypes DEF DeleteActive, DeleteOverdue, LeaveDelete
  <2>4. ASSUME AddActive \/ UpdateOverdue \/ UpdateActive PROVE tasks_m' # T
    BY <2>2, <2>4 DEF AddActive, UpdateOverdue, UpdateActive, UpdateList
  <2> QED BY <1>1, <2>1, <2>3, <2>4 DEF SchedulerStep, ServeTaskList, CreateFails,
          StartTimer, SchedulerWaits, CancelTimer, CreateTask, CreateWithoutTimer,
          ReceiveDelete
<1>2. ASSUME TimerStep PROVE tasks_m' # T
  BY <1>2, ListTypes DEF TimerStep, FireMonitor, FireDeadline, Fires, PostEntries,
     WaitForTick, TimerTaskWaits, MoveOverdue, LockMonitor, AskOverdue, PrintTasks,
     UnlockMonitor, RearmMonitor, PrintThen, timerTask, AskInv, SInv, LockInv
<1>3. ASSUME \/ GeneratorStep
             \/ \E u \in Users : UserStep(u)
             \/ Tick \/ SerialDrained \/ ButtonPress
      PROVE  tasks_m' # T
  BY <1>3 DEF GeneratorStep, PollPresses, DelayGenerator, ReleaseDone, ReleaseTask,
     UserStep, FinishTask, EndTask, Tick, SerialDrained, ButtonPress, kernel, timerTask,
     AskInv
<1> QED BY <1>1, <1>2, <1>3 DEF Next

LEMMA AskStep ==
  ASSUME TypeInv, UserPlace, SInv, NoLostWakeup, AskInv, Next
  PROVE  AskInv'
<1> SUFFICES ASSUME tpc' \in Asking
             PROVE  \/ spc' = "start_timer"
                    \/ spc' = "receive" /\ Tasks(msg_q') \subseteq {T, G}
  BY LockMonitorStep DEF AskInv
<1> DEFINE Goal == \/ spc' = "start_timer"
                   \/ spc' = "receive" /\ Tasks(msg_q') \subseteq {T, G}
<1>0. msg_q \in Seq(Clients) /\ T \in Clients /\ G \in Clients /\ Tasks(<<>>) = {}
  BY DEF TypeInv, TypeOK, Clients, Tasks, ToSet
<1>1. ASSUME SchedulerStep PROVE Goal
  <2>1. Runs(S) /\ tpc' = tpc
    BY <1>1, SchedulerWakes DEF SchedulerStep, ServeTaskList, CreateFails, StartTimer,
       SchedulerWaits, AddActive, DeleteActive, DeleteOverdue, CancelTimer,
       UpdateOverdue, UpdateActive, CreateTask, CreateWithoutTimer, ReceiveDelete,
       Receive
  <2>2. spc = "receive" /\ Tasks(msg_q) \subseteq {T, G}
    BY <2>1, SchedulerRunning DEF AskInv, Asking
  <2>3. ASSUME ServeTaskList \/ CreateFails \/ \E u \in Users : CreateWithoutTimer(u)
        PROVE  Goal
    BY <2>2, <2>3, ReceiveTasks DEF ServeTaskList, CreateFails, CreateWithoutTimer,
       scheduler
  <2>4. ASSUME NEW u \in Users, CreateTask(u) PROVE Goal
    BY <2>4 DEF CreateTask
  <2>5. ASSUME NEW u \in Users, ReceiveDelete(u) PROVE Goal
    <3>1. u \in Tasks(msg_q)
      BY <2>5, ReceiveTasks DEF ReceiveDelete
    <3> QED BY <2>2, <3>1, ListTypes
  <2> QED BY <1>1, <2>2, <2>3, <2>4, <2>5 DEF SchedulerStep, StartTimer, SchedulerWaits,
          AddActive, DeleteActive, DeleteOverdue, CancelTimer, UpdateOverdue,
          UpdateActive
<1>2. ASSUME TimerStep PROVE Goal
  <2>1. /\ Runs(T) /\ spc' = spc /\ msg_q' = Append(msg_q, T)
        /\ tasks_m = T \/ MayLock(T)
    BY <1>2 DEF TimerStep, FireMonitor, FireDeadline, PostEntries, WaitForTick,
       TimerTaskWaits, MoveOverdue, LockMonitor, AskOverdue, PrintTasks, UnlockMonitor,
       RearmMonitor, PrintThen, Ask, Asking, scheduler, timerTask, SInv, LockInv
  <2>2. ~SchedulerReady /\ spc # "cancel_timer"
    BY <2>1, WhoRuns, ListTypes DEF MayLock, SInv, LockInv
  <2>3. spc \in {"receive", "start_timer"} /\ (spc = "receive" => msg_q = <<>>)
    <3>1. tpc \in Asking \/ tasks_m = NONE
      BY <1>2, <2>1, ListTypes DEF TimerStep, FireMonitor, FireDeadline, PostEntries,
         WaitForTick, TimerTaskWaits, MoveOverdue, LockMonitor, AskOverdue, PrintTasks,
         UnlockMonitor, RearmMonitor, PrintThen, Asking, timerTask, MayLock, AskInv
    <3> QED BY <2>2, <3>1, SchedulerBlocked, ListTypes DEF AskInv, LockStates
  <2>4. Tasks(msg_q') = Tasks(msg_q) \cup {T}
    BY <1>0, <2>1, AppendTasks
  <2> QED BY <1>0, <2>1, <2>3, <2>4
<1>3. ASSUME GeneratorStep PROVE Goal
  <2>1. msg_q' \in {msg_q, Append(msg_q, G)} /\ tpc' = tpc /\ spc' = spc
    BY <1>3 DEF GeneratorStep, PollPresses, DelayGenerator, ReleaseDone, ReleaseTask,
       RequestTask, kernel, scheduler, timerTask
  <2>2. Tasks(Append(msg_q, G)) = Tasks(msg_q) \cup {G}
    <3>1. msg_q \in Seq(Clients) /\ G \in Clients
      BY <1>0
    <3> QED BY <3>1, AppendTasks
  <2>3. Tasks(msg_q') \subseteq Tasks(msg_q) \cup {G}
    BY <2>1, <2>2
  <2> QED BY <2>1, <2>3 DEF AskInv
<1>4. ASSUME NEW u \in Users, UserStep(u) PROVE Goal
  <2>1. /\ Runs(u) /\ tpc' = tpc /\ spc' = spc
        /\ msg_q' = msg_q \/ spc = "start_timer" \/ msg_q # <<>> \/ T \notin Tasks(msg_q)
    BY <1>0, <1>4 DEF UserStep, FinishTask, EndTask, kernel, scheduler, timerTask
  <2>2. ready = <<>> /\ ~SchedulerReady
    BY <2>1, WhoRuns
  <2>3. T \in Tasks(msg_q)
    BY <1>0, <2>1, <2>2 DEF NoLostWakeup, TimerTaskAwaited, Asking
  <2>4. spc = "start_timer"
    BY <1>0, <2>1, <2>2, <2>3, SchedulerBlocked DEF AskInv, LockStates
  <2> QED BY <2>1, <2>4
<1>5. ASSUME Tick \/ SerialDrained \/ ButtonPress PROVE Goal
  BY <1>5 DEF Tick, SerialDrained, ButtonPress, kernel, scheduler, timerTask, AskInv,
     Asking
<1> QED BY <1>1, <1>2, <1>3, <1>4, <1>5 DEF Next

WakeInv == NoLostWakeup /\ AskInv

LEMMA NextWake == SafetyInv /\ WakeInv /\ [Next]_vars => WakeInv'
<1> SUFFICES ASSUME SafetyInv, WakeInv, [Next]_vars PROVE AskInv'
  BY NextWakeups DEF WakeInv
<1>1. ASSUME Next PROVE AskInv'
  BY <1>1, AskStep DEF SafetyInv, WakeInv
<1>2. ASSUME UNCHANGED vars PROVE AskInv'
  BY <1>2 DEF vars, kernel, scheduler, timerTask, WakeInv, AskInv
<1> QED BY <1>1, <1>2

LEMMA AlwaysWake == Spec => [](SafetyInv /\ WakeInv)
<1>1. Init => WakeInv
  BY InitWakeups DEF Init, WakeInv, AskInv, Asking
<1> QED BY <1>1, AlwaysSafe, NextWake, PTL DEF Spec

(* When nothing of priority 1 and above can go on.                         *)
LEMMA WhenSettled ==
  ASSUME TypeInv, SInv, WakeInv, Settled
  PROVE  \/ spc = "receive" /\ msg_q = <<>> /\ tpc = "wait" /\ gpc = "delay"
         \/ spc = "cancel_timer" /\ tasks_m = S /\ T \in waiters
         \/ spc = "start_timer" /\ tasks_m = T /\ T \in Tasks(msg_q)
<1>1. /\ ~SchedulerReady /\ ready = <<>> /\ tpc \notin Printing
      /\ Tasks(ready) = {}
  BY DEF Settled, Printing, Tasks, ToSet
<1>2. /\ GeneratorAwaited /\ TimerTaskAwaited /\ tpc \in TimerStates
      /\ gpc \in {"run", "receive", "delay"}
  BY DEF WakeInv, NoLostWakeup, TypeInv, TypeOK
<1>3. tpc = "wait" \/ T \in waiters \/ (tpc \in Asking /\ T \in Tasks(msg_q))
  BY <1>1, <1>2 DEF TimerTaskAwaited, TimerStates, Printing, Asking
<1>4. CASE spc = "receive" /\ msg_q = <<>>
  <2>1. /\ T \notin Tasks(msg_q) /\ G \notin Tasks(msg_q) /\ T \notin waiters
        /\ client = NONE /\ client # G
    BY <1>4, ListTypes DEF Tasks, ToSet, SInv, LockInv, TypeInv, Served
  <2> QED BY <1>1, <1>2, <1>3, <1>4, <2>1 DEF GeneratorAwaited
<1>5. ASSUME spc \in LockStates, tasks_m = T, S \in waiters PROVE FALSE
  <2>1. T \notin waiters /\ tpc \in {"lock_monitor", "unlock_monitor"} \cup Asking \cup Printing
    BY <1>5, ListTypes DEF SInv, LockInv, Asking, Printing
  <2> QED BY <1>1, <1>3, <1>5, <2>1 DEF WakeInv, AskInv, LockStates
<1>6. CASE spc = "start_timer" /\ TimerEntriesHeld
  <2>1. T \notin waiters
    BY <1>6 DEF SInv, LockInv
  <2> QED BY <1>3, <1>6, <2>1 DEF TimerEntriesHeld, SInv, LockInv, Asking
<1>7. CASE spc = "cancel_timer" /\ tasks_m = S /\ TimerEntriesHeld
  <2>1. tpc \notin Asking
    BY <1>7, ListTypes DEF SInv, LockInv, Asking
  <2> QED BY <1>3, <1>7, <2>1 DEF TimerEntriesHeld
<1> QED BY <1>1, <1>4, <1>5, <1>6, <1>7, SchedulerBlocked

(* The scheduler and the timer task can block each other in two ways only, *)
(* and otherwise nothing stops before a tick's work is done (a task's      *)
(* destruction being one step).                                            *)
THEOREM DeadlocksKnown == Spec => []OnlyTwoDeadlocks
<1>1. SafetyInv /\ WakeInv => OnlyTwoDeadlocks
  BY WhenSettled DEF SafetyInv, OnlyTwoDeadlocks
<1> QED BY <1>1, AlwaysWake, PTL

-----------------------------------------------------------------------------
(***************************************************************************)
(* Prompt work: a tick comes only when the work of the last is done, no    *)
(* output blocks, and the generator has one task to release a turn if the  *)
(* monitor has its timer (with two, monitor_deadlock is possible).  The    *)
(* timer task then enters its loop only when the scheduler has served all  *)
(* there is, and while it is in there nobody has a request but itself.     *)
(***************************************************************************)
OneRelease == Periodic = 0 \/ (Periodic = 1 /\ GeneratorQueue = 0)

PromptWork == ~SlowTicks /\ ~PrintBlocks /\ (MonitorTimer => OneRelease)

HeldAlone == TimerEntriesHeld => spc = "receive" /\ Tasks(msg_q) \subseteq {T}

(* The generator has made this turn's requests.                            *)
RequestsMade == gpc \in {"delay", "receive"} \/ kind > Periodic

TimerTaskNext == TimerEntriesHeld \/ (ready # <<>> /\ Head(ready) = T)

OneAtATime ==
  ~SlowTicks /\ ~PrintBlocks /\ OneRelease =>
    /\ tpc \notin Printing
    /\ HeldAlone
    /\ gpc = "receive" => kind >= Periodic
    /\ TimerTaskNext => RequestsMade

(* Then only an idle scheduler lets others run.                            *)
LEMMA OthersRunIdle ==
  ASSUME SInv, HeldAlone, ~SchedulerReady
  PROVE  spc = "receive" /\ msg_q = <<>>
<1>1. tasks_m = T => TimerEntriesHeld
  BY DEF SInv, LockInv, TimerEntriesHeld
<1> QED BY <1>1, SchedulerBlocked DEF HeldAlone, LockStates

LEMMA SettledIsIdle ==
  ASSUME TypeInv, SInv, WakeInv, HeldAlone, Settled
  PROVE  /\ spc = "receive" /\ msg_q = <<>> /\ tpc = "wait" /\ gpc = "delay"
         /\ ready = <<>>
<1>1. spc = "receive" /\ msg_q = <<>> /\ ready = <<>>
  BY OthersRunIdle DEF Settled
<1> QED BY <1>1, WhenSettled

(* While the timer task holds TIMER_ENTRIES_LWSEM no scheduled task runs.  *)
LEMMA UsersWait ==
  ASSUME TypeInv, SInv, WakeInv, HeldAlone, tpc \notin Printing, NEW u \in Users, Runs(u)
  PROVE  tpc = "wait"
<1>1. ready = <<>> /\ ~SchedulerReady
  BY WhoRuns
<1>2. spc = "receive" /\ msg_q = <<>>
  BY <1>1, OthersRunIdle
<1>3. T \notin Tasks(ready) /\ T \notin Tasks(msg_q) /\ T \notin waiters
  BY <1>1, <1>2 DEF Tasks, ToSet, SInv, LockInv
<1>4. tpc \in TimerStates
  BY DEF TypeInv, TypeOK
<1> QED BY <1>3, <1>4 DEF WakeInv, NoLostWakeup, TimerTaskAwaited, TimerStates, Printing

LEMMA SchedulerAlone ==
  ASSUME TypeInv, SInv, HeldAlone, SchedulerStep
  PROVE  /\ HeldAlone' /\ UNCHANGED <<tpc, gpc, kind>>
         /\ TimerTaskNext' => TimerTaskNext
<1>1. Runs(S) /\ UNCHANGED <<tpc, gpc, kind>>
  BY DEF SchedulerStep, ServeTaskList, CreateFails, StartTimer, SchedulerWaits,
     AddActive, DeleteActive, DeleteOverdue, CancelTimer, UpdateOverdue, UpdateActive,
     CreateTask, CreateWithoutTimer, ReceiveDelete, Receive, timerTask, generator
<1>2. ASSUME TimerEntriesHeld PROVE ServeTaskList
  <2>1. spc = "receive" /\ Tasks(msg_q) \subseteq {T}
    BY <1>2 DEF HeldAlone
  <2>2. ~(CreateFails \/ \E u \in Users : \/ CreateTask(u) \/ CreateWithoutTimer(u)
                                         \/ ReceiveDelete(u))
    <3>1. ASSUME NEW c, Receive(c) PROVE c = T
      BY <2>1, <3>1, ReceiveTasks
    <3> QED BY <3>1, ListTypes DEF CreateFails, CreateTask, CreateWithoutTimer,
            ReceiveDelete
  <2> QED BY <2>1, <2>2 DEF SchedulerStep, StartTimer, SchedulerWaits, AddActive,
          DeleteActive, DeleteOverdue, CancelTimer, UpdateOverdue, UpdateActive
<1>3. HeldAlone'
  <2>1. ASSUME TimerEntriesHeld PROVE spc' = "receive" /\ Tasks(msg_q') \subseteq {T}
    BY <1>2, <2>1, ReceiveTasks DEF HeldAlone, ServeTaskList, scheduler
  <2> QED BY <1>1, <2>1 DEF HeldAlone, TimerEntriesHeld
<1>4. ASSUME TimerTaskNext', ~TimerEntriesHeld PROVE TimerTaskNext
  <2>1. /\ ready \in Seq({T, G}) /\ ready' # <<>> /\ Head(ready') = T
        /\ <<>> \in Seq({T, G}) /\ <<T>> \in Seq({T, G}) /\ <<G>> \in Seq({T, G})
    BY <1>1, <1>4 DEF TimerTaskNext, TimerEntriesHeld, TypeInv, TypeOK
  <2>2. T \notin waiters /\ UnlockReadies = <<>>
    BY <1>4 DEF UnlockReadies, TypeInv, TimerTaskPlace, TimerEntriesHeld
  <2>3. ~ServeTaskList
    <3>1. T \notin Tasks(msg_q)
      BY <1>4 DEF TypeInv, TimerTaskPlace, TimerEntriesHeld
    <3> QED BY <3>1, ReceiveTasks DEF ServeTaskList
  <2>4. ready' = ready \/ ready' = ready \o <<>> \/ ready' = ready \o <<G>>
    <3>1. UnlockReadies \o <<G>> = <<G>>
      BY <2>1, <2>2, ConcatEmptySeq
    <3> QED BY <2>2, <2>3, <3>1 DEF SchedulerStep, CreateFails, StartTimer,
            SchedulerWaits, AddActive, DeleteActive, DeleteOverdue, CancelTimer,
            UpdateOverdue, UpdateActive, CreateTask, CreateWithoutTimer, ReceiveDelete,
            Respond, LeaveDelete
  <2>5. ready' = ready \/ ready' = ready \o <<G>>
    BY <2>1, <2>4, ConcatEmptySeq
  <2>6. ready # <<>>
    BY <2>1, <2>5, ListTypes, ConcatEmptySeq
  <2>7. Head(ready') = Head(ready)
    BY <2>1, <2>5, <2>6, HeadOfConcat
  <2> QED BY <2>1, <2>6, <2>7 DEF TimerTaskNext
<1> QED BY <1>1, <1>3, <1>4 DEF TimerTaskNext

(* The timer task enters its loop, and asks, with the scheduler idle.      *)
LEMMA TimerAlone ==
  ASSUME TypeInv, SInv, HeldAlone, ~PrintBlocks, tpc \notin Printing, TimerStep
  PROVE  HeldAlone' /\ tpc' \notin Printing /\ TimerTaskNext /\ UNCHANGED <<gpc, kind>>
<1>1. Runs(T) /\ UNCHANGED <<gpc, kind, spc>>
  BY DEF TimerStep, FireMonitor, FireDeadline, Fires, PostEntries, WaitForTick,
     TimerTaskWaits, MoveOverdue, LockMonitor, AskOverdue, PrintTasks,
     UnlockMonitor, RearmMonitor, generator, scheduler
<1>2. ready # <<>> /\ Head(ready) = T /\ spc = "receive" /\ msg_q = <<>>
  BY <1>1, WhoRuns, OthersRunIdle
<1>3. msg_q' \in {msg_q, Append(msg_q, T)}
  BY DEF TimerStep, FireMonitor, FireDeadline, PostEntries, WaitForTick,
     TimerTaskWaits, MoveOverdue, LockMonitor, AskOverdue, PrintTasks,
     UnlockMonitor, RearmMonitor, kernel, Ask
<1>4. Tasks(msg_q') \subseteq {T}
  <2>1. msg_q \in Seq(Clients) /\ T \in Clients /\ Tasks(msg_q) = {}
    BY <1>2 DEF TypeInv, TypeOK, Clients, Tasks, ToSet
  <2>2. Tasks(Append(msg_q, T)) = Tasks(msg_q) \cup {T}
    BY <2>1, AppendTasks
  <2> QED BY <1>3, <2>1, <2>2
<1>5. tpc' \notin Printing
  BY DEF TimerStep, FireMonitor, FireDeadline, PostEntries, WaitForTick,
     TimerTaskWaits, MoveOverdue, LockMonitor, AskOverdue, PrintTasks,
     UnlockMonitor, RearmMonitor, PrintThen, Printing, timerTask
<1> QED BY <1>1, <1>2, <1>4, <1>5 DEF HeldAlone, TimerTaskNext

(* The generator makes no request while the timer task is in its loop.     *)
LEMMA GeneratorAlone ==
  ASSUME TypeInv, SInv, OneRelease, HeldAlone, gpc = "receive" => kind >= Periodic,
         TimerTaskNext => RequestsMade, GeneratorStep
  PROVE  /\ HeldAlone' /\ tpc' = tpc
         /\ gpc' = "receive" => kind' >= Periodic
         /\ TimerTaskNext' => RequestsMade'
<1>0. /\ Periodic \in Nat /\ GeneratorQueue \in Nat /\ kind \in Nat /\ generator_q \in Nat
      /\ generator_q <= GeneratorQueue
  BY NumbersAssumption DEF TypeInv, TypeOK
<1>1. Runs(G) /\ UNCHANGED <<tpc, spc>>
  BY DEF GeneratorStep, PollPresses, DelayGenerator, ReleaseDone, ReleaseTask, scheduler,
     timerTask
<1>2. Head(ready) # T
  BY <1>1, WhoRuns, ListTypes
<1>3. ASSUME PollPresses PROVE gpc' = "receive" => kind' >= Periodic
  BY <1>0, <1>3 DEF PollPresses, RequestTask, OneRelease
<1>4. ASSUME PollPresses
      PROVE  /\ ~TimerEntriesHeld
             /\ gpc' = "receive" => kind' >= Periodic
             /\ gpc' = "receive" \/ ready' = ready
  <2>1. ~RequestsMade
    BY <1>0, <1>4 DEF PollPresses, RequestsMade
  <2>2. gpc' = "receive" \/ ready' = ready
    BY <1>4 DEF PollPresses, RequestTask
  <2> QED BY <1>3, <1>4, <2>1, <2>2 DEF TimerTaskNext
<1>5. ASSUME NEW i \in 1 .. Periodic, ReleaseTask(i)
      PROVE  /\ ~TimerEntriesHeld /\ gpc' = "receive" /\ kind' >= Periodic
  <2>1. i \in kind .. Periodic /\ gpc = "run" /\ gpc' = "receive" /\ kind' = i
    BY <1>5 DEF ReleaseTask, RequestTask, DueTasks
  <2>2. ~RequestsMade
    BY <1>0, <2>1 DEF RequestsMade
  <2>3. i >= Periodic
    BY <1>0 DEF OneRelease
  <2> QED BY <2>1, <2>2, <2>3 DEF TimerTaskNext
<1>6. ASSUME DelayGenerator PROVE msg_q' = msg_q /\ gpc' = "delay"
  BY <1>6 DEF DelayGenerator
<1>7. ASSUME ReleaseDone
      PROVE  msg_q' = msg_q /\ ready' = ready /\ gpc' = "run" /\ kind' > Periodic
  <2>1. gpc = "receive" /\ gpc' = "run" /\ kind' = kind + 1 /\ UNCHANGED <<msg_q, ready>>
    BY <1>7 DEF ReleaseDone, kernel
  <2>2. kind >= Periodic
    BY <2>1
  <2> QED BY <1>0, <2>1, <2>2
<1>8. HeldAlone'
  BY <1>1, <1>4, <1>5, <1>6, <1>7 DEF GeneratorStep, HeldAlone, TimerEntriesHeld
<1>9. gpc' = "receive" => kind' >= Periodic
  BY <1>4, <1>5, <1>6, <1>7 DEF GeneratorStep
<1>10. TimerTaskNext' => RequestsMade'
  <2>1. TimerEntriesHeld' = TimerEntriesHeld
    BY <1>1 DEF TimerEntriesHeld
  <2> QED BY <1>2, <1>4, <1>5, <1>6, <1>7, <2>1 DEF GeneratorStep, TimerTaskNext,
          RequestsMade
<1> QED BY <1>1, <1>8, <1>9, <1>10

(* A tick wakes the generator before the timer task.                       *)
LEMMA TickAlone ==
  ASSUME TypeInv, SInv, WakeInv, HeldAlone, ~SlowTicks, Tick
  PROVE  HeldAlone' /\ ~TimerTaskNext' /\ tpc' = "wait" /\ gpc' = "run" /\ kind' = kind
<1>1. /\ spc = "receive" /\ tpc = "wait" /\ gpc = "delay" /\ ready = <<>>
  BY SettledIsIdle DEF Tick
<1>2. /\ tpc' = tpc /\ gpc' = "run" /\ kind' = kind
      /\ ready' = ready \o <<G>> \/ ready' = (ready \o <<G>>) \o <<T>>
  BY <1>1 DEF Tick, timerTask
<1>3. ready' # <<>> /\ Head(ready') = G
  <2>1. <<>> \in Seq({T, G}) /\ <<G>> \in Seq({T, G}) /\ <<T>> \in Seq({T, G}) /\ <<G>> # <<>>
    OBVIOUS
  <2>2. ready \o <<G>> = <<G>>
    BY <1>1, <2>1, ConcatEmptySeq
  <2> QED BY <1>2, <2>1, <2>2, HeadOfConcat
<1> QED BY <1>1, <1>2, <1>3, ListTypes DEF HeldAlone, TimerTaskNext, TimerEntriesHeld

LEMMA NextOneAtATime ==
  SafetyInv /\ WakeInv /\ OneAtATime /\ [Next]_vars => OneAtATime'
<1> SUFFICES ASSUME TypeInv, SInv, WakeInv, ~SlowTicks, ~PrintBlocks, OneRelease,
                    tpc \notin Printing, HeldAlone, gpc = "receive" => kind >= Periodic,
                    TimerTaskNext => RequestsMade, [Next]_vars
             PROVE  /\ tpc' \notin Printing /\ HeldAlone'
                    /\ gpc' = "receive" => kind' >= Periodic
                    /\ TimerTaskNext' => RequestsMade'
  BY DEF SafetyInv, OneAtATime, OneRelease
<1> DEFINE Goal == /\ tpc' \notin Printing /\ HeldAlone'
                   /\ gpc' = "receive" => kind' >= Periodic
                   /\ TimerTaskNext' => RequestsMade'
<1>1. ASSUME SchedulerStep PROVE Goal
  BY <1>1, SchedulerAlone DEF RequestsMade
<1>2. ASSUME TimerStep PROVE Goal
  BY <1>2, TimerAlone DEF RequestsMade
<1>3. ASSUME GeneratorStep PROVE Goal
  BY <1>3, GeneratorAlone
<1>4. ASSUME NEW u \in Users, UserStep(u) PROVE Goal
  <2>1. Runs(u) /\ UNCHANGED <<tpc, gpc, kind, ready>>
    BY <1>4 DEF UserStep, FinishTask, EndTask, kernel, timerTask, generator
  <2>2. tpc = "wait"
    BY <2>1, UsersWait
  <2> QED BY <2>1, <2>2 DEF HeldAlone, TimerTaskNext, TimerEntriesHeld, RequestsMade
<1>5. ASSUME Tick PROVE Goal
  BY <1>5, TickAlone DEF Printing
<1>6. ~SerialDrained
  BY DEF SerialDrained, Printing
<1>7. ASSUME ButtonPress \/ UNCHANGED vars PROVE Goal
  BY <1>7 DEF ButtonPress, vars, kernel, scheduler, timerTask, generator, HeldAlone,
     TimerTaskNext, TimerEntriesHeld, RequestsMade
<1> QED BY <1>1, <1>2, <1>3, <1>4, <1>5, <1>6, <1>7 DEF Next

TimingBase == SafetyInv /\ OrderInv /\ QuickInv /\ WakeInv /\ OneAtATime

LEMMA AlwaysBase == Spec => []TimingBase
<1>1. Init => OneAtATime
  BY ListTypes, ActorsAssumption DEF Init, OneAtATime, HeldAlone, TimerTaskNext,
     TimerEntriesHeld, Printing
<1>2. TimingBase <=> (SafetyInv /\ OrderInv /\ QuickInv) /\ (SafetyInv /\ WakeInv) /\ OneAtATime
  BY DEF TimingBase
<1> QED BY <1>1, <1>2, AlwaysQuick, AlwaysWake, NextOneAtATime, PTL DEF Spec

(* In both cases: prompt work, and a timer task without the monitor.       *)
LEMMA HeldAloneHolds ==
  ASSUME TimingBase, QuickTimerTask \/ PromptWork
  PROVE  HeldAlone /\ tpc \notin Printing
<1>1. CASE QuickTimerTask
  <2>1. CallbacksAtomic
    BY <1>1 DEF TimingBase, QuickInv
  <2>2. Tasks(<<>>) = {}
    BY DEF Tasks, ToSet
  <2> QED BY <2>1, <2>2 DEF CallbacksAtomic, HeldAlone, TimerEntriesHeld, Printing
<1>2. CASE PromptWork /\ ~QuickTimerTask
  BY <1>2 DEF PromptWork, QuickTimerTask, TimingBase, OneAtATime
<1> QED BY <1>1, <1>2

(* The scheduler is never kept waiting in the middle of a request, by      *)
(* tasks_m or by the timer component, when the timer task's callbacks are  *)
(* not held up themselves or each tick's work is done before the next.     *)
THEOREM SchedulerNeverHeldUp ==
  Spec => [](QuickTimerTask \/ PromptWork => NeverHeldUp)
<1>1. TimingBase => (QuickTimerTask \/ PromptWork => NeverHeldUp)
  <2> SUFFICES ASSUME TimingBase, HeldAlone, spc # "receive" PROVE SchedulerReady
    BY HeldAloneHolds DEF NeverHeldUp
  <2> QED BY OthersRunIdle DEF TimingBase, SafetyInv
<1> QED BY <1>1, AlwaysBase, PTL

(***************************************************************************)
(* The earliest deadline first, in both cases.                             *)
(***************************************************************************)
DeadlinesOrdered == QuickTimerTask \/ PromptWork => DeadlineInv

(* A task is moved to the overdue list with no request waiting.            *)
LEMMA QuietHolds ==
  ASSUME TimingBase, QuickTimerTask \/ PromptWork
  PROVE  CallbacksQuiet
<1>1. TypeInv /\ HeldAlone /\ tpc \notin Printing
  BY HeldAloneHolds DEF TimingBase, SafetyInv
<1>2. ASSUME tpc = "move_overdue" PROVE spc = "receive" /\ msg_q = <<>>
  <2>1. spc = "receive" /\ Tasks(msg_q) \subseteq {T} /\ T \notin Tasks(msg_q)
    BY <1>1, <1>2 DEF HeldAlone, TimerEntriesHeld, TypeInv, TimerTaskPlace
  <2>2. msg_q = <<>>
    <3>1. msg_q \in Seq(Clients) /\ NoDuplicates(msg_q)
      BY <1>1 DEF TypeInv, TypeOK, QueuesDistinct
    <3>2. ASSUME msg_q # <<>> PROVE FALSE
      <4>1. Head(msg_q) \in Tasks(msg_q) /\ Head(msg_q) = T
        BY <2>1, <3>1, <3>2, RequestTail
      <4> QED BY <2>1, <4>1
    <3> QED BY <3>2
  <2> QED BY <2>1, <2>2
<1> QED BY <1>1, <1>2 DEF CallbacksQuiet

LEMMA NextDeadlinesOrdered ==
  TimingBase /\ DeadlinesOrdered /\ [Next]_vars => DeadlinesOrdered'
<1> SUFFICES ASSUME TimingBase, QuickTimerTask \/ PromptWork, DeadlineInv, [Next]_vars
             PROVE  DeadlineInv'
  BY DEF DeadlinesOrdered, QuickTimerTask, PromptWork, OneRelease
<1>1. TypeInv /\ SInv /\ OrderInv /\ CallbacksQuiet
  BY QuietHolds DEF TimingBase, SafetyInv
<1>2. ASSUME Next PROVE DeadlineInv'
  BY <1>1, <1>2, SchedulerDeadlines, TimerDeadlines, OthersDeadlines DEF Next
<1>3. ASSUME UNCHANGED vars PROVE DeadlineInv'
  BY <1>1, <1>3, UntouchedDeadlines DEF vars, scheduler, table, timerTask
<1> QED BY <1>2, <1>3

(* What the scheduler is for: no unfinished task is due before the one     *)
(* that runs, as long as the priorities can tell them apart, if the timer  *)
(* task's callbacks are not held up or each tick's work is done before the *)
(* next.                                                                   *)
THEOREM EarliestDeadlineFirst ==
  Spec => [](QuickTimerTask \/ PromptWork => EarliestDeadlineRuns)
<1>1. Init => DeadlinesOrdered
  BY DEF Init, DeadlinesOrdered, DeadlineInv, OverdueEarlier, PrioritiesByDeadline,
     Listed, Tasks, ToSet
<1>2. TimingBase /\ DeadlinesOrdered => (QuickTimerTask \/ PromptWork => EarliestDeadlineRuns)
  <2> SUFFICES ASSUME TimingBase, QuickTimerTask \/ PromptWork, DeadlineInv,
                      NEW u \in Users, NEW v \in Users, Runs(u),
                      state[u] = "running", state[v] = "running", prio[u] < LowestPriority
               PROVE  deadline[u] <= deadline[v]
    BY DEF DeadlinesOrdered, EarliestDeadlineRuns
  <2>1. TypeInv /\ SInv /\ HeldAlone
    BY HeldAloneHolds DEF TimingBase, SafetyInv
  <2>2. ~SchedulerReady /\ ready = <<>> /\ prio[u] <= prio[v]
    BY ListTypes, <2>1, ActorsAssumption DEF Runs, UserReady
  <2>3. spc = "receive"
    BY <2>1, <2>2, OthersRunIdle
  <2>4. u \in Listed /\ v \in Listed
    <3>1. client \notin Users
      BY <2>1, <2>3, ListTypes DEF TypeInv, Served
    <3>2. ~CreationFailed
      BY <2>2, ListTypes DEF CreationFailed, Runs, Tasks, ToSet
    <3> QED BY <2>1, <2>3, <3>1, <3>2 DEF SInv, UserInv
  <2>5. deadline[v] < deadline[u] => prio[v] < prio[u] \/ prio[u] = LowestPriority
    BY <2>3, <2>4 DEF DeadlineInv, PrioritiesByDeadline, Updating
  <2>6. /\ deadline[u] \in Nat /\ deadline[v] \in Nat /\ prio[u] \in Nat /\ prio[v] \in Nat
        /\ LowestPriority \in Nat
    BY <2>1, ListTypes, NumbersAssumption DEF TypeInv, TypeOK
  <2> QED BY <2>2, <2>5, <2>6
<1> QED BY <1>1, <1>2, AlwaysBase, NextDeadlinesOrdered, PTL DEF Spec

-----------------------------------------------------------------------------
(***************************************************************************)
(* No expiration is lost.  When the timer task has given up                *)
(* TIMER_ENTRIES_LWSEM and is not ready to run again, every active task    *)
(* has time left: it found none expired, the tasks added since are due     *)
(* later, and a tick at which one comes due makes it ready.                *)
(***************************************************************************)
DeadlinesAhead == \A k \in Kinds : Deadline[k] > 0

TimerTaskSleeps == tpc = "posted" \/ (tpc = "wait" /\ T \notin Tasks(ready))

TimeLeft ==
  /\ TimerTaskSleeps => \A u \in Tasks(active_tasks) : now < deadline[u]
  /\ spc \in {"start_timer", "add_task"} => now < deadline[node]

DeadlinesKept == PromptWork /\ DeadlinesAhead => TimeLeft

(* Steps that admit no task and do not put the timer task to sleep.        *)
LEMMA TimeLeftFrame ==
  ASSUME TypeInv, TimeLeft, now' = now,
         Tasks(active_tasks') \subseteq Tasks(active_tasks),
         \A u \in Tasks(active_tasks') : deadline'[u] = deadline[u],
         TimerTaskSleeps' => TimerTaskSleeps,
         spc' \in {"start_timer", "add_task"} =>
           spc \in {"start_timer", "add_task"} /\ node' = node
           /\ deadline'[node] = deadline[node]
  PROVE  TimeLeft'
BY DEF TimeLeft

LEMMA SchedulerTimeLeft ==
  ASSUME TypeInv, SInv, DeadlinesAhead, TimeLeft, SchedulerStep
  PROVE  TimeLeft'
<1>0. /\ now' = now /\ tpc' = tpc
      /\ TimerTaskSleeps' => TimerTaskSleeps
  <2>1. tpc' = tpc /\ Tasks(ready) \subseteq Tasks(ready')
    BY SchedulerWakes
  <2> QED BY <2>1 DEF TimerTaskSleeps, SchedulerStep, ServeTaskList, CreateFails,
          StartTimer, SchedulerWaits, AddActive, DeleteActive, DeleteOverdue,
          CancelTimer, UpdateOverdue, UpdateActive, CreateTask, CreateWithoutTimer,
          ReceiveDelete
<1>1. ASSUME ServeTaskList \/ CreateFails \/ SchedulerWaits \/ StartTimer PROVE TimeLeft'
  BY <1>0, <1>1, TimeLeftFrame DEF ServeTaskList, CreateFails, SchedulerWaits, StartTimer,
     scheduler, lists, table
<1>2. ASSUME UpdateOverdue \/ UpdateActive PROVE TimeLeft'
  BY <1>0, <1>2, TimeLeftFrame DEF UpdateOverdue, UpdateActive, EndRequest, lists
<1>3. ASSUME NEW u \in Users, ReceiveDelete(u) PROVE TimeLeft'
  BY <1>0, <1>3, TimeLeftFrame DEF ReceiveDelete, lists, table
<1>4. ASSUME NEW u \in Users, CreateTask(u) PROVE TimeLeft'
  <2>1. /\ G \in Tasks(msg_q) /\ u \in FreeTasks /\ node' = u
        /\ deadline' = [deadline EXCEPT ![u] = now + Deadline[kind]]
        /\ active_tasks' = active_tasks
    BY <1>4, ReceiveTasks DEF CreateTask, lists
  <2>2. now \in Nat /\ Deadline[kind] \in Nat /\ Deadline[kind] > 0
    BY <2>1, NumbersAssumption DEF TypeInv, TypeOK, GeneratorPlace, DeadlinesAhead
  <2>3. now' < deadline'[node']
    <3>1. deadline'[node'] = now + Deadline[kind]
      BY <2>1, ListTypes
    <3> QED BY <1>0, <2>2, <3>1
  <2>4. \A v \in Tasks(active_tasks) : deadline'[v] = deadline[v]
    <3>1. u \notin Tasks(active_tasks)
      BY <2>1 DEF FreeTasks, SInv, NodeInv, NoNodeLost, Listed
    <3> QED BY <2>1, <3>1, ListTypes
  <2> QED BY <1>0, <2>1, <2>3, <2>4 DEF TimeLeft
<1>5. ASSUME AddActive PROVE TimeLeft'
  <2>1. /\ active_tasks' = AddTask(active_tasks, node, deadline) /\ spc = "add_task"
        /\ spc' = "update_overdue" /\ deadline' = deadline /\ node \in Users
    BY <1>5 DEF AddActive, table, TypeInv, Served
  <2>2. Tasks(active_tasks') = Tasks(active_tasks) \cup {node}
    <3>1. active_tasks \in Seq(Users) /\ deadline \in [Users -> Nat]
      BY ListTypes
    <3> QED BY <2>1, <3>1, AddTaskProperties
  <2> QED BY <1>0, <2>1, <2>2 DEF TimeLeft
<1>6. ASSUME DeleteActive PROVE TimeLeft'
  <2>1. spc' \in {"cancel_timer", "update_overdue", "delete_overdue"} /\ Runs(S)
    BY <1>6 DEF DeleteActive, CancelOrFree
  <2>2. CASE client \in Tasks(active_tasks)
    <3>1. client \in Users /\ timer[client]
      BY <1>6, <2>1, <2>2, ListTypes, SchedulerRunning DEF DeleteActive, SInv, TimerInv
    <3>2. active_tasks' = DeleteTask(active_tasks, client) /\ deadline' = deadline
      BY <1>6, <2>2, <3>1 DEF DeleteActive, CancelOrFree
    <3>3. Tasks(active_tasks') \subseteq Tasks(active_tasks)
      BY <2>2, <3>2, ListTypes, DeleteTaskProperties DEF SInv, ListsWellFormed
    <3> QED BY <1>0, <2>1, <3>2, <3>3, TimeLeftFrame
  <2>3. CASE client \notin Tasks(active_tasks)
    BY <1>0, <1>6, <2>1, <2>3, TimeLeftFrame DEF DeleteActive
  <2> QED BY <2>2, <2>3
<1>7. ASSUME DeleteOverdue \/ CancelTimer PROVE TimeLeft'
  <2>1. /\ spc' \notin {"start_timer", "add_task"} /\ active_tasks' = active_tasks
        /\ \/ deadline' = deadline
           \/ /\ client \notin Tasks(active_tasks)
              /\ deadline' = [deadline EXCEPT ![client] = 0]
    BY <1>7, ListTypes DEF DeleteOverdue, CancelTimer, CancelOrFree, RefuseDelete, EndRequest,
       FreeNode, lists, SInv, UserInv, ListsWellFormed, TypeInv, Served, Listed
  <2>2. \A u \in Tasks(active_tasks) : deadline'[u] = deadline[u]
    BY <2>1, ListTypes
  <2> QED BY <1>0, <2>1, <2>2, TimeLeftFrame
<1>8. ASSUME NEW u \in Users, CreateWithoutTimer(u) PROVE TimeLeft'
  BY <1>0, <1>8, TimeLeftFrame DEF CreateWithoutTimer, scheduler, lists
<1> QED BY <1>1, <1>2, <1>3, <1>4, <1>5, <1>6, <1>7, <1>8 DEF SchedulerStep

LEMMA TimerTimeLeft ==
  ASSUME TypeInv, SInv, TimeLeft, TimerStep
  PROVE  TimeLeft'
<1>1. now' = now /\ spc' = spc /\ node' = node /\ deadline' = deadline
  BY DEF TimerStep, FireMonitor, FireDeadline, PostEntries, WaitForTick,
     TimerTaskWaits, MoveOverdue, LockMonitor, AskOverdue, PrintTasks,
     UnlockMonitor, RearmMonitor, scheduler, table
<1>2. ASSUME tpc' \notin {"wait", "posted"} PROVE TimeLeft'
  BY <1>1, <1>2 DEF TimeLeft, TimerTaskSleeps
<1>3. ASSUME PostEntries PROVE TimeLeft'
  <2>1. Expired = {} /\ expired = NONE /\ active_tasks' = active_tasks
    BY <1>3 DEF PostEntries, lists, SInv, CallbackInv
  <2>2. \A u \in Tasks(active_tasks) : u \in armed /\ u # MON
    BY <2>1, ListTypes DEF SInv, TimerInv, TimersMatchLists
  <2>3. \A u \in Tasks(active_tasks) : ~(deadline[u] <= now)
    BY <2>1, <2>2 DEF Expired, Expiration
  <2>4. now \in Nat /\ \A u \in Tasks(active_tasks) : deadline[u] \in Nat
    BY ListTypes DEF TypeInv, TypeOK
  <2> QED BY <1>1, <2>1, <2>3, <2>4 DEF TimeLeft
<1>4. ASSUME WaitForTick PROVE TimeLeft'
  BY <1>1, <1>4 DEF WaitForTick, TimeLeft, TimerTaskSleeps, lists
<1> QED BY <1>2, <1>3, <1>4 DEF TimerStep, FireMonitor, FireDeadline, PrintThen,
        TimerTaskWaits, MoveOverdue, LockMonitor, AskOverdue, PrintTasks,
        UnlockMonitor, RearmMonitor, timerTask

LEMMA OthersTimeLeft ==
  ASSUME TypeInv, SInv, TimeLeft, tpc \notin Printing,
         \/ GeneratorStep
         \/ \E u \in Users : UserStep(u)
         \/ SerialDrained \/ ButtonPress
  PROVE  TimeLeft'
<1>1. UNCHANGED <<now, lists, deadline, spc, node, tpc>>
  BY DEF GeneratorStep, PollPresses, DelayGenerator, ReleaseDone, ReleaseTask, UserStep,
     FinishTask, EndTask, SerialDrained, ButtonPress, Printing, scheduler, table, timerTask
<1>2. T \in Tasks(ready) => T \in Tasks(ready')
  <2>1. ASSUME GeneratorStep PROVE T \in Tasks(ready) => T \in Tasks(ready')
    <3>1. Runs(G) /\ ready' \in {ready, Tail(ready)}
      BY <2>1 DEF GeneratorStep, PollPresses, DelayGenerator, ReleaseDone, ReleaseTask,
         RequestTask, kernel
    <3>2. Tasks(Tail(ready)) = Tasks(ready) \ {G}
      BY <3>1, RunningIsReady
    <3> QED BY <3>1, <3>2, ListTypes
  <2> QED BY <2>1 DEF UserStep, FinishTask, EndTask, SerialDrained, ButtonPress, Printing,
          kernel
<1> QED BY <1>1, <1>2, TimeLeftFrame DEF TimerTaskSleeps, lists

(* The tick at which a task comes due readies the timer task.              *)
LEMMA TickTimeLeft ==
  ASSUME TypeInv, SInv, WakeInv, HeldAlone, ~SlowTicks, TimeLeft, Tick
  PROVE  TimeLeft'
<1> DEFINE woken == IF gpc = "delay" THEN <<G>> ELSE <<>>
           posts == /\ \A i \in DOMAIN ready : ready[i] # T
                    /\ \E e \in armed : Expiration(e) <= now + 1
<1>1. spc = "receive" /\ tpc = "wait" /\ ready = <<>> /\ woken = <<G>>
  BY SettledIsIdle DEF Tick
<1>2. /\ now' = now + 1 /\ UNCHANGED <<active_tasks, deadline, spc, tpc>>
      /\ posts => ready' = (ready \o <<G>>) \o <<T>>
  BY <1>1 DEF Tick, scheduler, lists, table, timerTask
<1>3. CASE posts
  <2>1. ready \o <<G>> \in Seq({T, G}) /\ T \in {T, G}
    BY <1>1 DEF TypeInv, TypeOK
  <2>2. T \in Tasks(ready')
    <3>1. (ready \o <<G>>) \o <<T>> = Append(ready \o <<G>>, T)
      BY <2>1, AppendIsConcat
    <3>2. Tasks(Append(ready \o <<G>>, T)) = Tasks(ready \o <<G>>) \cup {T}
      BY <2>1, AppendTasks
    <3> QED BY <1>2, <1>3, <3>1, <3>2
  <2> QED BY <1>1, <1>2, <2>2 DEF TimeLeft, TimerTaskSleeps
<1>4. CASE ~posts
  <2>1. \A e \in armed : ~(Expiration(e) <= now + 1)
    BY <1>1, <1>4
  <2>2. \A u \in Tasks(active_tasks) : u \in armed /\ u # MON
    <3>1. expired = NONE
      BY <1>1 DEF SInv, CallbackInv
    <3> QED BY <3>1, ListTypes DEF SInv, TimerInv, TimersMatchLists
  <2>3. now \in Nat /\ \A u \in Tasks(active_tasks) : deadline[u] \in Nat
    BY ListTypes DEF TypeInv, TypeOK
  <2>4. \A u \in Tasks(active_tasks) : now + 1 < deadline[u]
    BY <2>1, <2>2, <2>3 DEF Expiration
  <2> QED BY <1>1, <1>2, <2>4 DEF TimeLeft
<1> QED BY <1>3, <1>4

LEMMA NextDeadlinesKept ==
  TimingBase /\ DeadlinesKept /\ [Next]_vars => DeadlinesKept'
<1> SUFFICES ASSUME TimingBase, PromptWork, DeadlinesAhead, TimeLeft, [Next]_vars
             PROVE  TimeLeft'
  BY DEF DeadlinesKept, PromptWork, OneRelease, DeadlinesAhead
<1>1. /\ TypeInv /\ SInv /\ WakeInv /\ HeldAlone /\ tpc \notin Printing /\ ~SlowTicks
  BY HeldAloneHolds DEF TimingBase, SafetyInv, PromptWork
<1>2. ASSUME Next PROVE TimeLeft'
  BY <1>1, <1>2, SchedulerTimeLeft, TimerTimeLeft, OthersTimeLeft, TickTimeLeft DEF Next
<1>3. ASSUME UNCHANGED vars PROVE TimeLeft'
  BY <1>3 DEF vars, kernel, scheduler, lists, table, timerTask, TimeLeft, TimerTaskSleeps
<1> QED BY <1>2, <1>3

(* With prompt work and deadlines at least a tick away, every task left on *)
(* the active list when a tick's work is done has time left: no expiration *)
(* is lost between the timer interrupt and the timer task's loop.          *)
THEOREM NoDeadlineMissed ==
  Spec => [](PromptWork /\ DeadlinesAhead => NoMissedDeadlineActive)
<1>1. Init => DeadlinesKept
  BY DEF Init, DeadlinesKept, TimeLeft, Tasks, ToSet
<1>2. TimingBase /\ DeadlinesKept => (PromptWork /\ DeadlinesAhead => NoMissedDeadlineActive)
  <2> SUFFICES ASSUME TimingBase, PromptWork, TimeLeft, Settled
               PROVE  \A u \in Tasks(active_tasks) : now < deadline[u]
    BY DEF DeadlinesKept, NoMissedDeadlineActive
  <2>1. TypeInv /\ SInv /\ WakeInv /\ HeldAlone
    BY HeldAloneHolds DEF TimingBase, SafetyInv
  <2>2. tpc = "wait" /\ T \notin Tasks(ready)
    BY <2>1, SettledIsIdle DEF Tasks, ToSet
  <2> QED BY <2>2 DEF TimeLeft, TimerTaskSleeps
<1> QED BY <1>1, <1>2, AlwaysBase, NextDeadlinesKept, PTL DEF Spec

-----------------------------------------------------------------------------
(***************************************************************************)
(* The generator's turn takes no time: start_ticks is still the present    *)
(* tick when it looks at the last of its tasks, so what it has looked at   *)
(* is within its period, and a tick comes only when it has looked at all.  *)
(***************************************************************************)
Within(i) == now - release_times[i] <= Period[i]

TurnInTime ==
  /\ gpc = "delay" => kind = 0 /\ \A i \in 1 .. Periodic : Within(i)
  /\ gpc \in {"run", "receive"} /\ kind > 0 => start_ticks = now
  /\ gpc = "run" => \A i \in 1 .. Periodic : i < kind => Within(i)
  /\ gpc = "receive" => \A i \in 1 .. Periodic : i <= kind => Within(i)

TurnsKept == PromptWork => TurnInTime

LEMMA TurnFrame ==
  ASSUME TurnInTime, UNCHANGED <<now, gpc, kind, start_ticks, release_times>>
  PROVE  TurnInTime'
BY DEF TurnInTime, Within

LEMMA GeneratorTurn ==
  ASSUME TypeInv, TurnInTime, GeneratorStep
  PROVE  TurnInTime'
<1>0. /\ Periodic \in Nat /\ kind \in Nat /\ now \in Nat /\ start_ticks \in Nat
      /\ release_times \in [1 .. Periodic -> Int] /\ Period \in [1 .. Periodic -> Nat]
      /\ gpc \in {"run", "receive", "delay"}
  <2>1. Periodic \in Nat /\ Period \in [1 .. Periodic -> Nat]
    BY NumbersAssumption
  <2>2. /\ kind \in Nat /\ now \in Nat /\ start_ticks \in Nat
        /\ release_times \in [1 .. Periodic -> Int] /\ gpc \in {"run", "receive", "delay"}
    BY DEF TypeInv, TypeOK
  <2> QED BY <2>1, <2>2
<1>1. ASSUME PollPresses PROVE TurnInTime'
  <2>1. /\ gpc = "run" /\ kind = 0 /\ UNCHANGED <<now, release_times>>
        /\ \/ gpc' = "receive" /\ kind' = 0
           \/ gpc' = "run" /\ kind' = 1 /\ start_ticks' = now
    BY <1>1 DEF PollPresses, RequestTask
  <2>2. \A i \in 1 .. Periodic : i > 0 /\ ~(i < 1)
    BY <1>0
  <2> QED BY <2>1, <2>2 DEF TurnInTime
<1>2. ASSUME NEW i \in 1 .. Periodic, ReleaseTask(i) PROVE TurnInTime'
  <2>1. /\ gpc = "run" /\ kind > 0 /\ i \in DueTasks /\ \A j \in DueTasks : i <= j
        /\ release_times' = [release_times EXCEPT ![i] = now]
        /\ gpc' = "receive" /\ kind' = i /\ UNCHANGED <<now, start_ticks>>
    BY <1>2 DEF ReleaseTask, RequestTask
  <2>2. start_ticks = now /\ \A j \in 1 .. Periodic : j < kind => Within(j)
    BY <2>1 DEF TurnInTime
  <2>3. ASSUME NEW j \in 1 .. Periodic, j < i PROVE Within(j)
    <3>1. CASE j < kind
      BY <2>2, <3>1
    <3>2. CASE ~(j < kind)
      <4>1. j \in kind .. Periodic /\ j \notin DueTasks
        BY <1>0, <2>1, <2>3, <3>2
      <4>2. ~(start_ticks - release_times[j] > Period[j])
        BY <4>1 DEF DueTasks
      <4>3. release_times[j] \in Int /\ Period[j] \in Nat
        BY <1>0
      <4> QED BY <1>0, <2>2, <4>2, <4>3 DEF Within
    <3> QED BY <3>1, <3>2
  <2>4. ASSUME NEW j \in 1 .. Periodic, j <= i PROVE Within(j)'
    <3>1. CASE j = i
      BY <1>0, <2>1, <3>1 DEF Within
    <3>2. CASE j # i
      <4>1. j < i /\ release_times'[j] = release_times[j]
        BY <1>0, <2>1, <2>4, <3>2
      <4> QED BY <2>1, <2>3, <4>1 DEF Within
    <3> QED BY <3>1, <3>2
  <2> QED BY <2>1, <2>2, <2>4 DEF TurnInTime
<1>3. ASSUME DelayGenerator PROVE TurnInTime'
  <2>1. /\ gpc = "run" /\ kind > 0 /\ DueTasks = {}
        /\ gpc' = "delay" /\ kind' = 0 /\ UNCHANGED <<now, release_times>>
    BY <1>3 DEF DelayGenerator
  <2>2. start_ticks = now /\ \A j \in 1 .. Periodic : j < kind => Within(j)
    BY <2>1 DEF TurnInTime
  <2>3. ASSUME NEW j \in 1 .. Periodic, ~(j < kind) PROVE Within(j)
    <3>1. j \in kind .. Periodic
      BY <1>0, <2>3
    <3>2. ~(start_ticks - release_times[j] > Period[j])
      BY <2>1, <3>1 DEF DueTasks
    <3>3. release_times[j] \in Int /\ Period[j] \in Nat
      BY <1>0
    <3> QED BY <1>0, <2>2, <3>2, <3>3 DEF Within
  <2> QED BY <2>1, <2>2, <2>3 DEF TurnInTime, Within
<1>4. ASSUME ReleaseDone PROVE TurnInTime'
  <2>1. /\ gpc = "receive" /\ gpc' = "run" /\ kind' = kind + 1
        /\ start_ticks' = (IF kind = 0 THEN now ELSE start_ticks)
        /\ UNCHANGED <<now, release_times>>
    BY <1>4 DEF ReleaseDone
  <2>2. start_ticks' = now
    BY <1>0, <2>1 DEF TurnInTime
  <2>3. ASSUME NEW i \in 1 .. Periodic, i < kind' PROVE Within(i)'
    <3>1. i <= kind
      BY <1>0, <2>1, <2>3
    <3> QED BY <2>1, <3>1 DEF TurnInTime, Within
  <2> QED BY <2>1, <2>2, <2>3 DEF TurnInTime
<1> QED BY <1>1, <1>2, <1>3, <1>4 DEF GeneratorStep

LEMMA NextTurnsKept ==
  TimingBase /\ TurnsKept /\ [Next]_vars => TurnsKept'
<1> SUFFICES ASSUME TimingBase, PromptWork, TurnInTime, [Next]_vars
             PROVE  TurnInTime'
  BY DEF TurnsKept, PromptWork, OneRelease
<1>1. /\ TypeInv /\ SInv /\ WakeInv /\ HeldAlone /\ ~SlowTicks
  BY HeldAloneHolds DEF TimingBase, SafetyInv, PromptWork
<1>2. ASSUME SchedulerStep PROVE TurnInTime'
  BY <1>2, TurnFrame DEF SchedulerStep, ServeTaskList, CreateFails, StartTimer,
     SchedulerWaits, AddActive, DeleteActive, DeleteOverdue, CancelTimer, UpdateOverdue,
     UpdateActive, CreateTask, CreateWithoutTimer, ReceiveDelete, generator
<1>3. ASSUME TimerStep PROVE TurnInTime'
  BY <1>3, TurnFrame DEF TimerStep, FireMonitor, FireDeadline, PostEntries, WaitForTick,
     TimerTaskWaits, MoveOverdue, LockMonitor, AskOverdue, PrintTasks,
     UnlockMonitor, RearmMonitor, generator
<1>4. ASSUME NEW u \in Users, UserStep(u) PROVE TurnInTime'
  BY <1>4, TurnFrame DEF UserStep, FinishTask, EndTask, generator
<1>5. ASSUME Tick PROVE TurnInTime'
  <2>1. gpc = "delay" /\ gpc' = "run" /\ kind = 0 /\ kind' = 0
    BY <1>1, <1>5, SettledIsIdle DEF Tick, TurnInTime
  <2>2. \A i \in 1 .. Periodic : ~(i < 0)
    BY NumbersAssumption
  <2> QED BY <2>1, <2>2 DEF TurnInTime
<1>6. ASSUME SerialDrained \/ ButtonPress \/ UNCHANGED vars PROVE TurnInTime'
  BY <1>6, TurnFrame DEF SerialDrained, ButtonPress, vars, generator
<1> QED BY <1>1, <1>2, <1>3, <1>4, <1>5, <1>6, GeneratorTurn DEF Next

(* With prompt work, when a tick's work is done no periodic task's last    *)
(* release is more than its period ago.                                    *)
THEOREM PeriodsKept == Spec => [](PromptWork => ReleasedInTime)
<1>1. Init => TurnsKept
  <2>1. \A i \in 1 .. Periodic : ~(i < 0)
    BY NumbersAssumption
  <2> QED BY <2>1 DEF Init, TurnsKept, TurnInTime
<1>2. TimingBase /\ TurnsKept => (PromptWork => ReleasedInTime)
  <2> SUFFICES ASSUME TimingBase, PromptWork, TurnInTime, Settled
               PROVE  \A i \in 1 .. Periodic : Within(i)
    BY DEF TurnsKept, ReleasedInTime, Within
  <2>1. gpc = "delay"
    BY HeldAloneHolds, SettledIsIdle DEF TimingBase, SafetyInv
  <2> QED BY <2>1 DEF TurnInTime
<1> QED BY <1>1, <1>2, AlwaysBase, NextTurnsKept, PTL DEF Spec
=============================================================================
