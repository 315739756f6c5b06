------------------------- MODULE DDScheduler_proofs -------------------------
(***************************************************************************)
(* Proofs about DDScheduler, for every number of tasks and every period,   *)
(* deadline and bound.                                                     *)
(***************************************************************************)
EXTENDS DDScheduler, TaskList_proofs

-----------------------------------------------------------------------------
(***************************************************************************)
(* Types.  TypeOK is not inductive: that the request the scheduler serves  *)
(* has a template, and that its node is one, follows only from where the   *)
(* three tasks are at that point.                                          *)
(***************************************************************************)
Printing == {"print_overdue", "print_tasks", "print_stats"}

QueuesDistinct == NoDuplicates(ready) /\ NoDuplicates(msg_q)

(* The timer task is in one place: ready, waiting for tasks_m, waiting for *)
(* an answer, for the serial line or for a tick.                           *)
TimerTaskPlace ==
  /\ T \in Tasks(ready) => /\ T \notin waiters /\ T \notin Tasks(msg_q)
                           /\ tpc \notin Printing
  /\ T \in Tasks(msg_q) => T \notin waiters /\ tpc \in {"ask_active", "ask_overdue"}
  /\ T \in waiters => tpc \in {"move_overdue", "lock_monitor"}

(* So is the generator, and its request stays what it was until answered.  *)
GeneratorPlace ==
  /\ G \in Tasks(ready) => /\ G \notin Tasks(msg_q) /\ client # G
                           /\ gpc # "delay"
  /\ G \in Tasks(msg_q) => client # G
  /\ G \in Tasks(msg_q) \/ client = G => gpc = "receive" /\ kind \in Kinds

(* Whom and what the scheduler serves at each point of its handlers.       *)
Served ==
  /\ spc = "receive" => client = NONE
  /\ spc \in {"start_timer", "add_task"} => client = G /\ node \in Users
  /\ spc \in {"delete_active", "delete_overdue", "cancel_timer"} => client \in Users
  /\ spc \in {"update_overdue", "update_active"} => client \in {G} \cup Users
  /\ spc = "cancel_timer" => node = client

(* A scheduled task has at most one request, queued or being served.       *)
UserPlace ==
  /\ client \in Users => state[client] = "receiving"
  /\ \A u \in Users \cap Tasks(msg_q) : state[u] = "receiving" /\ client # u

TypeInv == TypeOK /\ QueuesDistinct /\ TimerTaskPlace /\ GeneratorPlace /\ Served

-----------------------------------------------------------------------------
(***************************************************************************)
(* TypeOK by the components' variables: a step proves the parts it changes.*)
(***************************************************************************)
ClockOK == now \in 0 .. MaxTicks /\ halted \in Halts

KernelOK ==
  /\ ready \in Seq({T, G})
  /\ tasks_m \in {S, T, NONE} /\ waiters \subseteq {S, T}
  /\ armed \subseteq Users \cup {MON} /\ ticked \in BOOLEAN
  /\ monitorDue \in Nat
  /\ msg_q \in Seq(Clients) /\ pool \in BOOLEAN

SchedulerOK ==
  /\ spc \in SchedulerStates
  /\ client \in Clients \cup {NONE} /\ node \in Users \cup {NONE}
  /\ result \in {"ok", "error"} /\ priority \in Nat

ListsOK == active_tasks \in Seq(Users) /\ overdue_tasks \in Seq(Users)

TableOK ==
  /\ nodes \subseteq Users
  /\ deadline \in [Users -> Nat] /\ timer \in [Users -> BOOLEAN]
  /\ state \in [Users -> UserStates] /\ prio \in [Users -> Nat]
  /\ reply \in [Users -> {"none", "ok", "error"}]

TimerTaskOK == tpc \in TimerStates /\ expired \in Users \cup {NONE}

GeneratorOK ==
  /\ gpc \in {"run", "receive", "delay"} /\ kind \in Nat
  /\ start_ticks \in Nat /\ release_times \in [1 .. Periodic -> Int]
  /\ created \in BOOLEAN /\ generator_q \in 0 .. GeneratorQueue

LEMMA TypeParts ==
  ASSUME TypeInv
  PROVE  /\ ClockOK /\ KernelOK /\ SchedulerOK /\ ListsOK /\ TableOK
         /\ TimerTaskOK /\ GeneratorOK
BY DEF TypeInv, TypeOK, ClockOK, KernelOK, SchedulerOK, ListsOK, TableOK,
   TimerTaskOK, GeneratorOK

LEMMA TypeFrames ==
  ASSUME TypeInv
  PROVE  /\ UNCHANGED kernel => KernelOK'
         /\ UNCHANGED scheduler => SchedulerOK'
         /\ UNCHANGED lists => ListsOK'
         /\ UNCHANGED table => TableOK'
         /\ UNCHANGED timerTask => TimerTaskOK'
         /\ UNCHANGED generator => GeneratorOK'
         /\ /\ ClockOK' /\ KernelOK' /\ SchedulerOK' /\ ListsOK' /\ TableOK'
            /\ TimerTaskOK' /\ GeneratorOK'
            => TypeOK'
<1>1. UNCHANGED kernel => KernelOK'
  BY TypeParts DEF kernel, KernelOK
<1>2. UNCHANGED scheduler => SchedulerOK'
  BY TypeParts DEF scheduler, SchedulerOK
<1>3. UNCHANGED lists => ListsOK'
  BY TypeParts DEF lists, ListsOK
<1>4. UNCHANGED table => TableOK'
  BY TypeParts DEF table, TableOK
<1>5. UNCHANGED timerTask => TimerTaskOK'
  BY TypeParts DEF timerTask, TimerTaskOK
<1>6. UNCHANGED generator => GeneratorOK'
  BY TypeParts DEF generator, GeneratorOK
<1>7. /\ ClockOK' /\ KernelOK' /\ SchedulerOK' /\ ListsOK' /\ TableOK'
      /\ TimerTaskOK' /\ GeneratorOK'
      => TypeOK'
  BY DEF TypeOK, ClockOK, KernelOK, SchedulerOK, ListsOK, TableOK,
     TimerTaskOK, GeneratorOK
<1> QED BY <1>1, <1>2, <1>3, <1>4, <1>5, <1>6, <1>7

(* A task made ready, at the end of the ready queue of priority 1.         *)
LEMMA ReadyAppend ==
  ASSUME NEW q \in Seq({T, G}), NoDuplicates(q), NEW t \in {T, G}, t \notin Tasks(q)
  PROVE  /\ q \o <<t>> = Append(q, t)
         /\ q \o <<t>> \in Seq({T, G}) /\ NoDuplicates(q \o <<t>>)
         /\ Tasks(q \o <<t>>) = Tasks(q) \cup {t}
<1>1. q \o <<t>> = Append(q, t)
  BY AppendIsConcat
<1>2. /\ Append(q, t) \in Seq({T, G}) /\ NoDuplicates(Append(q, t))
      /\ Tasks(Append(q, t)) = Tasks(q) \cup {t}
  BY AppendTasks
<1> QED BY <1>1, <1>2

(* The running task of priority 1 blocks.                                  *)
LEMMA ReadyTail ==
  ASSUME NEW q \in Seq({T, G}), NoDuplicates(q), q # <<>>
  PROVE  /\ Tail(q) \in Seq({T, G}) /\ NoDuplicates(Tail(q))
         /\ Head(q) \in Tasks(q) /\ Tasks(Tail(q)) = Tasks(q) \ {Head(q)}
BY TailTasks

(* A request at the end of the scheduler's queue.                          *)
LEMMA RequestAppend ==
  ASSUME NEW q \in Seq(Clients), NoDuplicates(q), NEW c \in Clients, c \notin Tasks(q)
  PROVE  /\ Append(q, c) \in Seq(Clients) /\ NoDuplicates(Append(q, c))
         /\ Tasks(Append(q, c)) = Tasks(q) \cup {c}
BY AppendTasks

LEMMA RequestTail ==
  ASSUME NEW q \in Seq(Clients), NoDuplicates(q), q # <<>>
  PROVE  /\ Tail(q) \in Seq(Clients) /\ NoDuplicates(Tail(q))
         /\ Head(q) \in Tasks(q) /\ Tasks(Tail(q)) = Tasks(q) \ {Head(q)}
         /\ Tasks(q) \subseteq Clients
BY TailTasks, TasksOfSeq

(* The scheduler runs only when it does not wait, and the timer task and   *)
(* the generator only at the head of the ready queue.                      *)
LEMMA WhoRuns ==
  /\ Runs(S) => SchedulerReady /\ halted = "no"
  /\ \A t \in {T, G} : Runs(t) => /\ ~SchedulerReady /\ halted = "no"
                                  /\ ready # <<>> /\ t = Head(ready)
  /\ \A u \in Users : Runs(u) => /\ ~SchedulerReady /\ halted = "no"
                                 /\ ready = <<>> /\ UserReady(u)
BY ActorsAssumption DEF Runs

(* An unlock by the scheduler: the timer task gets the lock if it waits.   *)
LEMMA SchedulerUnlocks ==
  ASSUME TypeInv, Runs(S), UnlockTasks
  PROVE  /\ tasks_m' \in {T, NONE} /\ waiters' = {}
         /\ T \notin waiters => tasks_m' = NONE
BY WhoRuns DEF TypeInv, TypeOK, UnlockTasks, SchedulerReady

LEMMA UnlockReadiesTasks ==
  ASSUME TypeInv, Respond(UnlockReadies)
  PROVE  /\ ready' \in Seq({T, G}) /\ NoDuplicates(ready')
         /\ Tasks(ready') = Tasks(ready) \cup (waiters \cap {T})
<1>1. ready \in Seq({T, G}) /\ NoDuplicates(ready)
  BY DEF TypeInv, TypeOK, QueuesDistinct
<1>2. CASE T \in waiters
  <2>1. T \notin Tasks(ready) /\ ready' = ready \o <<T>>
    BY <1>2 DEF TypeInv, TimerTaskPlace, Respond, UnlockReadies
  <2>2. /\ ready' \in Seq({T, G}) /\ NoDuplicates(ready')
        /\ Tasks(ready') = Tasks(ready) \cup {T}
    BY <1>1, <2>1, ReadyAppend
  <2> QED BY <1>2, <2>2
<1>3. CASE T \notin waiters
  <2>1. ready' = ready
    BY <1>1, <1>3, ConcatEmptySeq DEF Respond, UnlockReadies
  <2> QED BY <1>1, <1>3, <2>1
<1> QED BY <1>2, <1>3

(* The generator's answer, after whatever the unlock readied.              *)
LEMMA AnswerGeneratorTasks ==
  ASSUME TypeInv, Respond(UnlockReadies \o <<G>>), G \notin Tasks(ready)
  PROVE  /\ ready' \in Seq({T, G}) /\ NoDuplicates(ready')
         /\ Tasks(ready') = Tasks(ready) \cup (waiters \cap {T}) \cup {G}
<1> DEFINE r == ready \o UnlockReadies
<1>1. ready \in Seq({T, G}) /\ UnlockReadies \in Seq({T, G}) /\ <<G>> \in Seq({T, G})
  <2>1. <<>> \in Seq({T, G}) /\ <<T>> \in Seq({T, G}) /\ <<G>> \in Seq({T, G})
    OBVIOUS
  <2> QED BY <2>1 DEF TypeInv, TypeOK, UnlockReadies
<1>2. /\ r \in Seq({T, G}) /\ NoDuplicates(r)
      /\ Tasks(r) = Tasks(ready) \cup (waiters \cap {T})
  <2>1. NoDuplicates(ready)
    BY DEF TypeInv, QueuesDistinct
  <2>2. CASE T \in waiters
    <3>1. T \notin Tasks(ready) /\ r = ready \o <<T>>
      BY <2>2 DEF TypeInv, TimerTaskPlace, UnlockReadies
    <3>2. /\ r \in Seq({T, G}) /\ NoDuplicates(r)
          /\ Tasks(r) = Tasks(ready) \cup {T}
      BY <1>1, <2>1, <3>1, ReadyAppend
    <3> QED BY <2>2, <3>2
  <2>3. CASE T \notin waiters
    <3>1. r = ready
      BY <1>1, <2>3, ConcatEmptySeq DEF UnlockReadies
    <3> QED BY <1>1, <2>1, <2>3, <3>1
  <2> QED BY <2>2, <2>3
<1>3. ready' = r \o <<G>>
  BY <1>1, ConcatAssociative DEF Respond
<1> HIDE DEF r
<1>4. G \notin Tasks(r)
  BY <1>2, ActorsAssumption
<1>5. /\ ready' \in Seq({T, G}) /\ NoDuplicates(ready')
      /\ Tasks(ready') = Tasks(r) \cup {G}
  BY <1>2, <1>3, <1>4, ReadyAppend
<1> QED BY <1>2, <1>5

(* A request taken from the queue.                                         *)
LEMMA ReceiveTasks ==
  ASSUME TypeInv, NEW c, Receive(c)
  PROVE  /\ c \in Tasks(msg_q) /\ c \in Clients
         /\ msg_q' \in Seq(Clients) /\ NoDuplicates(msg_q')
         /\ Tasks(msg_q') = Tasks(msg_q) \ {c}
<1>1. msg_q # <<>> /\ c = Head(msg_q) /\ msg_q' = Tail(msg_q)
  BY WhoRuns DEF Receive, SchedulerReady
<1>2. msg_q \in Seq(Clients) /\ NoDuplicates(msg_q)
  BY DEF TypeInv, TypeOK, QueuesDistinct
<1> QED BY <1>1, <1>2, RequestTail

(* The steps the handlers have in common keep the types of what they set.  *)
LEMMA FreeNodeTypes ==
  ASSUME TypeOK, NEW u \in Users, FreeNode(u)
  PROVE  /\ nodes' \subseteq Users /\ deadline' \in [Users -> Nat]
         /\ timer' \in [Users -> BOOLEAN]
<1>1. nodes \subseteq Users /\ deadline \in [Users -> Nat] /\ timer \in [Users -> BOOLEAN]
  BY DEF TypeOK
<1>2. nodes' \subseteq Users
  BY <1>1 DEF FreeNode
<1>3. deadline' \in [Users -> Nat]
  BY <1>1 DEF FreeNode
<1>4. timer' \in [Users -> BOOLEAN]
  BY <1>1 DEF FreeNode
<1> QED BY <1>2, <1>3, <1>4

LEMMA RefuseDeleteTypes ==
  ASSUME TypeOK, client \in Users, RefuseDelete
  PROVE  /\ state' \in [Users -> UserStates] /\ reply' \in [Users -> {"none", "ok", "error"}]
         /\ spc' = "receive" /\ client' = NONE /\ node' = NONE
         /\ result' = "ok" /\ priority' = 0
<1>1. state \in [Users -> UserStates] /\ reply \in [Users -> {"none", "ok", "error"}]
  BY DEF TypeOK
<1> QED BY <1>1 DEF RefuseDelete, EndRequest, UserStates

LEMMA UpdateListTypes ==
  ASSUME TypeOK, NEW list \in Seq(Users), NEW start \in Nat, UpdateList(list, start)
  PROVE  /\ prio' \in [Users -> Nat]
         /\ LastPriority(list, start, LowestPriority) \in Nat
         /\ halted' \in Halts
<1>1. prio \in [Users -> Nat] /\ LowestPriority \in Nat
  BY NumbersAssumption DEF TypeOK
<1>2. /\ UpdatedPriorities(prio, list, start, LowestPriority) \in [Users -> Nat]
      /\ LastPriority(list, start, LowestPriority) \in Nat
  BY <1>1, UpdatedPrioritiesProperties
<1>3. prio' \in [Users -> Nat]
  BY <1>1, <1>2 DEF UpdateList
<1>4. halted' \in Halts
  BY DEF UpdateList, Halts, TypeOK
<1> QED BY <1>2, <1>3, <1>4

(* After a deletion from a list: the timer is next, or the node is gone.   *)
LEMMA CancelOrFreeTypes ==
  ASSUME TypeOK, NEW u \in Users, CancelOrFree(u)
  PROVE  /\ node' = u /\ spc' \in {"cancel_timer", "update_overdue"}
         /\ nodes' \subseteq Users /\ deadline' \in [Users -> Nat]
         /\ timer' \in [Users -> BOOLEAN]
<1>1. CASE timer[u]
  BY <1>1 DEF CancelOrFree, TypeOK
<1>2. CASE ~timer[u]
  <2>1. node' = u /\ spc' = "update_overdue" /\ FreeNode(u)
    BY <1>2 DEF CancelOrFree
  <2> QED BY <2>1, FreeNodeTypes
<1> QED BY <1>1, <1>2

-----------------------------------------------------------------------------
(* Every step of the scheduler keeps the types.                            *)
LEMMA SchedulerTypes == TypeInv /\ SchedulerStep => TypeInv'
<1> SUFFICES ASSUME TypeInv, SchedulerStep PROVE TypeInv'
  OBVIOUS
<1>1. ASSUME ServeTaskList PROVE TypeInv'
  <2>1. /\ T \in Tasks(msg_q) /\ msg_q' \in Seq(Clients) /\ NoDuplicates(msg_q')
        /\ Tasks(msg_q') = Tasks(msg_q) \ {T}
    BY <1>1, ReceiveTasks DEF ServeTaskList
  <2>2. T \notin Tasks(ready)
    BY <2>1 DEF TypeInv, TimerTaskPlace
  <2>3. /\ ready' \in Seq({T, G}) /\ NoDuplicates(ready')
        /\ Tasks(ready') = Tasks(ready) \cup {T}
    BY <1>1, <2>2, ReadyAppend DEF ServeTaskList, Respond, TypeInv, TypeOK, QueuesDistinct
  <2>4. TypeOK'
    BY <1>1, <2>1, <2>3 DEF TypeInv, TypeOK, ServeTaskList, scheduler, lists,
       table, timerTask, generator
  <2>5. TimerTaskPlace'
    BY <1>1, <2>1, <2>3, ActorsAssumption DEF TypeInv, TimerTaskPlace,
       ServeTaskList, timerTask, Printing
  <2>6. GeneratorPlace'
    BY <1>1, <2>1, <2>3, ActorsAssumption DEF TypeInv, GeneratorPlace,
       ServeTaskList, scheduler, generator
  <2> QED BY <1>1, <2>1, <2>3, <2>4, <2>5, <2>6 DEF TypeInv, QueuesDistinct,
          Served, ServeTaskList, scheduler
<1>2. ASSUME CreateFails PROVE TypeInv'
  <2>1. /\ G \in Tasks(msg_q) /\ msg_q' \in Seq(Clients) /\ NoDuplicates(msg_q')
        /\ Tasks(msg_q') = Tasks(msg_q) \ {G}
    BY <1>2, ReceiveTasks DEF CreateFails
  <2>2. G \notin Tasks(ready) /\ client # G /\ gpc # "delay"
    BY <2>1 DEF TypeInv, GeneratorPlace
  <2>3. /\ ready' \in Seq({T, G}) /\ NoDuplicates(ready')
        /\ Tasks(ready') = Tasks(ready) \cup {G}
    BY <1>2, <2>2, ReadyAppend DEF CreateFails, Respond, TypeInv, TypeOK, QueuesDistinct
  <2>4. TypeOK'
    <3>1. ClockOK'
      BY <1>2, <2>1, <2>3, TypeParts DEF ClockOK, CreateFails
    <3>2. KernelOK'
      BY <1>2, <2>1, <2>3, TypeParts DEF KernelOK, CreateFails
    <3>3. GeneratorOK'
      BY <1>2, <2>1, <2>3, TypeParts DEF GeneratorOK, CreateFails
    <3> QED BY <1>2, <3>1, <3>2, <3>3, TypeFrames DEF CreateFails
  <2>5. TimerTaskPlace'
    BY <1>2, <2>1, <2>3, ActorsAssumption DEF TypeInv, TimerTaskPlace,
       CreateFails, timerTask
  <2>6. GeneratorPlace'
    BY <1>2, <2>1, <2>2, <2>3 DEF TypeInv, GeneratorPlace, CreateFails, scheduler
  <2> QED BY <1>2, <2>1, <2>3, <2>4, <2>5, <2>6 DEF TypeInv, QueuesDistinct,
          Served, CreateFails, scheduler
<1>3. ASSUME StartTimer PROVE TypeInv'
  <2>1. node \in Users
    BY <1>3 DEF StartTimer, TypeInv, Served
  <2>2. TypeOK'
    BY <1>3, <2>1 DEF TypeInv, TypeOK, StartTimer, lists, timerTask, generator,
       SchedulerStates
  <2> QED BY <1>3, <2>2 DEF TypeInv, QueuesDistinct, TimerTaskPlace,
          GeneratorPlace, Served, StartTimer, timerTask, generator
<1>4. ASSUME SchedulerWaits PROVE TypeInv'
  <2>1. TypeOK'
    BY <1>4 DEF TypeInv, TypeOK, SchedulerWaits, scheduler, lists, table,
       timerTask, generator
  <2>2. TimerTaskPlace'
    BY <1>4, ActorsAssumption DEF TypeInv, TimerTaskPlace, SchedulerWaits, timerTask
  <2> QED BY <1>4, <2>1, <2>2 DEF TypeInv, QueuesDistinct, GeneratorPlace,
          Served, SchedulerWaits, scheduler, generator
<1>5. ASSUME AddActive PROVE TypeInv'
  <2>1. /\ tasks_m' \in {T, NONE} /\ waiters' = {}
        /\ ready' \in Seq({T, G}) /\ NoDuplicates(ready')
        /\ Tasks(ready') = Tasks(ready) \cup (waiters \cap {T})
    BY <1>5, SchedulerUnlocks, UnlockReadiesTasks DEF AddActive
  <2>2. active_tasks' \in Seq(Users)
    BY <1>5, AddTaskProperties DEF AddActive, TypeInv, TypeOK, Served
  <2>3. TypeOK'
    <3>1. ClockOK'
      BY <1>5, <2>1, <2>2, TypeParts DEF ClockOK, AddActive
    <3>2. KernelOK'
      BY <1>5, <2>1, <2>2, TypeParts DEF KernelOK, AddActive
    <3>3. SchedulerOK'
      BY <1>5, <2>1, <2>2, TypeParts DEF SchedulerOK, AddActive,
         SchedulerStates
    <3>4. ListsOK'
      BY <1>5, <2>1, <2>2, TypeParts DEF ListsOK, AddActive
    <3> QED BY <1>5, <3>1, <3>2, <3>3, <3>4, TypeFrames DEF AddActive
  <2>4. TimerTaskPlace'
    BY <1>5, <2>1 DEF TypeInv, TimerTaskPlace, AddActive, timerTask, Printing
  <2>5. GeneratorPlace'
    BY <1>5, <2>1, ActorsAssumption DEF TypeInv, GeneratorPlace, AddActive, generator
  <2> QED BY <1>5, <2>1, <2>3, <2>4, <2>5 DEF TypeInv, QueuesDistinct, Served, AddActive
<1>6. ASSUME DeleteActive PROVE TypeInv'
  <2>1. /\ tasks_m' \in {S, T, NONE} /\ waiters' \subseteq waiters
        /\ ready' \in Seq({T, G}) /\ NoDuplicates(ready')
        /\ Tasks(ready') = Tasks(ready) \/ /\ Tasks(ready') = Tasks(ready) \cup (waiters \cap {T})
                                           /\ waiters' = {}
    BY <1>6, SchedulerUnlocks, UnlockReadiesTasks DEF DeleteActive, LeaveDelete,
       TypeInv, TypeOK, QueuesDistinct
  <2>2. client \in Users
    BY <1>6 DEF DeleteActive, TypeInv, Served
  <2>3. /\ active_tasks' \in Seq(Users) /\ node' \in Users \cup {NONE}
        /\ nodes' \subseteq Users /\ deadline' \in [Users -> Nat]
        /\ timer' \in [Users -> BOOLEAN] /\ result' \in {"ok", "error"}
        /\ spc' \in {"delete_overdue", "cancel_timer", "update_overdue"}
        /\ spc' = "cancel_timer" => node' = client
    <3>1. CASE client \in Tasks(active_tasks)
      <4>1. active_tasks' \in Seq(Users)
        BY <1>6, <3>1, DeleteTaskType DEF DeleteActive, TypeInv, TypeOK
      <4>2. /\ CancelOrFree(client)
            /\ result' \in IF timer[client] THEN {result} ELSE {"ok", "error"}
        BY <1>6, <3>1 DEF DeleteActive
      <4>3. result' \in {"ok", "error"}
        BY <4>2 DEF TypeInv, TypeOK
      <4> QED BY <2>2, <4>1, <4>2, <4>3, CancelOrFreeTypes DEF TypeInv
    <3>2. CASE client \notin Tasks(active_tasks)
      BY <1>6, <3>2 DEF DeleteActive, TypeInv, TypeOK
    <3> QED BY <3>1, <3>2
  <2>4. TypeOK'
    <3>1. ClockOK'
      BY <1>6, <2>1, <2>3, TypeParts DEF ClockOK, DeleteActive
    <3>2. KernelOK'
      BY <1>6, <2>1, <2>3, TypeParts DEF KernelOK, DeleteActive
    <3>3. SchedulerOK'
      BY <1>6, <2>1, <2>3, TypeParts DEF SchedulerOK, DeleteActive,
         SchedulerStates
    <3>4. ListsOK'
      BY <1>6, <2>1, <2>3, TypeParts DEF ListsOK, DeleteActive
    <3>5. TableOK'
      BY <1>6, <2>1, <2>3, TypeParts DEF TableOK, DeleteActive
    <3> QED BY <1>6, <3>1, <3>2, <3>3, <3>4, <3>5, TypeFrames DEF DeleteActive
  <2>5. TimerTaskPlace'
    BY <1>6, <2>1 DEF TypeInv, TimerTaskPlace, DeleteActive, timerTask, Printing
  <2>6. GeneratorPlace'
    BY <1>6, <2>1, ActorsAssumption DEF TypeInv, GeneratorPlace, DeleteActive, generator
  <2> QED BY <1>6, <2>1, <2>2, <2>3, <2>4, <2>5, <2>6 DEF TypeInv, QueuesDistinct,
          Served, DeleteActive
<1>7. ASSUME DeleteOverdue PROVE TypeInv'
  <2>1. /\ tasks_m' \in {S, T, NONE} /\ waiters' \subseteq waiters
        /\ ready' \in Seq({T, G}) /\ NoDuplicates(ready')
        /\ Tasks(ready') = Tasks(ready) \/ /\ Tasks(ready') = Tasks(ready) \cup (waiters \cap {T})
                                           /\ waiters' = {}
    BY <1>7, SchedulerUnlocks, UnlockReadiesTasks DEF DeleteOverdue, LeaveDelete,
       TypeInv, TypeOK, QueuesDistinct
  <2>2. client \in Users
    BY <1>7 DEF DeleteOverdue, TypeInv, Served
  <2>3. CASE client \in Tasks(overdue_tasks)
    <3>1. overdue_tasks' \in Seq(Users)
      BY <1>7, <2>3, DeleteTaskType DEF DeleteOverdue, TypeInv, TypeOK
    <3>2. /\ CancelOrFree(client) /\ UNCHANGED <<client, result, priority, state, reply>>
      BY <1>7, <2>3 DEF DeleteOverdue
    <3>3. /\ node' = client /\ spc' \in {"cancel_timer", "update_overdue"}
          /\ nodes' \subseteq Users /\ deadline' \in [Users -> Nat]
          /\ timer' \in [Users -> BOOLEAN]
      BY <2>2, <3>2, CancelOrFreeTypes DEF TypeInv
    <3>4. TypeOK'
      <4>1. ClockOK'
        BY <1>7, <2>1, <2>2, <3>1, <3>2, <3>3, TypeParts DEF ClockOK,
           DeleteOverdue
      <4>2. KernelOK'
        BY <1>7, <2>1, <2>2, <3>1, <3>2, <3>3, TypeParts DEF KernelOK,
           DeleteOverdue
      <4>3. SchedulerOK'
        BY <1>7, <2>1, <2>2, <3>1, <3>2, <3>3, TypeParts DEF SchedulerOK,
           DeleteOverdue, SchedulerStates
      <4>4. ListsOK'
        BY <1>7, <2>1, <2>2, <3>1, <3>2, <3>3, TypeParts DEF ListsOK,
           DeleteOverdue
      <4>5. TableOK'
        BY <1>7, <2>1, <2>2, <3>1, <3>2, <3>3, TypeParts DEF TableOK,
           DeleteOverdue
      <4> QED BY <1>7, <4>1, <4>2, <4>3, <4>4, <4>5, TypeFrames DEF
         DeleteOverdue
    <3>5. TimerTaskPlace'
      BY <1>7, <2>1 DEF TypeInv, TimerTaskPlace, DeleteOverdue, timerTask, Printing
    <3>6. GeneratorPlace'
      BY <1>7, <2>1, <3>2, ActorsAssumption DEF TypeInv, GeneratorPlace,
         DeleteOverdue, generator
    <3> QED BY <1>7, <2>1, <2>2, <3>2, <3>3, <3>4, <3>5, <3>6 DEF TypeInv,
            QueuesDistinct, Served, DeleteOverdue
  <2>4. CASE client \notin Tasks(overdue_tasks)
    <3>1. RefuseDelete /\ UNCHANGED <<overdue_tasks, nodes, deadline, timer>>
      BY <1>7, <2>4 DEF DeleteOverdue
    <3>2. TypeOK'
      BY <1>7, <2>1, <3>1 DEF TypeInv, TypeOK, DeleteOverdue, RefuseDelete,
         EndRequest, timerTask, generator, SchedulerStates, UserStates
    <3>3. TimerTaskPlace'
      BY <1>7, <2>1 DEF TypeInv, TimerTaskPlace, DeleteOverdue, timerTask, Printing
    <3>4. GeneratorPlace'
      BY <1>7, <2>1, <2>2, <3>1, ActorsAssumption DEF TypeInv, GeneratorPlace,
         DeleteOverdue, RefuseDelete, EndRequest, generator
    <3> QED BY <1>7, <2>1, <3>1, <3>2, <3>3, <3>4 DEF TypeInv, QueuesDistinct,
            Served, DeleteOverdue, RefuseDelete, EndRequest
  <2> QED BY <2>3, <2>4
<1>8. ASSUME CancelTimer PROVE TypeInv'
  <2>1. client \in Users /\ node = client
    BY <1>8 DEF CancelTimer, TypeInv, Served
  <2>2. CASE node \in armed
    <3>1. TypeOK'
      <4>1. FreeNode(node) /\ spc' = "update_overdue" /\ result' = "ok"
            /\ armed' = armed \ {node}
            /\ UNCHANGED <<client, node, priority, state, reply>>
        BY <1>8, <2>2 DEF CancelTimer
      <4>2. /\ nodes' \subseteq Users /\ deadline' \in [Users -> Nat]
            /\ timer' \in [Users -> BOOLEAN]
        BY <2>1, <4>1, FreeNodeTypes DEF TypeInv
      <4>3. ClockOK'
        BY <1>8, <4>1, <4>2, TypeParts DEF ClockOK, CancelTimer
      <4>4. KernelOK'
        BY <1>8, <4>1, <4>2, TypeParts DEF KernelOK, CancelTimer
      <4>5. SchedulerOK'
        BY <1>8, <4>1, <4>2, TypeParts DEF SchedulerOK, CancelTimer,
           SchedulerStates
      <4>6. TableOK'
        BY <1>8, <4>1, <4>2, TypeParts DEF TableOK, CancelTimer
      <4> QED BY <1>8, <4>3, <4>4, <4>5, <4>6, TypeFrames DEF CancelTimer
    <3> QED BY <1>8, <2>1, <2>2, <3>1 DEF TypeInv, QueuesDistinct, TimerTaskPlace,
            GeneratorPlace, Served, CancelTimer, timerTask, generator
  <2>3. CASE node \notin armed
    <3>1. TypeOK'
      <4>1. RefuseDelete /\ UNCHANGED <<armed, nodes, deadline, timer>>
        BY <1>8, <2>3 DEF CancelTimer
      <4>2. /\ state' \in [Users -> UserStates] /\ reply' \in [Users -> {"none", "ok", "error"}]
            /\ spc' = "receive" /\ client' = NONE /\ node' = NONE
            /\ result' = "ok" /\ priority' = 0
        BY <2>1, <4>1, RefuseDeleteTypes DEF TypeInv
      <4> QED BY <1>8, <4>1, <4>2 DEF TypeInv, TypeOK, CancelTimer, lists,
              timerTask, generator, SchedulerStates
    <3> QED BY <1>8, <2>3, <3>1, ActorsAssumption DEF TypeInv, QueuesDistinct,
            TimerTaskPlace, GeneratorPlace, Served, CancelTimer, RefuseDelete,
            EndRequest, timerTask, generator
  <2> QED BY <2>2, <2>3
<1>9. ASSUME UpdateOverdue PROVE TypeInv'
  <2>1. /\ tasks_m' \in {T, NONE} /\ waiters' = {}
        /\ ready' \in Seq({T, G}) /\ NoDuplicates(ready')
        /\ Tasks(ready') = Tasks(ready) \cup (waiters \cap {T})
    BY <1>9, SchedulerUnlocks, UnlockReadiesTasks DEF UpdateOverdue, UpdateList
  <2>2. /\ prio' \in [Users -> Nat] /\ priority' \in Nat
        /\ halted' \in Halts
    <3>1. overdue_tasks \in Seq(Users) /\ GeneratorPriority \in Nat
      BY NumbersAssumption DEF TypeInv, TypeOK
    <3> QED BY <1>9, <3>1, UpdateListTypes DEF UpdateOverdue, TypeInv
  <2>3. TypeOK'
    <3>1. ClockOK'
      BY <1>9, <2>1, <2>2, TypeParts DEF ClockOK, UpdateOverdue
    <3>2. KernelOK'
      BY <1>9, <2>1, <2>2, TypeParts DEF KernelOK, UpdateOverdue
    <3>3. SchedulerOK'
      BY <1>9, <2>1, <2>2, TypeParts DEF SchedulerOK, UpdateOverdue,
         SchedulerStates
    <3>4. TableOK'
      BY <1>9, <2>1, <2>2, TypeParts DEF TableOK, UpdateOverdue
    <3> QED BY <1>9, <3>1, <3>2, <3>3, <3>4, TypeFrames DEF UpdateOverdue
  <2>4. TimerTaskPlace'
    BY <1>9, <2>1 DEF TypeInv, TimerTaskPlace, UpdateOverdue, timerTask, Printing
  <2>5. GeneratorPlace'
    BY <1>9, <2>1, ActorsAssumption DEF TypeInv, GeneratorPlace, UpdateOverdue, generator
  <2> QED BY <1>9, <2>1, <2>3, <2>4, <2>5 DEF TypeInv, QueuesDistinct, Served,
          UpdateOverdue
<1>10. ASSUME UpdateActive PROVE TypeInv'
  <2>1. tasks_m' \in {T, NONE} /\ waiters' = {}
    BY <1>10, SchedulerUnlocks DEF UpdateActive, UpdateList
  <2>2. /\ prio' \in [Users -> Nat]
        /\ halted' \in Halts
    <3>1. active_tasks \in Seq(Users) /\ priority \in Nat
      BY DEF TypeInv, TypeOK
    <3> QED BY <1>10, <3>1, UpdateListTypes DEF UpdateActive, TypeInv
  <2>3. CASE client = G /\ created' = TRUE /\ Respond(UnlockReadies \o <<G>>)
             /\ UNCHANGED <<state, reply>>
    <3>1. G \notin Tasks(ready) /\ G \notin Tasks(msg_q) /\ gpc = "receive"
      BY <2>3 DEF TypeInv, GeneratorPlace
    <3>2. /\ ready' \in Seq({T, G}) /\ NoDuplicates(ready')
          /\ Tasks(ready') = Tasks(ready) \cup (waiters \cap {T}) \cup {G}
      BY <2>3, <3>1, AnswerGeneratorTasks
    <3>3. TypeOK'
      BY <1>10, <2>1, <2>2, <2>3, <3>2 DEF TypeInv, TypeOK, UpdateActive,
         EndRequest, lists, timerTask, SchedulerStates
    <3>4. TimerTaskPlace'
      BY <1>10, <2>1, <3>2, ActorsAssumption DEF TypeInv, TimerTaskPlace,
         UpdateActive, timerTask, Printing
    <3>5. GeneratorPlace'
      BY <1>10, <3>1, <3>2, ActorsAssumption DEF TypeInv, GeneratorPlace,
         UpdateActive, EndRequest
    <3> QED BY <1>10, <3>2, <3>3, <3>4, <3>5 DEF TypeInv, QueuesDistinct, Served,
            UpdateActive, EndRequest
  <2>4. CASE /\ client \in Users
             /\ reply' = [reply EXCEPT ![client] = result]
             /\ state' = [state EXCEPT ![client] = "aborted"]
             /\ Respond(UnlockReadies) /\ UNCHANGED created
    <3>1. /\ ready' \in Seq({T, G}) /\ NoDuplicates(ready')
          /\ Tasks(ready') = Tasks(ready) \cup (waiters \cap {T})
      BY <2>4, UnlockReadiesTasks
    <3>2. TypeOK'
      <4>1. /\ state' \in [Users -> UserStates]
            /\ reply' \in [Users -> {"none", "ok", "error"}]
        BY <2>4 DEF TypeInv, TypeOK, UserStates
      <4> QED BY <1>10, <2>1, <2>2, <2>4, <3>1, <4>1 DEF TypeInv, TypeOK,
              UpdateActive, EndRequest, lists, timerTask, SchedulerStates
    <3>3. TimerTaskPlace'
      BY <1>10, <2>1, <3>1 DEF TypeInv, TimerTaskPlace, UpdateActive, timerTask, Printing
    <3>4. GeneratorPlace'
      BY <1>10, <3>1, ActorsAssumption DEF TypeInv, GeneratorPlace, UpdateActive,
         EndRequest
    <3> QED BY <1>10, <3>1, <3>2, <3>3, <3>4 DEF TypeInv, QueuesDistinct, Served,
            UpdateActive, EndRequest
  <2> QED BY <1>10, <2>3, <2>4 DEF UpdateActive
<1>11. ASSUME NEW u \in Users, CreateTask(u) PROVE TypeInv'
  <2>1. /\ G \in Tasks(msg_q) /\ msg_q' \in Seq(Clients) /\ NoDuplicates(msg_q')
        /\ Tasks(msg_q') = Tasks(msg_q) \ {G}
    BY <1>11, ReceiveTasks DEF CreateTask
  <2>2. gpc = "receive" /\ kind \in Kinds /\ G \notin Tasks(ready)
    BY <2>1 DEF TypeInv, GeneratorPlace
  <2>3. deadline' \in [Users -> Nat] /\ prio' \in [Users -> Nat]
    <3>1. now + Deadline[kind] \in Nat /\ TemplatePriority[kind] \in Nat
      <4>1. now \in Nat
        BY NumbersAssumption DEF TypeInv, TypeOK
      <4>2. Deadline[kind] \in Nat /\ TemplatePriority[kind] \in Nat
        BY <2>2, NumbersAssumption
      <4> QED BY <4>1, <4>2
    <3> QED BY <1>11, <3>1 DEF CreateTask, TypeInv, TypeOK
  <2>4. TypeOK'
    <3>1. ClockOK'
      BY <1>11, <2>1, <2>3, TypeParts DEF ClockOK, CreateTask
    <3>2. KernelOK'
      BY <1>11, <2>1, <2>3, TypeParts DEF KernelOK, CreateTask, Clients
    <3>3. SchedulerOK'
      BY <1>11, <2>1, <2>3, TypeParts DEF SchedulerOK, CreateTask,
         SchedulerStates, Clients
    <3>4. TableOK'
      BY <1>11, <2>1, <2>3, TypeParts DEF TableOK, CreateTask, UserStates
    <3> QED BY <1>11, <3>1, <3>2, <3>3, <3>4, TypeFrames DEF CreateTask
  <2>5. TimerTaskPlace'
    BY <1>11, <2>1, ActorsAssumption DEF TypeInv, TimerTaskPlace, CreateTask, timerTask
  <2>6. GeneratorPlace'
    BY <1>11, <2>1, <2>2 DEF TypeInv, GeneratorPlace, CreateTask, generator
  <2> QED BY <1>11, <2>1, <2>4, <2>5, <2>6 DEF TypeInv, QueuesDistinct, Served, CreateTask
<1>12. ASSUME NEW u \in Users, ReceiveDelete(u) PROVE TypeInv'
  <2>1. /\ msg_q' \in Seq(Clients) /\ NoDuplicates(msg_q')
        /\ Tasks(msg_q') = Tasks(msg_q) \ {u}
    BY <1>12, ReceiveTasks DEF ReceiveDelete
  <2>2. TypeOK'
    <3>1. ClockOK'
      BY <1>12, <2>1, TypeParts DEF ClockOK, ReceiveDelete
    <3>2. KernelOK'
      BY <1>12, <2>1, TypeParts DEF KernelOK, ReceiveDelete, Clients
    <3>3. SchedulerOK'
      BY <1>12, <2>1, TypeParts DEF SchedulerOK, ReceiveDelete,
         SchedulerStates, Clients
    <3> QED BY <1>12, <3>1, <3>2, <3>3, TypeFrames DEF ReceiveDelete
  <2>3. TimerTaskPlace'
    BY <1>12, <2>1 DEF TypeInv, TimerTaskPlace, ReceiveDelete, timerTask
  <2>4. GeneratorPlace'
    BY <1>12, <2>1, ActorsAssumption DEF TypeInv, GeneratorPlace, ReceiveDelete, generator
  <2> QED BY <1>12, <2>1, <2>2, <2>3, <2>4 DEF TypeInv, QueuesDistinct, Served,
          ReceiveDelete
<1>13. ASSUME NEW u \in Users, CreateWithoutTimer(u) PROVE TypeInv'
  <2>1. /\ G \in Tasks(msg_q) /\ msg_q' \in Seq(Clients) /\ NoDuplicates(msg_q')
        /\ Tasks(msg_q') = Tasks(msg_q) \ {G}
    BY <1>13, ReceiveTasks DEF CreateWithoutTimer
  <2>2. G \notin Tasks(ready) /\ client # G /\ gpc # "delay" /\ kind \in Kinds
    BY <2>1 DEF TypeInv, GeneratorPlace
  <2>3. /\ ready' \in Seq({T, G}) /\ NoDuplicates(ready')
        /\ Tasks(ready') = Tasks(ready) \cup {G}
    BY <1>13, <2>2, ReadyAppend DEF CreateWithoutTimer, Respond, TypeInv, TypeOK,
       QueuesDistinct
  <2>4. prio' \in [Users -> Nat] /\ state' \in [Users -> UserStates]
    <3>1. TemplatePriority[kind] \in Nat
      BY <2>2, NumbersAssumption
    <3> QED BY <1>13, <3>1 DEF CreateWithoutTimer, TypeInv, TypeOK, UserStates
  <2>5. TypeOK'
    <3>1. ClockOK'
      BY <1>13, TypeParts DEF ClockOK, CreateWithoutTimer
    <3>2. KernelOK'
      BY <1>13, <2>1, <2>3, TypeParts DEF KernelOK, CreateWithoutTimer
    <3>3. GeneratorOK'
      BY <1>13, TypeParts DEF GeneratorOK, CreateWithoutTimer
    <3>4. TableOK'
      BY <1>13, <2>4, TypeParts DEF TableOK, CreateWithoutTimer
    <3> QED BY <1>13, <3>1, <3>2, <3>3, <3>4, TypeFrames DEF CreateWithoutTimer
  <2>6. TimerTaskPlace'
    BY <1>13, <2>1, <2>3, ActorsAssumption DEF TypeInv, TimerTaskPlace,
       CreateWithoutTimer, timerTask
  <2>7. GeneratorPlace'
    BY <1>13, <2>1, <2>2, <2>3 DEF TypeInv, GeneratorPlace, CreateWithoutTimer, scheduler
  <2> QED BY <1>13, <2>1, <2>3, <2>5, <2>6, <2>7 DEF TypeInv, QueuesDistinct,
          Served, CreateWithoutTimer, scheduler
<1> QED BY <1>1, <1>2, <1>3, <1>4, <1>5, <1>6, <1>7, <1>8, <1>9, <1>10, <1>11,
           <1>12, <1>13 DEF SchedulerStep

-----------------------------------------------------------------------------
(* A running task of priority 1 is ready, and not when it has blocked.     *)
LEMMA RunningIsReady ==
  ASSUME TypeInv, NEW t \in {T, G}, Runs(t)
  PROVE  /\ t \in Tasks(ready)
         /\ Tail(ready) \in Seq({T, G}) /\ NoDuplicates(Tail(ready))
         /\ Tasks(Tail(ready)) = Tasks(ready) \ {t}
BY WhoRuns, ReadyTail DEF TypeInv, TypeOK, QueuesDistinct

(* A task of priority 1 that is ready has no request in the queue.         *)
LEMMA RequestTasks ==
  ASSUME TypeInv, NEW t \in {T, G}, t \in Tasks(ready)
  PROVE  /\ Append(msg_q, t) \in Seq(Clients) /\ NoDuplicates(Append(msg_q, t))
         /\ Tasks(Append(msg_q, t)) = Tasks(msg_q) \cup {t}
<1>1. msg_q \in Seq(Clients) /\ NoDuplicates(msg_q) /\ t \in Clients /\ t \notin Tasks(msg_q)
  BY DEF TypeInv, TypeOK, QueuesDistinct, Clients, TimerTaskPlace, GeneratorPlace
<1> QED BY <1>1, RequestAppend

(* An unlock by the timer task: the scheduler gets the lock if it waits.   *)
LEMMA TimerTaskUnlocks ==
  ASSUME TypeInv, Runs(T), UnlockTasks
  PROVE  tasks_m' \in {S, NONE} /\ waiters' = {}
<1>1. T \notin waiters
  BY RunningIsReady DEF TypeInv, TimerTaskPlace
<1> QED BY <1>1 DEF TypeInv, TypeOK, UnlockTasks

(* Output that fits, or that blocks the timer task.                        *)
LEMMA PrintTypes ==
  ASSUME TypeInv, Runs(T), NEW blocked \in Printing, NEW next \in TimerStates \ Printing,
         PrintThen(blocked, next)
  PROVE  /\ tpc' \in TimerStates
         /\ ready' \in Seq({T, G}) /\ NoDuplicates(ready')
         /\ \/ tpc' = next /\ Tasks(ready') = Tasks(ready)
            \/ tpc' = blocked /\ Tasks(ready') = Tasks(ready) \ {T}
<1>1. CASE tpc' = next /\ UNCHANGED ready
  BY <1>1 DEF TypeInv, TypeOK, QueuesDistinct
<1>2. CASE tpc' = blocked /\ ready' = Tail(ready)
  BY <1>2, RunningIsReady DEF Printing, TimerStates
<1> QED BY <1>1, <1>2 DEF PrintThen

(* Every step of the timer task keeps the types.                           *)
LEMMA TimerTypes == TypeInv /\ TimerStep => TypeInv'
<1> SUFFICES ASSUME TypeInv, TimerStep PROVE TypeInv'
  OBVIOUS
<1>0. Runs(T)
  BY DEF TimerStep, FireMonitor, FireDeadline, Fires, PostEntries, WaitForTick,
     TimerTaskWaits, MoveOverdue, LockMonitor, AskOverdue, PrintTasks,
     UnlockMonitor, RearmMonitor
<1>00. /\ T \in Tasks(ready) /\ T \notin waiters /\ T \notin Tasks(msg_q)
       /\ tpc \notin Printing
  BY <1>0, RunningIsReady DEF TypeInv, TimerTaskPlace
<1>1. ASSUME FireMonitor PROVE TypeInv'
  <2>1. TypeOK'
    <3>1. halted' \in Halts /\ tpc' \in TimerStates /\ armed' \subseteq armed
      BY <1>1 DEF TypeInv, TypeOK, FireMonitor, Fires, TimerStates, Halts
    <3>2. ClockOK'
      BY <1>1, <3>1, TypeParts DEF ClockOK, FireMonitor
    <3>3. KernelOK'
      BY <1>1, <3>1, TypeParts DEF KernelOK, FireMonitor
    <3>4. TimerTaskOK'
      BY <1>1, <3>1, TypeParts DEF TimerTaskOK, FireMonitor
    <3> QED BY <1>1, <3>2, <3>3, <3>4, TypeFrames DEF FireMonitor
  <2> QED BY <1>1, <1>00, <2>1 DEF TypeInv, QueuesDistinct, TimerTaskPlace,
          GeneratorPlace, Served, FireMonitor, scheduler, generator, Printing
<1>2. ASSUME PostEntries PROVE TypeInv'
  <2>1. TypeOK'
    BY <1>2 DEF TypeInv, TypeOK, PostEntries, kernel, scheduler, lists, table,
       generator, TimerStates
  <2> QED BY <1>2, <1>00, <2>1 DEF TypeInv, QueuesDistinct, TimerTaskPlace,
          GeneratorPlace, Served, PostEntries, kernel, scheduler, generator, Printing
<1>3. ASSUME WaitForTick PROVE TypeInv'
  <2>1. /\ ready' \in Seq({T, G}) /\ NoDuplicates(ready')
        /\ Tasks(ready') \subseteq Tasks(ready)
    BY <1>0, <1>3, RunningIsReady DEF WaitForTick, TypeInv, TypeOK, QueuesDistinct
  <2>2. TypeOK'
    <3>1. ClockOK'
      BY <1>3, <2>1, TypeParts DEF ClockOK, WaitForTick
    <3>2. KernelOK'
      BY <1>3, <2>1, TypeParts DEF KernelOK, WaitForTick
    <3>3. TimerTaskOK'
      BY <1>3, <2>1, TypeParts DEF TimerTaskOK, WaitForTick, TimerStates
    <3> QED BY <1>3, <3>1, <3>2, <3>3, TypeFrames DEF WaitForTick
  <2>3. TimerTaskPlace'
    BY <1>3, <1>00, <2>1 DEF TypeInv, TimerTaskPlace, WaitForTick, Printing
  <2>4. GeneratorPlace'
    BY <1>3, <2>1 DEF TypeInv, GeneratorPlace, WaitForTick, scheduler, generator
  <2> QED BY <1>3, <2>1, <2>2, <2>3, <2>4 DEF TypeInv, QueuesDistinct, Served,
          WaitForTick, scheduler
<1>4. ASSUME TimerTaskWaits PROVE TypeInv'
  <2>1. /\ ready' \in Seq({T, G}) /\ NoDuplicates(ready')
        /\ Tasks(ready') = Tasks(ready) \ {T}
    BY <1>0, <1>4, RunningIsReady DEF TimerTaskWaits
  <2>2. timer' \in [Users -> BOOLEAN]
    BY <1>4 DEF TimerTaskWaits, TimerFieldCleared, TypeInv, TypeOK
  <2>3. TypeOK'
    <3>1. ClockOK'
      BY <1>4, TypeParts DEF ClockOK, TimerTaskWaits
    <3>2. KernelOK'
      BY <1>4, <2>1, TypeParts DEF KernelOK, TimerTaskWaits
    <3>3. TableOK'
      BY <1>4, <2>2, TypeParts DEF TableOK, TimerTaskWaits
    <3> QED BY <1>4, <3>1, <3>2, <3>3, TypeFrames DEF TimerTaskWaits
  <2>4. TimerTaskPlace'
    BY <1>4, <1>00, <2>1 DEF TypeInv, TimerTaskPlace, TimerTaskWaits, timerTask
  <2>5. GeneratorPlace'
    BY <1>4, <2>1 DEF TypeInv, GeneratorPlace, TimerTaskWaits, scheduler, generator
  <2> QED BY <1>4, <2>1, <2>3, <2>4, <2>5 DEF TypeInv, QueuesDistinct, Served,
          TimerTaskWaits, scheduler
<1>5. ASSUME MoveOverdue PROVE TypeInv'
  <2>1. timer' \in [Users -> BOOLEAN]
    BY <1>5 DEF MoveOverdue, TimerFieldCleared, TypeInv, TypeOK
  <2>2. /\ active_tasks' \in Seq(Users) /\ overdue_tasks' \in Seq(Users)
        /\ tasks_m' \in {S, T, NONE} /\ waiters' \subseteq waiters /\ halted' \in Halts
    <3>1. CASE expired \in Tasks(active_tasks)
      <4>1. /\ active_tasks' = DeleteTask(active_tasks, expired)
            /\ overdue_tasks' = AddTask(overdue_tasks, expired, deadline)
            /\ UnlockTasks /\ UNCHANGED halted
        BY <1>5, <3>1 DEF MoveOverdue
      <4>2. /\ active_tasks \in Seq(Users) /\ overdue_tasks \in Seq(Users)
            /\ deadline \in [Users -> Nat] /\ halted \in Halts
        BY DEF TypeInv, TypeOK
      <4>3. expired \in Users
        BY <3>1, <4>2, TasksOfSeq
      <4>4. active_tasks' \in Seq(Users)
        BY <3>1, <4>1, <4>2, DeleteTaskType
      <4>5. overdue_tasks' \in Seq(Users)
        BY <4>1, <4>2, <4>3, AddTaskProperties
      <4> QED BY <1>0, <4>1, <4>2, <4>4, <4>5, TimerTaskUnlocks
    <3>2. CASE expired \notin Tasks(active_tasks)
      BY <1>5, <3>2 DEF MoveOverdue, TypeInv, TypeOK, lists, Halts
    <3> QED BY <3>1, <3>2
  <2>3. TypeOK'
    BY <1>5, <2>1, <2>2 DEF TypeInv, TypeOK, MoveOverdue, scheduler, generator,
       TimerStates
  <2>4. TimerTaskPlace'
    BY <1>5, <1>00, <2>2 DEF TypeInv, TimerTaskPlace, MoveOverdue, Printing
  <2> QED BY <1>5, <2>3, <2>4 DEF TypeInv, QueuesDistinct, GeneratorPlace,
          Served, MoveOverdue, scheduler, generator
<1>6. ASSUME LockMonitor \/ AskOverdue PROVE TypeInv'
  <2>1. /\ ready' \in Seq({T, G}) /\ NoDuplicates(ready')
        /\ Tasks(ready') = Tasks(ready) \ {T}
    BY <1>0, <1>6, RunningIsReady DEF LockMonitor, AskOverdue, Ask
  <2>2. /\ msg_q' \in Seq(Clients) /\ NoDuplicates(msg_q')
        /\ Tasks(msg_q') = Tasks(msg_q) \cup {T}
    BY <1>00, <1>6, RequestTasks DEF LockMonitor, AskOverdue, Ask
  <2>3. TypeOK'
    <3>1. ClockOK'
      BY <1>6, <2>1, <2>2, TypeParts DEF ClockOK, LockMonitor, AskOverdue
    <3>2. KernelOK'
      BY <1>6, <2>1, <2>2, TypeParts DEF KernelOK, LockMonitor, AskOverdue
    <3>3. TimerTaskOK'
      BY <1>6, <2>1, <2>2, TypeParts DEF TimerTaskOK, LockMonitor, AskOverdue,
         TimerStates
    <3> QED BY <1>6, <3>1, <3>2, <3>3, TypeFrames DEF LockMonitor, AskOverdue
  <2>4. TimerTaskPlace'
    BY <1>6, <1>00, <2>1, <2>2 DEF TypeInv, TimerTaskPlace, LockMonitor, AskOverdue
  <2>5. GeneratorPlace'
    BY <1>6, <2>1, <2>2, ActorsAssumption DEF TypeInv, GeneratorPlace,
       LockMonitor, AskOverdue, scheduler, generator
  <2> QED BY <1>6, <2>1, <2>2, <2>3, <2>4, <2>5 DEF TypeInv, QueuesDistinct,
          Served, LockMonitor, AskOverdue, scheduler
<1>7. ASSUME PrintTasks PROVE TypeInv'
  <2>1. /\ tpc' \in TimerStates
        /\ ready' \in Seq({T, G}) /\ NoDuplicates(ready')
        /\ \/ tpc' = "unlock_monitor" /\ Tasks(ready') = Tasks(ready)
           \/ tpc' = "print_tasks" /\ Tasks(ready') = Tasks(ready) \ {T}
    <3>1. "print_tasks" \in Printing /\ "unlock_monitor" \in TimerStates \ Printing
      BY DEF Printing, TimerStates
    <3> QED BY <1>0, <1>7, <3>1, PrintTypes DEF PrintTasks
  <2>2. TypeOK'
    BY <1>7, <2>1 DEF TypeInv, TypeOK, PrintTasks, scheduler, lists, table, generator
  <2>3. TimerTaskPlace'
    BY <1>7, <1>00, <2>1 DEF TypeInv, TimerTaskPlace, PrintTasks, Printing
  <2>4. GeneratorPlace'
    BY <1>7, <2>1 DEF TypeInv, GeneratorPlace, PrintTasks, scheduler, generator
  <2> QED BY <1>7, <2>1, <2>2, <2>3, <2>4 DEF TypeInv, QueuesDistinct, Served,
          PrintTasks, scheduler
<1>8. ASSUME UnlockMonitor PROVE TypeInv'
  <2>1. /\ tpc' \in TimerStates
        /\ ready' \in Seq({T, G}) /\ NoDuplicates(ready')
        /\ \/ tpc' = "rearm_monitor" /\ Tasks(ready') = Tasks(ready)
           \/ tpc' = "print_stats" /\ Tasks(ready') = Tasks(ready) \ {T}
    <3>1. "print_stats" \in Printing /\ "rearm_monitor" \in TimerStates \ Printing
      BY DEF Printing, TimerStates
    <3> QED BY <1>0, <1>8, <3>1, PrintTypes DEF UnlockMonitor
  <2>2. tasks_m' \in {S, NONE} /\ waiters' = {}
    BY <1>0, <1>8, TimerTaskUnlocks DEF UnlockMonitor
  <2>3. TypeOK'
    <3>1. ClockOK'
      BY <1>8, <2>1, <2>2, TypeParts DEF ClockOK, UnlockMonitor
    <3>2. KernelOK'
      BY <1>8, <2>1, <2>2, TypeParts DEF KernelOK, UnlockMonitor
    <3>3. TimerTaskOK'
      BY <1>8, <2>1, <2>2, TypeParts DEF TimerTaskOK, UnlockMonitor
    <3> QED BY <1>8, <3>1, <3>2, <3>3, TypeFrames DEF UnlockMonitor
  <2>4. TimerTaskPlace'
    BY <1>8, <1>00, <2>1, <2>2 DEF TypeInv, TimerTaskPlace, UnlockMonitor, Printing
  <2>5. GeneratorPlace'
    BY <1>8, <2>1 DEF TypeInv, GeneratorPlace, UnlockMonitor, scheduler, generator
  <2> QED BY <1>8, <2>1, <2>3, <2>4, <2>5 DEF TypeInv, QueuesDistinct, Served,
          UnlockMonitor, scheduler
<1>9. ASSUME RearmMonitor PROVE TypeInv'
  <2>1. monitorDue' \in Nat
    <3>1. MonitorPeriod \in Nat /\ monitorDue \in Nat
      BY NumbersAssumption DEF TypeInv, TypeOK
    <3> QED BY <1>9, <3>1 DEF RearmMonitor
  <2>2. TypeOK'
    <3>1. ClockOK'
      BY <1>9, <2>1, TypeParts DEF ClockOK, RearmMonitor
    <3>2. KernelOK'
      BY <1>9, <2>1, TypeParts DEF KernelOK, RearmMonitor
    <3>3. TimerTaskOK'
      BY <1>9, <2>1, TypeParts DEF TimerTaskOK, RearmMonitor, TimerStates
    <3> QED BY <1>9, <3>1, <3>2, <3>3, TypeFrames DEF RearmMonitor
  <2> QED BY <1>9, <1>00, <2>2 DEF TypeInv, QueuesDistinct, TimerTaskPlace,
          GeneratorPlace, Served, RearmMonitor, scheduler, generator, Printing
<1>10. ASSUME NEW u \in Users, FireDeadline(u) PROVE TypeInv'
  <2>1. /\ tpc' \in TimerStates
        /\ ready' \in Seq({T, G}) /\ NoDuplicates(ready')
        /\ \/ tpc' = "move_overdue" /\ Tasks(ready') = Tasks(ready)
           \/ tpc' = "print_overdue" /\ Tasks(ready') = Tasks(ready) \ {T}
    <3>1. "print_overdue" \in Printing /\ "move_overdue" \in TimerStates \ Printing
      BY DEF Printing, TimerStates
    <3> QED BY <1>0, <1>10, <3>1, PrintTypes DEF FireDeadline
  <2>2. TypeOK'
    <3>1. ClockOK'
      BY <1>10, <2>1, TypeParts DEF ClockOK, FireDeadline, Fires
    <3>2. KernelOK'
      BY <1>10, <2>1, TypeParts DEF KernelOK, FireDeadline, Fires
    <3>3. TimerTaskOK'
      BY <1>10, <2>1, TypeParts DEF TimerTaskOK, FireDeadline, Fires
    <3> QED BY <1>10, <3>1, <3>2, <3>3, TypeFrames DEF FireDeadline, Fires
  <2>3. TimerTaskPlace'
    BY <1>10, <1>00, <2>1 DEF TypeInv, TimerTaskPlace, FireDeadline, Printing
  <2>4. GeneratorPlace'
    BY <1>10, <2>1 DEF TypeInv, GeneratorPlace, FireDeadline, scheduler, generator
  <2> QED BY <1>10, <2>1, <2>2, <2>3, <2>4 DEF TypeInv, QueuesDistinct, Served,
          FireDeadline, scheduler
<1> QED BY <1>1, <1>2, <1>3, <1>4, <1>5, <1>6, <1>7, <1>8, <1>9, <1>10 DEF TimerStep

-----------------------------------------------------------------------------
(* Every step of the generator keeps the types.                            *)
LEMMA GeneratorTypes == TypeInv /\ GeneratorStep => TypeInv'
<1> SUFFICES ASSUME TypeInv, GeneratorStep PROVE TypeInv'
  OBVIOUS
<1>0. Runs(G)
  BY DEF GeneratorStep, PollPresses, DelayGenerator, ReleaseDone, ReleaseTask
<1>00. /\ G \in Tasks(ready) /\ G \notin Tasks(msg_q) /\ client # G /\ gpc # "delay"
       /\ Periodic \in Nat /\ 0 \in Kinds
  BY <1>0, RunningIsReady, NumbersAssumption DEF TypeInv, GeneratorPlace, Kinds
<1>1. ASSUME NEW k \in Kinds, RequestTask(k)
      PROVE  /\ ready' \in Seq({T, G}) /\ NoDuplicates(ready')
             /\ Tasks(ready') = Tasks(ready) \ {G}
             /\ msg_q' \in Seq(Clients) /\ NoDuplicates(msg_q')
             /\ Tasks(msg_q') = Tasks(msg_q) \cup {G}
             /\ kind' \in Nat /\ kind' \in Kinds /\ gpc' = "receive" /\ pool' = TRUE
  <2>1. /\ ready' \in Seq({T, G}) /\ NoDuplicates(ready')
        /\ Tasks(ready') = Tasks(ready) \ {G}
    BY <1>0, <1>1, RunningIsReady DEF RequestTask
  <2>2. /\ msg_q' \in Seq(Clients) /\ NoDuplicates(msg_q')
        /\ Tasks(msg_q') = Tasks(msg_q) \cup {G}
    BY <1>00, <1>1, RequestTasks DEF RequestTask
  <2> QED BY <1>00, <1>1, <2>1, <2>2 DEF RequestTask, Kinds
<1>2. ASSUME PollPresses PROVE TypeInv'
  <2>1. CASE generator_q > 0
    <3>1. RequestTask(0) /\ generator_q' = generator_q - 1 /\ UNCHANGED start_ticks
      BY <1>2, <2>1 DEF PollPresses
    <3>2. generator_q' \in 0 .. GeneratorQueue
      BY <2>1, <3>1, NumbersAssumption DEF TypeInv, TypeOK
    <3>3. TypeOK'
      BY <1>1, <1>2, <1>00, <3>1, <3>2 DEF TypeInv, TypeOK, PollPresses,
         scheduler, lists, table, timerTask
    <3>4. TimerTaskPlace'
      BY <1>1, <1>2, <1>00, <3>1, ActorsAssumption DEF TypeInv, TimerTaskPlace,
         PollPresses, timerTask
    <3>5. GeneratorPlace'
      BY <1>1, <1>2, <1>00, <3>1 DEF GeneratorPlace, PollPresses, scheduler
    <3> QED BY <1>1, <1>2, <1>00, <3>1, <3>3, <3>4, <3>5 DEF TypeInv,
            QueuesDistinct, Served, PollPresses, scheduler
  <2>2. CASE ~(generator_q > 0)
    <3>1. /\ start_ticks' = now /\ kind' = 1
          /\ UNCHANGED <<ready, msg_q, pool, gpc, generator_q>>
      BY <1>2, <2>2 DEF PollPresses
    <3>2. start_ticks' \in Nat
      BY <3>1, NumbersAssumption DEF TypeInv, TypeOK
    <3>3. TypeOK'
      BY <1>2, <3>1, <3>2 DEF TypeInv, TypeOK, PollPresses, scheduler, lists,
         table, timerTask
    <3> QED BY <1>2, <1>00, <3>1, <3>3 DEF TypeInv, QueuesDistinct,
            TimerTaskPlace, GeneratorPlace, Served, PollPresses, scheduler, timerTask
  <2> QED BY <2>1, <2>2
<1>3. ASSUME DelayGenerator PROVE TypeInv'
  <2>1. /\ ready' \in Seq({T, G}) /\ NoDuplicates(ready')
        /\ Tasks(ready') = Tasks(ready) \ {G}
    BY <1>0, <1>3, RunningIsReady DEF DelayGenerator
  <2>2. TypeOK'
    BY <1>3, <2>1 DEF TypeInv, TypeOK, DelayGenerator, scheduler, lists, table,
       timerTask
  <2>3. TimerTaskPlace'
    BY <1>3, <2>1, ActorsAssumption DEF TypeInv, TimerTaskPlace, DelayGenerator, timerTask
  <2>4. GeneratorPlace'
    BY <1>3, <1>00, <2>1 DEF GeneratorPlace, DelayGenerator, scheduler
  <2> QED BY <1>3, <2>1, <2>2, <2>3, <2>4 DEF TypeInv, QueuesDistinct, Served,
          DelayGenerator, scheduler
<1>4. ASSUME ReleaseDone PROVE TypeInv'
  <2>1. /\ halted' \in Halts /\ start_ticks' \in Nat /\ kind' \in Nat
        /\ gpc' = "run" /\ created' = FALSE
    <3>1. now \in Nat
      BY NumbersAssumption DEF TypeInv, TypeOK
    <3>2. halted' \in Halts
      BY <1>4 DEF ReleaseDone, TypeInv, TypeOK, Halts
    <3>3. start_ticks' \in Nat /\ kind' \in Nat
      <4>1. kind \in Nat /\ start_ticks \in Nat
        BY DEF TypeInv, TypeOK
      <4>2. kind' = kind + 1 /\ start_ticks' \in {now, start_ticks}
        BY <1>4 DEF ReleaseDone
      <4> QED BY <3>1, <4>1, <4>2
    <3> QED BY <1>4, <3>2, <3>3 DEF ReleaseDone
  <2>2. TypeOK'
    BY <1>4, <2>1 DEF TypeInv, TypeOK, ReleaseDone, kernel, scheduler, lists,
       table, timerTask
  <2> QED BY <1>4, <1>00, <2>1, <2>2 DEF TypeInv, QueuesDistinct, TimerTaskPlace,
          GeneratorPlace, Served, ReleaseDone, kernel, scheduler, timerTask
<1>5. ASSUME NEW i \in 1 .. Periodic, ReleaseTask(i) PROVE TypeInv'
  <2>1. RequestTask(i) /\ i \in Kinds
    BY <1>5, <1>00 DEF ReleaseTask, Kinds
  <2>2. release_times' \in [1 .. Periodic -> Int]
    <3>1. now \in Int
      BY NumbersAssumption DEF TypeInv, TypeOK
    <3> QED BY <1>5, <3>1 DEF ReleaseTask, TypeInv, TypeOK
  <2>3. TypeOK'
    BY <1>1, <1>5, <2>1, <2>2 DEF TypeInv, TypeOK, ReleaseTask, scheduler,
       lists, table, timerTask
  <2>4. TimerTaskPlace'
    BY <1>1, <1>5, <2>1, ActorsAssumption DEF TypeInv, TimerTaskPlace,
       ReleaseTask, timerTask
  <2>5. GeneratorPlace'
    BY <1>1, <1>5, <1>00, <2>1 DEF GeneratorPlace, ReleaseTask, scheduler
  <2> QED BY <1>1, <1>5, <2>1, <2>3, <2>4, <2>5 DEF TypeInv, QueuesDistinct,
          Served, ReleaseTask, scheduler
<1> QED BY <1>2, <1>3, <1>4, <1>5 DEF GeneratorStep

(* Every step of a scheduled task keeps the types.                         *)
LEMMA UserTypes ==
  ASSUME NEW u \in Users
  PROVE  TypeInv /\ UserPlace /\ UserStep(u) => TypeInv'
<1> SUFFICES ASSUME TypeInv, UserPlace, UserStep(u) PROVE TypeInv'
  OBVIOUS
<1>1. ASSUME FinishTask(u) PROVE TypeInv'
  <2>1. /\ msg_q' \in Seq(Clients) /\ NoDuplicates(msg_q')
        /\ Tasks(msg_q') = Tasks(msg_q) \cup {u}
    <3>1. msg_q \in Seq(Clients) /\ NoDuplicates(msg_q) /\ u \in Clients
      BY DEF TypeInv, TypeOK, QueuesDistinct, Clients
    <3>2. u \notin Tasks(msg_q)
      BY <1>1 DEF UserPlace, FinishTask
    <3> QED BY <1>1, <3>1, <3>2, RequestAppend DEF FinishTask
  <2>2. state' \in [Users -> UserStates]
    BY <1>1 DEF FinishTask, TypeInv, TypeOK, UserStates
  <2>3. TypeOK'
    <3>1. ClockOK'
      BY <1>1, <2>1, <2>2, TypeParts DEF ClockOK, FinishTask
    <3>2. KernelOK'
      BY <1>1, <2>1, <2>2, TypeParts DEF KernelOK, FinishTask
    <3>3. TableOK'
      BY <1>1, <2>1, <2>2, TypeParts DEF TableOK, FinishTask
    <3> QED BY <1>1, <3>1, <3>2, <3>3, TypeFrames DEF FinishTask
  <2>4. TimerTaskPlace'
    BY <1>1, <2>1, ActorsAssumption DEF TypeInv, TimerTaskPlace, FinishTask, timerTask
  <2>5. GeneratorPlace'
    BY <1>1, <2>1, ActorsAssumption DEF TypeInv, GeneratorPlace, FinishTask,
       scheduler, generator
  <2> QED BY <1>1, <2>1, <2>3, <2>4, <2>5 DEF TypeInv, QueuesDistinct, Served,
          FinishTask, scheduler
<1>2. ASSUME EndTask(u) PROVE TypeInv'
  <2>1. /\ halted' \in Halts /\ state' \in [Users -> UserStates]
        /\ prio' \in [Users -> Nat] /\ reply' \in [Users -> {"none", "ok", "error"}]
    <3>1. halted' \in Halts
      BY <1>2 DEF EndTask, TypeInv, TypeOK, Halts
    <3>2. state' \in [Users -> UserStates]
      BY <1>2 DEF EndTask, TypeInv, TypeOK, UserStates
    <3>3. prio' \in [Users -> Nat] /\ reply' \in [Users -> {"none", "ok", "error"}]
      BY <1>2 DEF EndTask, TypeInv, TypeOK
    <3> QED BY <3>1, <3>2, <3>3
  <2>2. TypeOK'
    <3>1. ClockOK'
      BY <1>2, <2>1, TypeParts DEF ClockOK, EndTask
    <3>2. TableOK'
      BY <1>2, <2>1, TypeParts DEF TableOK, EndTask
    <3> QED BY <1>2, <3>1, <3>2, TypeFrames DEF EndTask
  <2> QED BY <1>2, <2>2 DEF TypeInv, QueuesDistinct, TimerTaskPlace,
          GeneratorPlace, Served, EndTask, kernel, scheduler, timerTask, generator
<1> QED BY <1>1, <1>2 DEF UserStep

(* Every interrupt keeps the types.                                        *)
LEMMA InterruptTypes ==
  TypeInv /\ (Tick \/ SerialDrained \/ ButtonPress) => TypeInv'
<1> SUFFICES ASSUME TypeInv, Tick \/ SerialDrained \/ ButtonPress PROVE TypeInv'
  OBVIOUS
<1>1. ASSUME Tick PROVE TypeInv'
  <2> DEFINE woken == IF gpc = "delay" THEN <<G>> ELSE <<>>
             r == ready \o woken
             posts == /\ \A i \in DOMAIN ready : ready[i] # T
                      /\ \E e \in armed : Expiration(e) <= now + 1
  <2>1. ready \in Seq({T, G}) /\ NoDuplicates(ready)
    BY DEF TypeInv, TypeOK, QueuesDistinct
  <2>2. /\ r \in Seq({T, G}) /\ NoDuplicates(r)
        /\ Tasks(r) = Tasks(ready) \cup (IF gpc = "delay" THEN {G} ELSE {})
    <3>1. CASE gpc = "delay"
      <4>1. G \notin Tasks(ready) /\ r = ready \o <<G>>
        BY <3>1 DEF TypeInv, GeneratorPlace
      <4> QED BY <2>1, <3>1, <4>1, ReadyAppend
    <3>2. CASE gpc # "delay"
      <4>1. r = ready
        BY <2>1, <3>2, ConcatEmptySeq
      <4> QED BY <2>1, <3>2, <4>1
    <3> QED BY <3>1, <3>2
  <2>3. ready' \in {r, r \o <<T>>} /\ (ready' # r => posts /\ tpc = "wait")
        /\ ticked' \in BOOLEAN
    <3>1. CASE posts /\ tpc = "wait"
      <4>1. ready' = ready \o woken \o <<T>> /\ UNCHANGED ticked
        BY <1>1, <3>1 DEF Tick
      <4> QED BY <3>1, <4>1 DEF TypeInv, TypeOK
    <3>2. CASE ~(posts /\ tpc = "wait")
      <4>1. ready' = ready \o woken /\ ticked' = (ticked \/ posts)
        BY <1>1, <3>2 DEF Tick
      <4> QED BY <4>1 DEF TypeInv, TypeOK
    <3> QED BY <3>1, <3>2
  <2>4. posts => T \notin Tasks(ready)
    BY DEF Tasks, ToSet
  <2> HIDE DEF r, posts
  <2>5. /\ ready' \in Seq({T, G}) /\ NoDuplicates(ready')
        /\ \/ Tasks(ready') = Tasks(r)
           \/ Tasks(ready') = Tasks(r) \cup {T} /\ tpc = "wait"
    <3>1. CASE ready' = r
      BY <2>2, <3>1
    <3>2. CASE ready' # r
      <4>1. T \notin Tasks(r) /\ ready' = r \o <<T>> /\ tpc = "wait"
        BY <2>2, <2>3, <2>4, <3>2, ActorsAssumption
      <4> QED BY <2>2, <4>1, ReadyAppend
    <3> QED BY <3>1, <3>2
  <2>6. now' \in 0 .. MaxTicks
    BY <1>1, NumbersAssumption DEF Tick, TypeInv, TypeOK
  <2>7. gpc' = (IF gpc = "delay" THEN "run" ELSE gpc)
    BY <1>1 DEF Tick
  <2>8. TypeOK'
    <3>1. ClockOK'
      BY <1>1, <2>3, <2>5, <2>6, <2>7, TypeParts DEF ClockOK, Tick
    <3>2. KernelOK'
      BY <1>1, <2>3, <2>5, <2>6, <2>7, TypeParts DEF KernelOK, Tick
    <3>3. GeneratorOK'
      BY <1>1, <2>3, <2>5, <2>6, <2>7, TypeParts DEF GeneratorOK, Tick
    <3> QED BY <1>1, <3>1, <3>2, <3>3, TypeFrames DEF Tick
  <2>9. TimerTaskPlace'
    BY <1>1, <2>2, <2>5, ActorsAssumption DEF TypeInv, TimerTaskPlace, Tick,
       timerTask, Printing
  <2>10. GeneratorPlace'
    BY <1>1, <2>2, <2>5, <2>7, ActorsAssumption DEF TypeInv, GeneratorPlace, Tick, scheduler
  <2> QED BY <1>1, <2>5, <2>8, <2>9, <2>10 DEF TypeInv, QueuesDistinct, Served,
          Tick, scheduler
<1>2. ASSUME SerialDrained PROVE TypeInv'
  <2>1. /\ tpc \in Printing
        /\ tpc' \in {"move_overdue", "unlock_monitor", "rearm_monitor"}
    BY <1>2 DEF SerialDrained, Printing
  <2>2. T \notin Tasks(ready) /\ T \notin Tasks(msg_q) /\ T \notin waiters
    BY <2>1 DEF TypeInv, TimerTaskPlace, Printing
  <2>3. /\ ready' \in Seq({T, G}) /\ NoDuplicates(ready')
        /\ Tasks(ready') = Tasks(ready) \cup {T}
    BY <1>2, <2>2, AppendTasks DEF SerialDrained, TypeInv, TypeOK, QueuesDistinct
  <2>4. TypeOK'
    <3>1. ClockOK'
      BY <1>2, <2>1, <2>3, TypeParts DEF ClockOK, SerialDrained
    <3>2. KernelOK'
      BY <1>2, <2>1, <2>3, TypeParts DEF KernelOK, SerialDrained
    <3>3. TimerTaskOK'
      BY <1>2, <2>1, <2>3, TypeParts DEF TimerTaskOK, SerialDrained,
         TimerStates
    <3> QED BY <1>2, <3>1, <3>2, <3>3, TypeFrames DEF SerialDrained
  <2>5. TimerTaskPlace'
    BY <1>2, <2>1, <2>2 DEF TimerTaskPlace, SerialDrained, Printing
  <2>6. GeneratorPlace'
    BY <1>2, <2>3, ActorsAssumption DEF TypeInv, GeneratorPlace, SerialDrained,
       scheduler, generator
  <2> QED BY <1>2, <2>3, <2>4, <2>5, <2>6 DEF TypeInv, QueuesDistinct, Served,
          SerialDrained, scheduler
<1>3. ASSUME ButtonPress PROVE TypeInv'
  <2>1. generator_q' \in 0 .. GeneratorQueue
    <3>1. generator_q \in 0 .. GeneratorQueue /\ GeneratorQueue \in Nat
      BY NumbersAssumption DEF TypeInv, TypeOK
    <3>2. \/ generator_q' = generator_q
          \/ generator_q' = generator_q + 1 /\ generator_q < GeneratorQueue
      BY <1>3 DEF ButtonPress, QueueHasRoom
    <3> QED BY <3>1, <3>2
  <2>2. halted' \in Halts
    BY <1>3 DEF ButtonPress, TypeInv, TypeOK, Halts
  <2>3. TypeOK'
    <3>1. ClockOK'
      BY <1>3, <2>1, <2>2, TypeParts DEF ClockOK, ButtonPress
    <3>2. GeneratorOK'
      BY <1>3, <2>1, <2>2, TypeParts DEF GeneratorOK, ButtonPress
    <3> QED BY <1>3, <3>1, <3>2, TypeFrames DEF ButtonPress
  <2> QED BY <1>3, <2>3 DEF TypeInv, QueuesDistinct, TimerTaskPlace,
          GeneratorPlace, Served, ButtonPress, kernel, scheduler, timerTask
<1> QED BY <1>1, <1>2, <1>3

-----------------------------------------------------------------------------
(* No step makes a scheduled task ask twice.                               *)
LEMMA UserPlaceStep == TypeInv /\ UserPlace /\ Next => UserPlace'
<1> SUFFICES ASSUME TypeInv, UserPlace, Next PROVE UserPlace'
  OBVIOUS
<1>0. state \in [Users -> UserStates]
  BY DEF TypeInv, TypeOK
<1>1. ASSUME SchedulerStep PROVE UserPlace'
  <2>1. ASSUME ServeTaskList \/ CreateFails PROVE UserPlace'
    <3>1. Tasks(msg_q') \subseteq Tasks(msg_q)
      BY <2>1, ReceiveTasks DEF ServeTaskList, CreateFails
    <3> QED BY <2>1, <3>1 DEF UserPlace, ServeTaskList, CreateFails, scheduler, table
  <2>2. ASSUME NEW u \in Users, CreateTask(u) PROVE UserPlace'
    <3>1. Tasks(msg_q') \subseteq Tasks(msg_q)
      BY <2>2, ReceiveTasks DEF CreateTask
    <3>2. u \notin Tasks(msg_q)
      BY <2>2 DEF UserPlace, CreateTask, FreeTasks
    <3> QED BY <1>0, <2>2, <3>1, <3>2, ActorsAssumption DEF UserPlace, CreateTask
  <2>3. ASSUME NEW u \in Users, ReceiveDelete(u) PROVE UserPlace'
    <3>1. u \in Tasks(msg_q) /\ Tasks(msg_q') = Tasks(msg_q) \ {u}
      BY <2>3, ReceiveTasks DEF ReceiveDelete
    <3> QED BY <2>3, <3>1 DEF UserPlace, ReceiveDelete, table
  <2>4. ASSUME UpdateActive PROVE UserPlace'
    BY <1>0, <2>4, ActorsAssumption DEF UserPlace, UpdateActive, EndRequest
  <2>5. ASSUME DeleteOverdue \/ CancelTimer PROVE UserPlace'
    <3>1. UNCHANGED msg_q
      BY <2>5 DEF DeleteOverdue, CancelTimer
    <3>2. UNCHANGED <<client, state>> \/ RefuseDelete
      BY <2>5 DEF DeleteOverdue, CancelTimer
    <3>3. ASSUME UNCHANGED <<client, state>> PROVE UserPlace'
      BY <3>1, <3>3 DEF UserPlace
    <3>4. ASSUME RefuseDelete PROVE UserPlace'
      BY <1>0, <3>1, <3>4, ActorsAssumption DEF UserPlace, RefuseDelete, EndRequest
    <3> QED BY <3>2, <3>3, <3>4
  <2>6. ASSUME UNCHANGED <<client, state, msg_q>> PROVE UserPlace'
    BY <2>6 DEF UserPlace
  <2>7. ASSUME NEW u \in Users, CreateWithoutTimer(u) PROVE UserPlace'
    <3>1. Tasks(msg_q') \subseteq Tasks(msg_q)
      BY <2>7, ReceiveTasks DEF CreateWithoutTimer
    <3>2. state[u] = "free" /\ u \notin Tasks(msg_q) /\ client # u
      BY <2>7 DEF UserPlace, CreateWithoutTimer, FreeTasks
    <3> QED BY <1>0, <2>7, <3>1, <3>2 DEF UserPlace, CreateWithoutTimer, scheduler
  <2> QED BY <1>1, <2>1, <2>2, <2>3, <2>4, <2>5, <2>6, <2>7 DEF SchedulerStep,
          StartTimer, SchedulerWaits, AddActive, DeleteActive, UpdateOverdue,
          scheduler, table
<1>2. ASSUME TimerStep PROVE UserPlace'
  <2>1. UNCHANGED <<client, state>>
    BY <1>2 DEF TimerStep, FireMonitor, FireDeadline, PostEntries, WaitForTick,
       TimerTaskWaits, MoveOverdue, LockMonitor, AskOverdue, PrintTasks,
       UnlockMonitor, RearmMonitor, scheduler, table
  <2>2. UNCHANGED msg_q \/ msg_q' = Append(msg_q, T)
    BY <1>2 DEF TimerStep, FireMonitor, FireDeadline, PostEntries, WaitForTick,
       TimerTaskWaits, MoveOverdue, LockMonitor, AskOverdue, PrintTasks,
       UnlockMonitor, RearmMonitor, kernel, Ask
  <2>3. msg_q \in Seq(Clients) /\ T \in Clients
    BY DEF TypeInv, TypeOK, Clients
  <2>4. Tasks(msg_q') \subseteq Tasks(msg_q) \cup {T}
    <3>1. Tasks(Append(msg_q, T)) = Tasks(msg_q) \cup {T}
      BY <2>3, AppendTasks
    <3> QED BY <2>2, <3>1
  <2> QED BY <2>1, <2>4, ActorsAssumption DEF UserPlace
<1>3. ASSUME GeneratorStep PROVE UserPlace'
  <2>1. UNCHANGED <<client, state>>
    BY <1>3 DEF GeneratorStep, PollPresses, DelayGenerator, ReleaseDone,
       ReleaseTask, scheduler, table
  <2>2. UNCHANGED msg_q \/ msg_q' = Append(msg_q, G)
    BY <1>3 DEF GeneratorStep, PollPresses, DelayGenerator, ReleaseDone,
       ReleaseTask, RequestTask, kernel
  <2>3. msg_q \in Seq(Clients) /\ G \in Clients
    BY DEF TypeInv, TypeOK, Clients
  <2>4. Tasks(msg_q') \subseteq Tasks(msg_q) \cup {G}
    <3>1. Tasks(Append(msg_q, G)) = Tasks(msg_q) \cup {G}
      BY <2>3, AppendTasks
    <3> QED BY <2>2, <3>1
  <2> QED BY <2>1, <2>4, ActorsAssumption DEF UserPlace
<1>4. ASSUME NEW u \in Users, FinishTask(u) PROVE UserPlace'
  <2>1. msg_q \in Seq(Clients) /\ u \in Clients
    BY DEF TypeInv, TypeOK, Clients
  <2>2. Tasks(msg_q') = Tasks(msg_q) \cup {u}
    BY <1>4, <2>1, AppendTasks DEF FinishTask
  <2>3. client # u
    BY <1>4 DEF UserPlace, FinishTask
  <2> QED BY <1>0, <1>4, <2>2, <2>3 DEF UserPlace, FinishTask, scheduler
<1>5. ASSUME NEW u \in Users, EndTask(u) PROVE UserPlace'
  <2>1. state[u] # "receiving"
    BY <1>5 DEF EndTask
  <2> QED BY <1>0, <1>5, <2>1 DEF UserPlace, EndTask, kernel, scheduler
<1>6. ASSUME Tick \/ SerialDrained \/ ButtonPress PROVE UserPlace'
  BY <1>6 DEF UserPlace, Tick, SerialDrained, ButtonPress, kernel, scheduler, table
<1> QED BY <1>1, <1>2, <1>3, <1>4, <1>5, <1>6 DEF Next, UserStep

(* The initial state.                                                      *)
LEMMA InitTypes == Init => TypeInv /\ UserPlace
<1> SUFFICES ASSUME Init PROVE TypeInv /\ UserPlace
  OBVIOUS
<1>1. /\ ready = <<G>> /\ ready \in Seq({T, G}) /\ msg_q = <<>> /\ msg_q \in Seq(Clients)
      /\ active_tasks \in Seq(Users) /\ overdue_tasks \in Seq(Users)
  BY DEF Init
<1>2. /\ Tasks(ready) = {G} /\ Tasks(msg_q) = {}
      /\ NoDuplicates(ready) /\ NoDuplicates(msg_q)
  BY <1>1 DEF Tasks, ToSet, NoDuplicates
<1>3. release_times \in [1 .. Periodic -> Int]
  <2>1. PICK r \in InitialReleases : release_times = r
    BY DEF Init
  <2>2. UNION {-(Period[i] + 1) .. 0 : i \in 1 .. Periodic} \subseteq Int
    OBVIOUS
  <2> QED BY <2>1, <2>2 DEF InitialReleases
<1>4. TypeOK
  <2>1. /\ now \in 0 .. MaxTicks /\ generator_q \in 0 .. GeneratorQueue
    BY NumbersAssumption DEF Init
  <2> QED BY <1>1, <1>3, <2>1 DEF Init, TypeOK, Halts, SchedulerStates,
          TimerStates, UserStates
<1> QED BY <1>2, <1>4, ActorsAssumption DEF Init, TypeInv, QueuesDistinct,
        TimerTaskPlace, GeneratorPlace, Served, UserPlace, Printing, Clients

(* The types and the places of the tasks are inductive.                    *)
LEMMA TypeInvStep == TypeInv /\ UserPlace /\ [Next]_vars => TypeInv' /\ UserPlace'
<1> SUFFICES ASSUME TypeInv, UserPlace, [Next]_vars PROVE TypeInv' /\ UserPlace'
  OBVIOUS
<1>1. ASSUME Next PROVE TypeInv' /\ UserPlace'
  BY <1>1, SchedulerTypes, TimerTypes, GeneratorTypes, UserTypes,
     InterruptTypes, UserPlaceStep DEF Next
<1>2. ASSUME UNCHANGED vars PROVE TypeInv' /\ UserPlace'
  <2>1. TypeOK'
    <3>1. ClockOK'
      BY <1>2, TypeParts DEF vars, ClockOK
    <3> QED BY <1>2, <3>1, TypeFrames DEF vars
  <2>2. (QueuesDistinct /\ TimerTaskPlace /\ GeneratorPlace)'
    BY <1>2 DEF vars, kernel, scheduler, timerTask, generator, TypeInv,
       QueuesDistinct, TimerTaskPlace, GeneratorPlace
  <2>3. (Served /\ UserPlace)'
    BY <1>2 DEF vars, kernel, scheduler, table, TypeInv, Served, UserPlace
  <2> QED BY <2>1, <2>2, <2>3 DEF TypeInv
<1> QED BY <1>1, <1>2

(* The type invariant of the scheduler: every variable keeps its type, for *)
(* every number of tasks, periods, deadlines and queue sizes.              *)
THEOREM TypeCorrect == Spec => []TypeOK
<1>1. Init => TypeInv /\ UserPlace
  BY InitTypes
<1>2. TypeInv /\ UserPlace /\ [Next]_vars => (TypeInv /\ UserPlace)'
  BY TypeInvStep
<1>3. TypeInv => TypeOK
  BY DEF TypeInv
<1> QED BY <1>1, <1>2, <1>3, PTL DEF Spec
=============================================================================
