-------------------------- MODULE Teardown_proofs ---------------------------
(***************************************************************************)
(* For any number of tasks: a circular wait over the kernel's semaphores   *)
(* and tasks_m always takes both the scheduler and the timer task; and the *)
(* variables have their types.                                             *)
(***************************************************************************)
EXTENDS Teardown, SequenceTheorems, TLAPS

-----------------------------------------------------------------------------
(***************************************************************************)
(* A queue without repetition is a first element and a set.                *)
(***************************************************************************)
Queue(q, A) == q \in Seq(A) /\ IsInjective(q)

LEMMA NotTwice ==
  ASSUME NEW A, NEW q, Queue(q, A), NEW i \in 1 .. Len(q), NEW j \in 1 .. Len(q),
         q[i] = q[j]
  PROVE  i = j
BY DEF Queue, IsInjective

(* The first leaves: the others stay.                                      *)
LEMMA AfterTail ==
  ASSUME NEW A, NEW q, Queue(q, A), q # <<>>
  PROVE  /\ Queue(Tail(q), A)
         /\ \A x : Contains(Tail(q), x) <=> Contains(q, x) /\ x # Head(q)
         /\ Contains(q, Head(q))
<1>1. q \in Seq(A) /\ Len(q) \in Nat /\ Len(q) > 0
  BY DEF Queue
<1>2. /\ Tail(q) \in Seq(A) /\ Len(Tail(q)) = Len(q) - 1
      /\ \A i \in 1 .. Len(q) - 1 : Tail(q)[i] = q[i + 1]
  BY <1>1
<1>3. Head(q) = q[1]
  BY <1>1
<1>4. IsInjective(Tail(q))
  <2>1. SUFFICES ASSUME NEW i \in 1 .. Len(q) - 1, NEW j \in 1 .. Len(q) - 1,
                        Tail(q)[i] = Tail(q)[j]
                 PROVE  i = j
    BY <1>1, <1>2 DEF IsInjective
  <2>2. i + 1 = j + 1
    BY <1>1, <1>2, <2>1, NotTwice
  <2> QED BY <2>2
<1>5. ASSUME NEW x PROVE Contains(Tail(q), x) <=> Contains(q, x) /\ x # Head(q)
  <2>1. ASSUME Contains(Tail(q), x) PROVE Contains(q, x) /\ x # Head(q)
    <3>1. PICK i \in 1 .. Len(q) - 1 : Tail(q)[i] = x
      BY <1>2, <2>1 DEF Contains
    <3>2. i + 1 \in 1 .. Len(q) /\ q[i + 1] = x
      BY <1>1, <1>2, <3>1
    <3>3. x # q[1]
      BY <1>1, <3>2, NotTwice
    <3> QED BY <1>3, <3>2, <3>3 DEF Contains
  <2>2. ASSUME Contains(q, x), x # Head(q) PROVE Contains(Tail(q), x)
    <3>1. PICK i \in 1 .. Len(q) : q[i] = x
      BY <2>2 DEF Contains
    <3>2. i # 1
      BY <1>3, <2>2, <3>1
    <3>3. i - 1 \in 1 .. Len(q) - 1 /\ Tail(q)[i - 1] = x
      BY <1>1, <1>2, <3>1, <3>2
    <3> QED BY <1>2, <3>3 DEF Contains
  <2> QED BY <2>1, <2>2
<1>6. Contains(q, Head(q))
  BY <1>1, <1>3 DEF Contains
<1> QED BY <1>2, <1>4, <1>5, <1>6 DEF Queue

(* One that is not in it joins at the end.                                 *)
LEMMA AfterAppend ==
  ASSUME NEW A, NEW q, Queue(q, A), NEW t \in A, ~Contains(q, t)
  PROVE  /\ Queue(Append(q, t), A)
         /\ \A x : Contains(Append(q, t), x) <=> Contains(q, x) \/ x = t
         /\ Append(q, t) # <<>>
         /\ Head(Append(q, t)) = IF q = <<>> THEN t ELSE Head(q)
<1>1. q \in Seq(A) /\ Len(q) \in Nat
  BY DEF Queue
<1>2. /\ Append(q, t) \in Seq(A) /\ Len(Append(q, t)) = Len(q) + 1
      /\ \A i \in 1 .. Len(q) : Append(q, t)[i] = q[i]
      /\ Append(q, t)[Len(q) + 1] = t
  BY <1>1
<1>3. \A i \in 1 .. Len(q) : q[i] # t
  BY DEF Contains
<1>4. IsInjective(Append(q, t))
  <2>1. SUFFICES ASSUME NEW i \in 1 .. Len(q) + 1, NEW j \in 1 .. Len(q) + 1,
                        Append(q, t)[i] = Append(q, t)[j]
                 PROVE  i = j
    BY <1>1, <1>2 DEF IsInjective
  <2>2. CASE i \in 1 .. Len(q) /\ j \in 1 .. Len(q)
    BY <1>2, <2>1, <2>2, NotTwice
  <2>3. CASE ~(i \in 1 .. Len(q) /\ j \in 1 .. Len(q))
    BY <1>1, <1>2, <1>3, <2>1, <2>3
  <2> QED BY <2>2, <2>3
<1>5. ASSUME NEW x
      PROVE  Contains(Append(q, t), x) <=> Contains(q, x) \/ x = t
  <2>1. ASSUME Contains(Append(q, t), x), x # t PROVE Contains(q, x)
    <3>1. PICK i \in 1 .. Len(q) + 1 : Append(q, t)[i] = x
      BY <1>2, <2>1 DEF Contains
    <3>2. i \in 1 .. Len(q)
      BY <1>1, <1>2, <2>1, <3>1
    <3> QED BY <1>2, <3>1, <3>2 DEF Contains
  <2>2. ASSUME Contains(q, x) PROVE Contains(Append(q, t), x)
    <3>1. PICK i \in 1 .. Len(q) : q[i] = x
      BY <2>2 DEF Contains
    <3>2. i \in 1 .. Len(q) + 1
      BY <1>1, <3>1
    <3> QED BY <1>2, <3>1, <3>2 DEF Contains
  <2>3. Contains(Append(q, t), t)
    BY <1>1, <1>2 DEF Contains
  <2> QED BY <2>1, <2>2, <2>3
<1>6. Append(q, t) # <<>>
  BY <1>1, <1>2
<1>7. Head(Append(q, t)) = IF q = <<>> THEN t ELSE Head(q)
  <2>1. Head(Append(q, t)) = Append(q, t)[1]
    BY <1>1, <1>2
  <2>2. CASE q = <<>>
    BY <1>1, <1>2, <2>1, <2>2
  <2>3. CASE q # <<>>
    <3>1. 1 \in 1 .. Len(q) /\ Head(q) = q[1]
      BY <1>1, <2>3
    <3> QED BY <1>2, <2>1, <2>3, <3>1
  <2> QED BY <2>2, <2>3
<1> QED BY <1>2, <1>4, <1>5, <1>6, <1>7 DEF Queue

-----------------------------------------------------------------------------
(***************************************************************************)
(* The locks, as who is in which queue and who owns what.                  *)
(***************************************************************************)
LocksOK(k) == k \in [Locks -> Seq(Actors)] /\ \A l \in Locks : IsInjective(k[l])

(* The tasks in the queue of lock l, its owner among them.                 *)
Among(k, l) == {x \in Actors : Contains(k[l], x)}
Owner(k, l) == IF k[l] = <<>> THEN {} ELSE {Head(k[l])}

(* From locks k to k2 the task t alone has moved: it has given up some     *)
(* locks, all its own, and asked for others.                               *)
Moved(k, k2, t, given, asked) ==
  /\ LocksOK(k2)
  /\ \A l \in Locks : \A x \in Actors :
       x \in Among(k2, l) <=>
         \/ x \in Among(k, l) /\ ~(x = t /\ l \in given)
         \/ x = t /\ l \in asked
  /\ \A l \in Locks : \A x \in Actors :
       x \in Owner(k, l) /\ ~(x = t /\ l \in given) => x \in Owner(k2, l)

LEMMA WaitMoves ==
  ASSUME NEW k, LocksOK(k), NEW t \in Actors, NEW m \in Locks
  PROVE  Moved(k, Wait(k, t, m), t, {}, {m})
<1>1. CASE Contains(k[m], t)
  BY <1>1 DEF Wait, Moved, Among
<1>2. CASE ~Contains(k[m], t)
  <2>1. Wait(k, t, m) = [k EXCEPT ![m] = Append(@, t)]
    BY <1>2 DEF Wait
  <2>2. Queue(k[m], Actors) /\ k \in [Locks -> Seq(Actors)]
    BY DEF LocksOK, Queue
  <2>3. \A l \in Locks : 
          Wait(k, t, m)[l] = IF l = m THEN Append(k[m], t) ELSE k[l]
    BY <2>1, <2>2
  <2>4. /\ Queue(Append(k[m], t), Actors)
        /\ \A x : Contains(Append(k[m], t), x) <=> Contains(k[m], x) \/ x = t
        /\ Append(k[m], t) # <<>>
        /\ Head(Append(k[m], t)) = IF k[m] = <<>> THEN t ELSE Head(k[m])
    BY <1>2, <2>2, AfterAppend
  <2>5. LocksOK(Wait(k, t, m))
    BY <2>1, <2>2, <2>3, <2>4 DEF LocksOK, Queue
  <2>6. ASSUME NEW l \in Locks, NEW x \in Actors
        PROVE  x \in Among(Wait(k, t, m), l) <=> x \in Among(k, l) \/ (x = t /\ l = m)
    BY <2>3, <2>4 DEF Among
  <2>7. ASSUME NEW l \in Locks, NEW x \in Actors, x \in Owner(k, l)
        PROVE  x \in Owner(Wait(k, t, m), l)
    BY <2>3, <2>4, <2>7 DEF Owner
  <2> QED BY <2>5, <2>6, <2>7 DEF Moved
<1> QED BY <1>1, <1>2

LEMMA PostMoves ==
  ASSUME NEW k, LocksOK(k), NEW t \in Actors, NEW m \in Locks, t \in Owner(k, m)
  PROVE  Moved(k, Post(k, m), t, {m}, {})
<1>1. Queue(k[m], Actors) /\ k[m] # <<>> /\ Head(k[m]) = t
      /\ k \in [Locks -> Seq(Actors)]
  BY DEF LocksOK, Queue, Owner
<1>2. \A l \in Locks : Post(k, m)[l] = IF l = m THEN Tail(k[m]) ELSE k[l]
  BY <1>1 DEF Post
<1>3. /\ Queue(Tail(k[m]), Actors)
      /\ \A x : Contains(Tail(k[m]), x) <=> Contains(k[m], x) /\ x # t
  BY <1>1, AfterTail
<1>4. LocksOK(Post(k, m))
  <2>1. Post(k, m) \in [Locks -> Seq(Actors)]
    BY <1>1, <1>3 DEF Post, Queue
  <2> QED BY <1>2, <1>3, <2>1 DEF LocksOK, Queue
<1>5. ASSUME NEW l \in Locks, NEW x \in Actors
      PROVE  x \in Among(Post(k, m), l) <=> x \in Among(k, l) /\ ~(x = t /\ l = m)
  BY <1>2, <1>3 DEF Among
<1>6. ASSUME NEW l \in Locks, NEW x \in Actors, x \in Owner(k, l), ~(x = t /\ l = m)
      PROVE  x \in Owner(Post(k, m), l)
  BY <1>1, <1>2, <1>6 DEF Owner
<1> QED BY <1>4, <1>5, <1>6 DEF Moved

(* Giving up one lock and asking for another, or for the same again.       *)
LEMMA PostWaitMoves ==
  ASSUME NEW k, LocksOK(k), NEW t \in Actors, NEW l \in Locks, NEW m \in Locks,
         t \in Owner(k, l)
  PROVE  Moved(k, Wait(Post(k, l), t, m), t, {l}, {m})
<1> DEFINE k1 == Post(k, l)
<1>1. Moved(k, k1, t, {l}, {})
  BY PostMoves
<1>2. LocksOK(k1)
  BY <1>1 DEF Moved
<1> HIDE DEF k1
<1>3. Moved(k1, Wait(k1, t, m), t, {}, {m})
  BY <1>2, WaitMoves
<1> DEFINE k2 == Wait(k1, t, m)
<1> HIDE DEF k2
<1>4. Moved(k, k2, t, {l}, {m})
  BY <1>1, <1>3 DEF Moved, k2
<1> QED BY <1>4 DEF k1, k2

(* A task in a queue owns the lock or waits for it, and never both.        *)
LEMMA OwnsOrWaits ==
  ASSUME LocksOK(lock), NEW l \in Locks, NEW x \in Actors
  PROVE  /\ x \in Among(lock, l) <=> x \in Owner(lock, l) \/ Waits(x, l)
         /\ ~(x \in Owner(lock, l) /\ Waits(x, l))
<1>1. Queue(lock[l], Actors)
  BY DEF LocksOK, Queue
<1>2. CASE lock[l] = <<>>
  BY <1>2 DEF Among, Owner, Waits, Contains
<1>3. CASE lock[l] # <<>>
  BY <1>1, <1>3, AfterTail DEF Among, Owner, Waits
<1> QED BY <1>2, <1>3

(* One that may run owns every lock it is in the queue of.                 *)
LEMMA RunnerOwns ==
  ASSUME LocksOK(lock), NEW x \in Actors, ~Blocked(x)
  PROVE  \A l \in Locks : x \in Among(lock, l) => x \in Owner(lock, l)
BY OwnsOrWaits DEF Blocked
-----------------------------------------------------------------------------
(***************************************************************************)
(* Which locks each task is at, by what it does next.  It is in the queues *)
(* of those it holds and of the one its next step needs, and owns all but  *)
(* perhaps the last.                                                       *)
(***************************************************************************)
TC == "TASK_CREATE_LWSEM"
TE == "TIMER_ENTRIES_LWSEM"
TM == "tasks_m"

Deleting == spc \in {"cancel_timer", "find_generator"} /\ client \in Users

SchedulerPlaces ==
  /\ spc \in SchedulerStates
  /\ spc \in {"create", "start_timer", "add_task"} => client = G
  /\ spc \in {"delete_active", "delete_overdue", "cancel_timer"} =>
       client \in Users
  /\ S \in Among(lock, TC) <=> spc \in {"create", "find_generator"}
  /\ S \in Among(lock, TE) <=> spc \in {"start_timer", "cancel_timer"}
  /\ S \in Among(lock, TM) <=>
       \/ spc \in {"add_task", "delete_active", "delete_overdue",
                   "update_overdue", "update_active"}
       \/ Deleting
  /\ Deleting => S \in Owner(lock, TM)

Monitoring == {"ask_active", "has_active", "ask_overdue", "has_overdue",
               "print_tasks", "unlock_monitor"}

TimerPlaces ==
  /\ tpc \in TimerStates
  /\ T \notin Among(lock, TC)
  /\ T \in Among(lock, TE) <=> tpc \notin {"isr", "woken"}
  /\ T \in Among(lock, TM) <=>
       tpc \in {"move_overdue", "lock_monitor"} \cup Monitoring
  /\ tpc \notin {"isr", "woken", "fire", "second"} => T \in Owner(lock, TE)
  /\ tpc \in Monitoring => T \in Owner(lock, TM)

UserPlace(u) ==
  /\ u \in Among(lock, TC) <=> state[u] \in {"destroy", "cleanup", "unlink"}
  /\ u \in Among(lock, TE) <=> state[u] = "cleanup"
  /\ u \notin Among(lock, TM)
  /\ state[u] \in {"cleanup", "unlink"} => u \in Owner(lock, TC)

UserPlaces == state \in [Users -> UserStates] /\ \A u \in Users : UserPlace(u)

Clients == {T, G} \cup Users

(* c has sent a request and is waiting for the answer.                     *)
Awaits(c) ==
  \/ c = T /\ tpc \in Asking
  \/ c = G /\ gpc = "receive"
  \/ c \in Users /\ state[c] = "receiving"

(* One request of each client at most, queued or being served.             *)
MessagesOK ==
  /\ Queue(msg_q, Clients) /\ client \in Clients \cup {None}
  /\ \A c \in Clients :
       /\ Contains(msg_q, c) \/ client = c => Awaits(c)
       /\ Contains(msg_q, c) => client # c

IInv == LocksOK(lock) /\ MessagesOK /\ SchedulerPlaces /\ TimerPlaces /\ UserPlaces

LEMMA Distinct == /\ S \in Actors /\ T \in Actors /\ Users \subseteq Actors
                  /\ {TC, TE, TM} = Locks /\ TC # TE /\ TC # TM /\ TE # TM
                  /\ S # T /\ S \notin Users /\ T \notin Users
                  /\ G \notin Users /\ None \notin Users
                  /\ G # T /\ None # G /\ None # T
BY TeardownAssumption DEF Actors, Locks, TC, TE, TM

LEMMA InitPlaces == Init => IInv
<1> SUFFICES ASSUME Init PROVE IInv
  OBVIOUS
<1>1. LocksOK(lock)
  BY DEF Init, LocksOK, IsInjective
<1>2. \A l \in Locks : Among(lock, l) = {} /\ Owner(lock, l) = {}
  BY DEF Init, Among, Owner, Contains
<1>3. SchedulerPlaces
  BY <1>2, Distinct DEF Init, SchedulerPlaces, SchedulerStates, Deleting
<1>4. TimerPlaces
  BY <1>2, Distinct DEF Init, TimerPlaces, TimerStates, Monitoring
<1>5. UserPlaces
  BY <1>2, Distinct DEF Init, UserPlaces, UserPlace, UserStates
<1>6. MessagesOK
  BY Distinct DEF Init, MessagesOK, Queue, IsInjective, Contains, Clients
<1> QED BY <1>1, <1>3, <1>4, <1>5, <1>6 DEF IInv

(* A step that leaves the locks and what a task does next alone leaves its *)
(* places; so does a move of another task.                                 *)
LEMMA SchedulerStays ==
  ASSUME SchedulerPlaces, UNCHANGED <<spc, client>>,
         \/ UNCHANGED lock
         \/ \E t \in Actors \ {S} : \E given, asked : Moved(lock, lock', t, given, asked)
  PROVE  SchedulerPlaces'
<1>1. CASE UNCHANGED lock
  BY <1>1 DEF SchedulerPlaces, Deleting
<1>2. CASE \E t \in Actors \ {S} : \E given, asked : Moved(lock, lock', t, given, asked)
  <2>1. /\ \A l \in Locks : S \in Among(lock', l) <=> S \in Among(lock, l)
        /\ \A l \in Locks : S \in Owner(lock, l) => S \in Owner(lock', l)
    BY <1>2, Distinct DEF Moved
  <2> QED BY <2>1, Distinct DEF SchedulerPlaces, Deleting
<1> QED BY <1>1, <1>2

LEMMA TimerStays ==
  ASSUME TimerPlaces, UNCHANGED tpc,
         \/ UNCHANGED lock
         \/ \E t \in Actors \ {T} : \E given, asked : Moved(lock, lock', t, given, asked)
  PROVE  TimerPlaces'
<1>1. CASE UNCHANGED lock
  BY <1>1 DEF TimerPlaces
<1>2. CASE \E t \in Actors \ {T} : \E given, asked : Moved(lock, lock', t, given, asked)
  <2>1. /\ \A l \in Locks : T \in Among(lock', l) <=> T \in Among(lock, l)
        /\ \A l \in Locks : T \in Owner(lock, l) => T \in Owner(lock', l)
    BY <1>2, Distinct DEF Moved
  <2> QED BY <2>1, Distinct DEF TimerPlaces
<1> QED BY <1>1, <1>2

LEMMA UserStays ==
  ASSUME NEW u \in Users, UserPlace(u), state'[u] = state[u],
         \/ UNCHANGED lock
         \/ \E t \in Actors \ {u} : \E given, asked : Moved(lock, lock', t, given, asked)
  PROVE  UserPlace(u)'
<1>1. CASE UNCHANGED lock
  BY <1>1 DEF UserPlace
<1>2. CASE \E t \in Actors \ {u} : \E given, asked : Moved(lock, lock', t, given, asked)
  <2>1. /\ \A l \in Locks : u \in Among(lock', l) <=> u \in Among(lock, l)
        /\ \A l \in Locks : u \in Owner(lock, l) => u \in Owner(lock', l)
    BY <1>2, Distinct DEF Moved
  <2> QED BY <2>1, Distinct DEF UserPlace
<1> QED BY <1>1, <1>2
-----------------------------------------------------------------------------
(***************************************************************************)
(* The scheduler's steps.                                                  *)
(***************************************************************************)
LEMMA SchedulerOwns ==
  ASSUME IInv, Runs(S)
  PROVE  /\ \A l \in Locks : S \in Among(lock, l) => S \in Owner(lock, l)
         /\ SchedulerReady
<1>1. SchedulerReady
  BY Distinct, TeardownAssumption DEF Runs
<1> QED BY <1>1, Distinct, RunnerOwns DEF SchedulerReady, IInv

LEMMA MessagesStay ==
  ASSUME MessagesOK, UNCHANGED <<msg_q, client>>,
         \A c \in Clients : Awaits(c) => Awaits(c)'
  PROVE  MessagesOK'
BY DEF MessagesOK

(* A served client leaves the queue and is the only one to leave.          *)
LEMMA ServeTakes ==
  ASSUME IInv, NEW c, Serve(c)
  PROVE  /\ Queue(msg_q', Clients)
         /\ \A d : Contains(msg_q', d) <=> Contains(msg_q, d) /\ d # c
         /\ Contains(msg_q, c)
<1>1. msg_q # <<>> /\ msg_q' = Tail(msg_q) /\ Head(msg_q) = c
  BY SchedulerOwns DEF Serve, SchedulerReady
<1> QED BY <1>1, AfterTail DEF IInv, MessagesOK

LEMMA OthersKept ==
  ASSUME IInv, UNCHANGED <<tpc, state>>,
         \/ UNCHANGED lock
         \/ \E given, asked : Moved(lock, lock', S, given, asked)
  PROVE  LocksOK(lock') /\ TimerPlaces' /\ UserPlaces'
<1>1. LocksOK(lock')
  BY DEF IInv, Moved
<1>2. TimerPlaces'
  BY Distinct, TimerStays DEF IInv
<1>3. ASSUME NEW u \in Users PROVE UserPlace(u)'
  BY Distinct, UserStays DEF IInv, UserPlaces
<1> QED BY <1>1, <1>2, <1>3 DEF IInv, UserPlaces

LEMMA SchedulerStepKeeps ==
  ASSUME IInv, SchedulerStep
  PROVE  IInv'
<1> USE Distinct
<1>1. CASE AnswerMonitor
  <2>1. tpc \in Asking /\ tpc' \in Monitoring
    <3>1. Awaits(T)
      BY <1>1, ServeTakes DEF AnswerMonitor, IInv, MessagesOK, Clients
    <3> QED BY <1>1, <3>1 DEF Awaits, AnswerMonitor, Asking, Monitoring
  <2>2. SchedulerPlaces' /\ LocksOK(lock') /\ UserPlaces'
    BY <1>1 DEF AnswerMonitor, scheduler, IInv, SchedulerPlaces, Deleting, UserPlaces,
                UserPlace
  <2>3. TimerPlaces'
    BY <1>1, <2>1 DEF AnswerMonitor, IInv, TimerPlaces, Asking, Monitoring, TimerStates,
                      Printing
  <2>4. MessagesOK'
    <3>1. Queue(msg_q', Clients) /\ \A d : Contains(msg_q', d) <=> Contains(msg_q, d) /\ d # T
      BY <1>1, ServeTakes DEF AnswerMonitor
    <3>2. client # T
      BY <1>1, ServeTakes DEF AnswerMonitor, IInv, MessagesOK, Clients
    <3>3. \A c \in Clients : c # T /\ Awaits(c) => Awaits(c)'
      BY <1>1 DEF AnswerMonitor, Awaits, generator
    <3> QED BY <1>1, <3>1, <3>2, <3>3 DEF AnswerMonitor, scheduler, IInv, MessagesOK
  <2> QED BY <2>2, <2>3, <2>4 DEF IInv
<1>2. CASE BeginCreate
  <2>1. Moved(lock, lock', S, {}, {TC})
    BY <1>2, WaitMoves DEF BeginCreate, IInv, TC
  <2>2. SchedulerPlaces'
    BY <1>2, <2>1 DEF BeginCreate, Serve, SchedulerPlaces, SchedulerStates, Deleting, IInv, Moved
  <2>3. LocksOK(lock') /\ TimerPlaces' /\ UserPlaces'
    BY <1>2, <2>1, OthersKept DEF BeginCreate, timerTask
  <2>4. MessagesOK'
    <3>1. /\ Queue(msg_q', Clients) /\ Contains(msg_q, G)
          /\ \A d : Contains(msg_q', d) <=> Contains(msg_q, d) /\ d # G
      BY <1>2, ServeTakes DEF BeginCreate
    <3>2. \A c \in Clients : Awaits(c) <=> Awaits(c)'
      BY <1>2 DEF BeginCreate, Awaits, timerTask, generator
    <3>3. G \in Clients /\ client' = G
      BY <1>2 DEF BeginCreate, Clients
    <3> QED BY <3>1, <3>2, <3>3 DEF IInv, MessagesOK
  <2> QED BY <2>2, <2>3, <2>4 DEF IInv
<1>3. ASSUME NEW u \in Users, BeginDelete(u) PROVE IInv'
  <2>1. Moved(lock, lock', S, {}, {TM})
    BY <1>3, WaitMoves DEF BeginDelete, IInv, TM
  <2>2. SchedulerPlaces'
    BY <1>3, <2>1 DEF BeginDelete, Serve, SchedulerPlaces, SchedulerStates, Deleting, IInv, Moved
  <2>3. LocksOK(lock') /\ TimerPlaces' /\ UserPlaces'
    BY <1>3, <2>1, OthersKept DEF BeginDelete, timerTask
  <2>4. MessagesOK'
    <3>1. /\ Queue(msg_q', Clients) /\ Contains(msg_q, u)
          /\ \A d : Contains(msg_q', d) <=> Contains(msg_q, d) /\ d # u
      BY <1>3, ServeTakes DEF BeginDelete
    <3>2. \A c \in Clients : Awaits(c) <=> Awaits(c)'
      BY <1>3 DEF BeginDelete, Awaits, timerTask, generator
    <3>3. u \in Clients /\ client' = u
      BY <1>3 DEF BeginDelete, Clients
    <3> QED BY <3>1, <3>2, <3>3 DEF IInv, MessagesOK
  <2> QED BY <2>2, <2>3, <2>4 DEF IInv
<1>4. CASE StartTimer
  <2>1. S \in Owner(lock, TE)
    BY <1>4, SchedulerOwns DEF StartTimer, At, IInv, SchedulerPlaces
  <2>2. Moved(lock, lock', S, {TE}, {TM})
    BY <1>4, <2>1, PostWaitMoves DEF StartTimer, IInv, TE, TM
  <2>3. SchedulerPlaces'
    BY <1>4, <2>1, <2>2, SchedulerOwns DEF StartTimer, At, SchedulerPlaces, SchedulerStates, Deleting, IInv, Moved
  <2>4. LocksOK(lock') /\ TimerPlaces' /\ UserPlaces'
    BY <1>4, <2>2, OthersKept DEF StartTimer, timerTask
  <2>5. MessagesOK'
    BY <1>4, MessagesStay DEF StartTimer, IInv, Awaits, timerTask, generator
  <2> QED BY <2>3, <2>4, <2>5 DEF IInv
<1>5. CASE AddTask
  <2>1. S \in Owner(lock, TM)
    BY <1>5, SchedulerOwns DEF AddTask, At, IInv, SchedulerPlaces
  <2>2. Moved(lock, lock', S, {TM}, {TC})
    BY <1>5, <2>1, PostWaitMoves DEF AddTask, IInv, TC, TM
  <2>3. SchedulerPlaces'
    BY <1>5, <2>1, <2>2, SchedulerOwns DEF AddTask, At, SchedulerPlaces, SchedulerStates, Deleting, IInv, Moved
  <2>4. LocksOK(lock') /\ TimerPlaces' /\ UserPlaces'
    BY <1>5, <2>2, OthersKept DEF AddTask, timerTask
  <2>5. MessagesOK'
    BY <1>5, MessagesStay DEF AddTask, IInv, Awaits, timerTask, generator
  <2> QED BY <2>3, <2>4, <2>5 DEF IInv
<1>6. CASE FindGenerator
  <2>1. S \in Owner(lock, TC)
    BY <1>6, SchedulerOwns DEF FindGenerator, At, IInv, SchedulerPlaces
  <2>2. Moved(lock, lock', S, {TC}, {TM})
    BY <1>6, <2>1, PostWaitMoves DEF FindGenerator, IInv, TC, TM
  <2>3. SchedulerPlaces'
    BY <1>6, <2>1, <2>2, SchedulerOwns DEF FindGenerator, At, SchedulerPlaces, SchedulerStates, Deleting, IInv, Moved
  <2>4. LocksOK(lock') /\ TimerPlaces' /\ UserPlaces'
    BY <1>6, <2>2, OthersKept DEF FindGenerator, timerTask
  <2>5. MessagesOK'
    BY <1>6, MessagesStay DEF FindGenerator, IInv, Awaits, timerTask, generator
  <2> QED BY <2>3, <2>4, <2>5 DEF IInv
<1>7. CASE UpdateOverdue
  <2>1. S \in Owner(lock, TM)
    BY <1>7, SchedulerOwns DEF UpdateOverdue, At, IInv, SchedulerPlaces
  <2>2. Moved(lock, lock', S, {TM}, {TM})
    BY <1>7, <2>1, PostWaitMoves DEF UpdateOverdue, IInv, TM
  <2>3. SchedulerPlaces'
    BY <1>7, <2>1, <2>2, SchedulerOwns DEF UpdateOverdue, At, SchedulerPlaces, SchedulerStates, Deleting, IInv, Moved
  <2>4. LocksOK(lock') /\ TimerPlaces' /\ UserPlaces'
    BY <1>7, <2>2, OthersKept DEF UpdateOverdue, timerTask
  <2>5. MessagesOK'
    BY <1>7, MessagesStay DEF UpdateOverdue, IInv, Awaits, timerTask, generator
  <2> QED BY <2>3, <2>4, <2>5 DEF IInv
<1>8. CASE CancelTimer
  <2>1. S \in Owner(lock, TE)
    BY <1>8, SchedulerOwns DEF CancelTimer, At, IInv, SchedulerPlaces
  <2>2. Moved(lock, lock', S, {TE}, {TC})
    BY <1>8, <2>1, PostWaitMoves DEF CancelTimer, IInv, TC, TE
  <2>3. SchedulerPlaces'
    BY <1>8, <2>1, <2>2, SchedulerOwns DEF CancelTimer, At, SchedulerPlaces, SchedulerStates, Deleting, IInv, Moved
  <2>4. LocksOK(lock') /\ TimerPlaces' /\ UserPlaces'
    BY <1>8, <2>2, OthersKept DEF CancelTimer, timerTask
  <2>5. MessagesOK'
    BY <1>8, MessagesStay DEF CancelTimer, IInv, Awaits, timerTask, generator
  <2> QED BY <2>3, <2>4, <2>5 DEF IInv
<1>9. ASSUME NEW u \in Users, CreateTask(u) PROVE IInv'
  <2>1. S \in Owner(lock, TC)
    BY <1>9, SchedulerOwns DEF CreateTask, At, IInv, SchedulerPlaces
  <2>2. Moved(lock, lock', S, {TC}, {TE})
    BY <1>9, <2>1, PostWaitMoves DEF CreateTask, IInv, TC, TE
  <2>3. SchedulerPlaces'
    BY <1>9, <2>1, <2>2, SchedulerOwns DEF CreateTask, At, SchedulerPlaces, SchedulerStates, Deleting, IInv, Moved
  <2>4. LocksOK(lock') /\ TimerPlaces'
    <3>1. tpc' = tpc /\ S \in Actors \ {T} /\ TimerPlaces
      BY <1>9 DEF CreateTask, timerTask, IInv
    <3>2. TimerPlaces'
      BY <2>2, <3>1, TimerStays
    <3> QED BY <2>2, <3>2 DEF Moved
  <2>5. ASSUME NEW v \in Users PROVE UserPlace(v)'
    <3>1. CASE v = u
      BY <1>9, <2>2, <3>1 DEF CreateTask, IInv, UserPlaces, UserPlace, Moved
    <3>2. CASE v # u
      BY <1>9, <2>2, <3>2, UserStays DEF CreateTask, IInv, UserPlaces
    <3> QED BY <3>1, <3>2
  <2>6. MessagesOK'
    BY <1>9, MessagesStay DEF CreateTask, IInv, UserPlaces, Awaits, timerTask, generator
  <2>7. state' \in [Users -> UserStates]
    BY <1>9 DEF CreateTask, IInv, UserPlaces, UserStates
  <2> QED BY <2>3, <2>4, <2>5, <2>6, <2>7 DEF IInv, UserPlaces
<1>10. CASE UpdateActive
  <2>1. S \in Owner(lock, TM)
    BY <1>10, SchedulerOwns DEF UpdateActive, At, IInv, SchedulerPlaces
  <2>2. Moved(lock, lock', S, {TM}, {})
    BY <1>10, <2>1, PostMoves DEF UpdateActive, IInv, TM
  <2>3. SchedulerPlaces'
    BY <1>10, <2>1, <2>2, SchedulerOwns DEF UpdateActive, At, SchedulerPlaces, SchedulerStates, Deleting, IInv, Moved
  <2>4. LocksOK(lock') /\ TimerPlaces'
    <3>1. tpc' = tpc /\ S \in Actors \ {T} /\ TimerPlaces
      BY <1>10 DEF UpdateActive, timerTask, IInv
    <3>2. TimerPlaces'
      BY <2>2, <3>1, TimerStays
    <3> QED BY <2>2, <3>2 DEF Moved
  <2>5. client \in Users => state[client] = "receiving"
    BY DEF IInv, MessagesOK, Awaits, Clients
  <2>6. ASSUME NEW v \in Users PROVE UserPlace(v)'
    <3>1. CASE state'[v] = state[v]
      BY <2>2, <3>1, UserStays DEF IInv, UserPlaces
    <3>2. CASE state'[v] # state[v]
      <4>1. state[v] = "receiving" /\ state'[v] = "aborted"
        BY <1>10, <2>5, <3>2 DEF UpdateActive, IInv, UserPlaces
      <4> QED BY <2>2, <4>1 DEF IInv, UserPlaces, UserPlace, Moved
    <3> QED BY <3>1, <3>2
  <2>7. MessagesOK'
    <3>1. \A c \in Clients : c # client /\ Awaits(c) => Awaits(c)'
      BY <1>10 DEF UpdateActive, IInv, UserPlaces, Awaits, timerTask
    <3>2. \A c \in Clients : Contains(msg_q, c) => c # client
      BY DEF IInv, MessagesOK
    <3>3. client' = None /\ msg_q' = msg_q /\ None \notin Clients
      BY <1>10 DEF UpdateActive, Clients
    <3> QED BY <3>1, <3>2, <3>3 DEF IInv, MessagesOK
  <2>8. state' \in [Users -> UserStates]
    BY <1>10 DEF UpdateActive, IInv, UserPlaces, UserStates
  <2> QED BY <2>3, <2>4, <2>6, <2>7, <2>8 DEF IInv, UserPlaces
<1>11. CASE DeleteActive
  <2>1. S \in Owner(lock, TM) /\ client \in Users /\ spc = "delete_active"
    BY <1>11, SchedulerOwns DEF DeleteActive, At, IInv, SchedulerPlaces
  <2>2. ASSUME client \in active
        PROVE  SchedulerPlaces' /\ \E given, asked : Moved(lock, lock', S, given, asked)
    <3>1. lock' = Wait(lock, S, TE) /\ spc' = "cancel_timer"
      BY <1>11, <2>2 DEF DeleteActive, KeepsLock, TE
    <3>2. Moved(lock, lock', S, {}, {TE})
      BY <3>1, WaitMoves DEF IInv
    <3>3. SchedulerPlaces'
      BY <1>11, <2>1, <3>1, <3>2 DEF DeleteActive, SchedulerPlaces, SchedulerStates, Deleting, IInv, Moved
    <3> QED BY <3>2, <3>3
  <2>3. ASSUME client \notin active
        PROVE  SchedulerPlaces' /\ \E given, asked : Moved(lock, lock', S, given, asked)
    <3>1. spc' = "delete_overdue" /\ \/ lock' = Wait(lock, S, TM)
                                     \/ lock' = Wait(Post(lock, TM), S, TM)
      BY <1>11, <2>3 DEF DeleteActive, TM
    <3>2. PICK given \in {{}, {TM}} : Moved(lock, lock', S, given, {TM})
      BY <2>1, <3>1, WaitMoves, PostWaitMoves DEF IInv
    <3>3. SchedulerPlaces'
      BY <1>11, <2>1, <3>1, <3>2 DEF DeleteActive, SchedulerPlaces, SchedulerStates, Deleting, IInv, Moved
    <3> QED BY <3>2, <3>3
  <2>4. SchedulerPlaces' /\ \E given, asked : Moved(lock, lock', S, given, asked)
    BY <2>2, <2>3
  <2>5. LocksOK(lock') /\ TimerPlaces' /\ UserPlaces'
    BY <1>11, <2>4, OthersKept DEF DeleteActive, timerTask
  <2>6. MessagesOK'
    BY <1>11, MessagesStay DEF DeleteActive, IInv, Awaits, timerTask, generator
  <2> QED BY <2>4, <2>5, <2>6 DEF IInv
<1>12. CASE DeleteOverdue
  <2>1. S \in Owner(lock, TM) /\ client \in Users /\ spc = "delete_overdue"
    BY <1>12, SchedulerOwns DEF DeleteOverdue, At, IInv, SchedulerPlaces
  <2>2. Moved(lock, lock', S, {}, {TC})
    BY <1>12, WaitMoves DEF DeleteOverdue, IInv, TC
  <2>3. SchedulerPlaces'
    BY <1>12, <2>1, <2>2 DEF DeleteOverdue, SchedulerPlaces, SchedulerStates, Deleting, IInv, Moved
  <2>4. LocksOK(lock') /\ TimerPlaces' /\ UserPlaces'
    BY <1>12, <2>2, OthersKept DEF DeleteOverdue, timerTask
  <2>5. MessagesOK'
    BY <1>12, MessagesStay DEF DeleteOverdue, IInv, Awaits, timerTask, generator
  <2> QED BY <2>3, <2>4, <2>5 DEF IInv
<1>13. CASE CreateFails
  <2>1. S \in Owner(lock, TC) /\ client = G
    BY <1>13, SchedulerOwns DEF CreateFails, At, IInv, SchedulerPlaces
  <2>2. Moved(lock, lock', S, {TC}, {})
    BY <1>13, <2>1, PostMoves DEF CreateFails, IInv, TC
  <2>3. SchedulerPlaces'
    BY <1>13, <2>1, <2>2 DEF CreateFails, At, SchedulerPlaces, SchedulerStates, Deleting, IInv, Moved
  <2>4. LocksOK(lock') /\ TimerPlaces'
    <3>1. tpc' = tpc /\ S \in Actors \ {T} /\ TimerPlaces
      BY <1>13 DEF CreateFails, timerTask, IInv
    <3>2. TimerPlaces'
      BY <2>2, <3>1, TimerStays
    <3> QED BY <2>2, <3>2 DEF Moved
  <2>5. state' = state \/ \E u \in Users :
                            state[u] = "free" /\ state' = [state EXCEPT ![u] = "running"]
    BY <1>13 DEF CreateFails
  <2>6. ASSUME NEW v \in Users PROVE UserPlace(v)'
    <3>1. CASE state'[v] = state[v]
      BY <2>2, <3>1, UserStays DEF IInv, UserPlaces
    <3>2. CASE state'[v] # state[v]
      <4>1. state[v] = "free" /\ state'[v] = "running"
        BY <2>5, <3>2 DEF IInv, UserPlaces
      <4> QED BY <2>2, <4>1 DEF IInv, UserPlaces, UserPlace, Moved
    <3> QED BY <3>1, <3>2
  <2>7. MessagesOK'
    <3>1. \A c \in Clients : c # client /\ Awaits(c) => Awaits(c)'
      BY <1>13, <2>1, <2>5 DEF CreateFails, IInv, UserPlaces, Awaits, timerTask
    <3>2. \A c \in Clients : Contains(msg_q, c) => c # client
      BY DEF IInv, MessagesOK
    <3>3. client' = None /\ msg_q' = msg_q /\ None \notin Clients
      BY <1>13 DEF CreateFails, Clients
    <3> QED BY <3>1, <3>2, <3>3 DEF IInv, MessagesOK
  <2>8. state' \in [Users -> UserStates]
    BY <2>5 DEF IInv, UserPlaces, UserStates
  <2> QED BY <2>3, <2>4, <2>6, <2>7, <2>8 DEF IInv, UserPlaces
<1> QED BY <1>1, <1>2, <1>3, <1>4, <1>5, <1>6, <1>7, <1>8, <1>9, <1>10, <1>11, <1>12, <1>13
        DEF SchedulerStep

-----------------------------------------------------------------------------
(***************************************************************************)
(* The timer task's steps.                                                 *)
(***************************************************************************)
LEMMA TimerOwns ==
  ASSUME IInv, Runs(T)
  PROVE  /\ \A l \in Locks : T \in Among(lock, l) => T \in Owner(lock, l)
         /\ tpc \notin {"isr"} \cup Printing \cup Asking
<1>1. Able(T)
  BY Distinct DEF Runs
<1> QED BY <1>1, Distinct, RunnerOwns DEF Able, IInv

(* The rest of the system when only the timer task moves, and asks for no  *)
(* answer or waits for one no longer than it has it.                       *)
LEMMA OthersKeptByTimer ==
  ASSUME IInv, UNCHANGED <<spc, client, msg_q, gpc, state>>,
         tpc \notin Asking,
         \/ UNCHANGED lock
         \/ \E given, asked : Moved(lock, lock', T, given, asked)
  PROVE  LocksOK(lock') /\ MessagesOK' /\ SchedulerPlaces' /\ UserPlaces'
<1>1. LocksOK(lock')
  BY DEF IInv, Moved
<1>2. SchedulerPlaces'
  BY Distinct, SchedulerStays DEF IInv
<1>3. ASSUME NEW u \in Users PROVE UserPlace(u)'
  BY Distinct, UserStays DEF IInv, UserPlaces
<1>4. MessagesOK'
  BY MessagesStay DEF IInv, Awaits
<1> QED BY <1>1, <1>2, <1>3, <1>4 DEF IInv, UserPlaces

LEMMA TimerStepKeeps ==
  ASSUME IInv, TimerStep
  PROVE  IInv'
<1> USE Distinct
<1>a. Runs(T)
  BY DEF TimerStep, TimerAt, TakeEntries, LockLists, MoveOverdue, FireMonitor, Ask, PrintTasks,
         UnlockMonitor, RearmMonitor, SecondQueue, WaitForTick, FireDeadline
<1>b. /\ \A l \in Locks : T \in Among(lock, l) => T \in Owner(lock, l)
      /\ tpc \notin Asking
  BY <1>a, TimerOwns
<1>1. CASE TakeEntries
  <2>1. Moved(lock, lock', T, {}, {TE})
    BY <1>1, WaitMoves DEF TakeEntries, IInv, TE
  <2>2. TimerPlaces'
    BY <1>1, <2>1 DEF TakeEntries, TimerAt, TimerPlaces, TimerStates, Monitoring, IInv, Moved
  <2>3. LocksOK(lock') /\ MessagesOK' /\ SchedulerPlaces' /\ UserPlaces'
    BY <1>1, <1>b, <2>1, OthersKeptByTimer DEF TakeEntries, scheduler, generator
  <2> QED BY <2>2, <2>3 DEF IInv
<1>2. ASSUME NEW u \in Users, FireDeadline(u) PROVE IInv'
  <2>1. TimerPlaces'
    BY <1>2, <1>b DEF FireDeadline, PrintThen, TimerAt, TimerPlaces, TimerStates, Printing,
                      Monitoring, IInv
  <2>2. LocksOK(lock') /\ MessagesOK' /\ SchedulerPlaces' /\ UserPlaces'
    BY <1>2, <1>b, OthersKeptByTimer DEF FireDeadline, scheduler, generator
  <2> QED BY <2>1, <2>2 DEF IInv
<1>3. CASE LockLists
  <2>1. Moved(lock, lock', T, {}, {TM})
    BY <1>3, WaitMoves DEF LockLists, IInv, TM
  <2>2. TimerPlaces'
    BY <1>3, <2>1 DEF LockLists, TimerAt, TimerPlaces, TimerStates, Monitoring, IInv, Moved
  <2>3. LocksOK(lock') /\ MessagesOK' /\ SchedulerPlaces' /\ UserPlaces'
    BY <1>3, <1>b, <2>1, OthersKeptByTimer DEF LockLists, scheduler, generator
  <2> QED BY <2>2, <2>3 DEF IInv
<1>4. CASE MoveOverdue
  <2>1. T \in Owner(lock, TM)
    BY <1>4, <1>b DEF MoveOverdue, TimerAt, IInv, TimerPlaces
  <2>2. Moved(lock, lock', T, {TM}, {})
    BY <1>4, <2>1, PostMoves DEF MoveOverdue, AddTaskLeaves, IInv, TM
  <2>3. TimerPlaces'
    BY <1>4, <2>2 DEF MoveOverdue, TimerAt, TimerPlaces, TimerStates, Monitoring, IInv, Moved
  <2>4. LocksOK(lock') /\ MessagesOK' /\ SchedulerPlaces' /\ UserPlaces'
    BY <1>4, <1>b, <2>2, OthersKeptByTimer DEF MoveOverdue, scheduler, generator
  <2> QED BY <2>3, <2>4 DEF IInv
<1>5. CASE FireMonitor
  <2>1. Moved(lock, lock', T, {}, {TM})
    BY <1>5, WaitMoves DEF FireMonitor, IInv, TM
  <2>2. TimerPlaces'
    BY <1>5, <1>b, <2>1 DEF FireMonitor, TimerAt, TimerPlaces, TimerStates, Monitoring, IInv, Moved
  <2>3. LocksOK(lock') /\ MessagesOK' /\ SchedulerPlaces' /\ UserPlaces'
    BY <1>5, <1>b, <2>1, OthersKeptByTimer DEF FireMonitor, scheduler, generator
  <2> QED BY <2>2, <2>3 DEF IInv
<1>6. CASE Ask
  <2>1. /\ tpc \in {"lock_monitor", "has_active"} /\ tpc' \in Asking
        /\ UNCHANGED <<lock, spc, client, gpc, state>>
        /\ msg_q' = Append(msg_q, T)
    BY <1>6 DEF Ask, TimerAt, Asking, scheduler, generator
  <2>2. TimerPlaces'
    BY <2>1, <1>b DEF TimerPlaces, TimerStates, Monitoring, Asking, IInv
  <2>3. SchedulerPlaces' /\ UserPlaces' /\ LocksOK(lock')
    BY <2>1 DEF IInv, SchedulerPlaces, Deleting, UserPlaces, UserPlace
  <2>4. MessagesOK'
    <3>1. ~Awaits(T)
      BY <1>b DEF Awaits
    <3>2. T \in Clients /\ ~Contains(msg_q, T) /\ client # T
      BY <3>1 DEF Clients, IInv, MessagesOK
    <3>3. /\ Queue(msg_q', Clients)
          /\ \A x : Contains(msg_q', x) <=> Contains(msg_q, x) \/ x = T
      BY <2>1, <3>2, AfterAppend DEF IInv, MessagesOK
    <3>4. Awaits(T)' /\ \A c \in Clients : Awaits(c) => Awaits(c)'
      BY <2>1, <3>1 DEF Awaits
    <3> QED BY <2>1, <3>2, <3>3, <3>4 DEF IInv, MessagesOK
  <2> QED BY <2>2, <2>3, <2>4 DEF IInv
<1>7. CASE PrintTasks
  <2>1. TimerPlaces'
    BY <1>7, <1>b DEF PrintTasks, PrintThen, TimerAt, TimerPlaces, TimerStates, Printing,
                      Monitoring, IInv
  <2>2. LocksOK(lock') /\ MessagesOK' /\ SchedulerPlaces' /\ UserPlaces'
    BY <1>7, <1>b, OthersKeptByTimer DEF PrintTasks, scheduler, generator
  <2> QED BY <2>1, <2>2 DEF IInv
<1>8. CASE UnlockMonitor
  <2>1. T \in Owner(lock, TM)
    BY <1>8, <1>b DEF UnlockMonitor, TimerAt, IInv, TimerPlaces, Monitoring
  <2>2. Moved(lock, lock', T, {TM}, {})
    BY <1>8, <2>1, PostMoves DEF UnlockMonitor, IInv, TM
  <2>3. TimerPlaces'
    BY <1>8, <2>2 DEF UnlockMonitor, PrintThen, TimerAt, TimerPlaces, TimerStates, Printing,
                      Monitoring, IInv, Moved
  <2>4. LocksOK(lock') /\ MessagesOK' /\ SchedulerPlaces' /\ UserPlaces'
    BY <1>8, <1>b, <2>2, OthersKeptByTimer DEF UnlockMonitor, scheduler, generator
  <2> QED BY <2>3, <2>4 DEF IInv
<1>9. CASE RearmMonitor
  <2>1. TimerPlaces'
    BY <1>9, <1>b DEF RearmMonitor, TimerAt, TimerPlaces, TimerStates, Monitoring, IInv
  <2>2. LocksOK(lock') /\ MessagesOK' /\ SchedulerPlaces' /\ UserPlaces'
    BY <1>9, <1>b, OthersKeptByTimer DEF RearmMonitor, scheduler, generator
  <2> QED BY <2>1, <2>2 DEF IInv
<1>10. CASE SecondQueue
  <2>1. T \in Owner(lock, TE)
    BY <1>10, <1>b DEF SecondQueue, TimerAt, IInv, TimerPlaces
  <2>2. Moved(lock, lock', T, {TE}, {TE})
    BY <1>10, <2>1, PostWaitMoves DEF SecondQueue, IInv, TE
  <2>3. TimerPlaces'
    BY <1>10, <2>2 DEF SecondQueue, TimerAt, TimerPlaces, TimerStates, Monitoring, IInv, Moved
  <2>4. LocksOK(lock') /\ MessagesOK' /\ SchedulerPlaces' /\ UserPlaces'
    BY <1>10, <1>b, <2>2, OthersKeptByTimer DEF SecondQueue, scheduler, generator
  <2> QED BY <2>3, <2>4 DEF IInv
<1>11. CASE WaitForTick
  <2>1. T \in Owner(lock, TE)
    BY <1>11, <1>b DEF WaitForTick, TimerAt, IInv, TimerPlaces
  <2>2. Moved(lock, lock', T, {TE}, {})
    BY <1>11, <2>1, PostMoves DEF WaitForTick, IInv, TE
  <2>3. TimerPlaces'
    BY <1>11, <2>2 DEF WaitForTick, TimerAt, TimerPlaces, TimerStates, Monitoring, IInv, Moved
  <2>4. LocksOK(lock') /\ MessagesOK' /\ SchedulerPlaces' /\ UserPlaces'
    BY <1>11, <1>b, <2>2, OthersKeptByTimer DEF WaitForTick, scheduler, generator
  <2> QED BY <2>3, <2>4 DEF IInv
<1> QED BY <1>1, <1>2, <1>3, <1>4, <1>5, <1>6, <1>7, <1>8, <1>9, <1>10, <1>11 DEF TimerStep

-----------------------------------------------------------------------------
(***************************************************************************)
(* The generator's and the scheduled tasks' steps, and interrupts.         *)
(***************************************************************************)
LEMMA GeneratorStepKeeps ==
  ASSUME IInv, GeneratorStep
  PROVE  IInv'
<1> USE Distinct
<1>1. UNCHANGED <<lock, spc, client, tpc, state>> /\ gpc \in {"run", "failed"}
  BY DEF GeneratorStep, Release, Delay, FailAssertion, scheduler, timerTask
<1>2. LocksOK(lock') /\ SchedulerPlaces' /\ TimerPlaces' /\ UserPlaces'
  BY <1>1 DEF IInv, SchedulerPlaces, Deleting, TimerPlaces, UserPlaces, UserPlace
<1>3. CASE Release
  <2>1. G \in Clients /\ ~Contains(msg_q, G) /\ client # G
    BY <1>1 DEF Clients, IInv, MessagesOK, Awaits
  <2>2. /\ msg_q' = Append(msg_q, G) /\ Queue(msg_q', Clients)
        /\ \A x : Contains(msg_q', x) <=> Contains(msg_q, x) \/ x = G
    BY <1>3, <2>1, AfterAppend DEF Release, IInv, MessagesOK
  <2>3. Awaits(G)' /\ \A c \in Clients : Awaits(c) => Awaits(c)'
    BY <1>1, <1>3 DEF Release, Awaits
  <2>4. MessagesOK'
    BY <1>1, <2>1, <2>2, <2>3 DEF IInv, MessagesOK
  <2> QED BY <1>2, <2>4 DEF IInv
<1>4. CASE Delay \/ FailAssertion
  <2>1. \A c \in Clients : Awaits(c) => Awaits(c)'
    BY <1>1 DEF Awaits
  <2>2. MessagesOK'
    BY <1>1, <1>4, <2>1, MessagesStay DEF Delay, FailAssertion, IInv
  <2> QED BY <1>2, <2>2 DEF IInv
<1> QED BY <1>3, <1>4 DEF GeneratorStep

(* The rest of the system when only the task u moves.                      *)
LEMMA OthersKeptByUser ==
  ASSUME IInv, NEW u \in Users, NEW to \in UserStates,
         UNCHANGED <<spc, client, msg_q, tpc, gpc>>,
         state' = [state EXCEPT ![u] = to], state[u] # "receiving",
         \E given, asked : Moved(lock, lock', u, given, asked),
         UserPlace(u)'
  PROVE  IInv'
<1> USE Distinct
<1>1. LocksOK(lock')
  BY DEF Moved
<1>2. u \in Actors \ {S} /\ u \in Actors \ {T}
  OBVIOUS
<1>3. SchedulerPlaces'
  BY <1>2, SchedulerStays DEF IInv
<1>4. TimerPlaces'
  BY <1>2, TimerStays DEF IInv
<1>5. ASSUME NEW v \in Users PROVE UserPlace(v)'
  <2>1. CASE v # u
    <3>1. u \in Actors \ {v} /\ state'[v] = state[v] /\ UserPlace(v)
      BY <2>1 DEF IInv, UserPlaces
    <3> QED BY <3>1, UserStays
  <2> QED BY <2>1
<1>6. state' \in [Users -> UserStates]
  BY DEF IInv, UserPlaces
<1>7. MessagesOK'
  <2>1. \A c \in Clients : Awaits(c) => Awaits(c)'
    BY DEF Awaits, IInv, UserPlaces
  <2> QED BY <2>1, MessagesStay DEF IInv
<1> QED BY <1>1, <1>3, <1>4, <1>5, <1>6, <1>7 DEF IInv, UserPlaces

LEMMA UserOwns ==
  ASSUME IInv, NEW u \in Users, Runs(u)
  PROVE  \A l \in Locks : u \in Among(lock, l) => u \in Owner(lock, l)
<1>1. UserReady(u)
  BY Distinct, TeardownAssumption DEF Runs
<1> QED BY <1>1, Distinct, RunnerOwns DEF UserReady, IInv

LEMMA UserStepKeeps ==
  ASSUME IInv, NEW u \in Users, UserStep(u)
  PROVE  IInv'
<1> USE Distinct
<1>a. Runs(u)
  BY DEF UserStep, UserAt, FinishTask, BeginDestroy, BeginCleanup, EndCleanup, EndDestroy
<1>b. /\ \A l \in Locks : u \in Among(lock, l) => u \in Owner(lock, l)
      /\ UserPlace(u) /\ state \in [Users -> UserStates]
  BY <1>a, UserOwns DEF IInv, UserPlaces
<1>1. CASE FinishTask(u)
  <2>1. /\ state[u] = "running" /\ state' = [state EXCEPT ![u] = "receiving"]
        /\ UNCHANGED <<lock, spc, client, tpc, gpc>>
        /\ msg_q' = Append(msg_q, u)
    BY <1>1 DEF FinishTask, UserAt, scheduler, timerTask, generator
  <2>2. SchedulerPlaces' /\ TimerPlaces' /\ LocksOK(lock')
    BY <2>1 DEF IInv, SchedulerPlaces, Deleting, TimerPlaces
  <2>3. UserPlaces'
    <3>1. state' \in [Users -> UserStates]
      BY <2>1, <1>b DEF UserStates
    <3>2. ASSUME NEW v \in Users PROVE UserPlace(v)'
      <4>1. UserPlace(v)
        BY DEF IInv, UserPlaces
      <4> QED BY <4>1, <2>1, <1>b DEF UserPlace
    <3> QED BY <3>1, <3>2 DEF UserPlaces
  <2>4. MessagesOK'
    <3>1. u \in Clients /\ ~Contains(msg_q, u) /\ client # u
      BY <2>1 DEF Clients, IInv, MessagesOK, Awaits
    <3>2. /\ Queue(msg_q', Clients)
          /\ \A x : Contains(msg_q', x) <=> Contains(msg_q, x) \/ x = u
      BY <2>1, <3>1, AfterAppend DEF IInv, MessagesOK
    <3>3. Awaits(u)' /\ \A c \in Clients : Awaits(c) => Awaits(c)'
      BY <2>1, <1>b DEF Awaits
    <3> QED BY <2>1, <3>1, <3>2, <3>3 DEF IInv, MessagesOK
  <2> QED BY <2>2, <2>3, <2>4 DEF IInv
<1>2. CASE BeginDestroy(u)
  <2>1. Moved(lock, lock', u, {}, {TC})
    BY <1>2, WaitMoves DEF BeginDestroy, IInv, TC
  <2>2. UserPlace(u)'
    BY <1>2, <1>b, <2>1 DEF BeginDestroy, UserAt, UserPlace, Moved
  <2> QED BY <1>2, <2>1, <2>2, OthersKeptByUser
          DEF BeginDestroy, UserAt, UserStates, scheduler, timerTask, generator
<1>3. CASE BeginCleanup(u)
  <2>1. Moved(lock, lock', u, {}, {TE})
    BY <1>3, WaitMoves DEF BeginCleanup, CleanupLock, IInv, TE
  <2>2. UserPlace(u)'
    BY <1>3, <1>b, <2>1 DEF BeginCleanup, UserAt, UserPlace, Moved
  <2> QED BY <1>3, <2>1, <2>2, OthersKeptByUser
          DEF BeginCleanup, UserAt, UserStates, scheduler, timerTask, generator
<1>4. CASE EndCleanup(u)
  <2>1. u \in Owner(lock, TE)
    BY <1>4, <1>b DEF EndCleanup, UserAt, UserPlace
  <2>2. Moved(lock, lock', u, {TE}, {})
    BY <1>4, <2>1, PostMoves DEF EndCleanup, CleanedUp, CleanupLock, IInv, TE
  <2>3. UserPlace(u)'
    BY <1>4, <1>b, <2>2 DEF EndCleanup, UserAt, UserPlace, Moved
  <2> QED BY <1>4, <2>2, <2>3, OthersKeptByUser
          DEF EndCleanup, UserAt, UserStates, scheduler, timerTask, generator
<1>5. CASE EndDestroy(u)
  <2>1. u \in Owner(lock, TC)
    BY <1>5, <1>b DEF EndDestroy, UserAt, UserPlace
  <2>2. Moved(lock, lock', u, {TC}, {})
    BY <1>5, <2>1, PostMoves DEF EndDestroy, IInv, TC
  <2>3. UserPlace(u)'
    BY <1>5, <1>b, <2>2 DEF EndDestroy, UserAt, UserPlace, Moved
  <2> QED BY <1>5, <2>2, <2>3, OthersKeptByUser
          DEF EndDestroy, UserAt, UserStates, scheduler, timerTask, generator
<1> QED BY <1>1, <1>2, <1>3, <1>4, <1>5 DEF UserStep

LEMMA InterruptKeeps ==
  ASSUME IInv, Tick \/ SerialDrained
  PROVE  IInv'
<1> USE Distinct
<1>1. /\ UNCHANGED <<lock, msg_q, spc, client, state>>
      /\ gpc' = gpc \/ gpc = "delay"
      /\ \/ tpc' = tpc
         \/ tpc = "isr" /\ tpc' = "woken"
         \/ tpc = "print_overdue" /\ tpc' = "printed"
         \/ tpc = "print_tasks" /\ tpc' = "unlock_monitor"
         \/ tpc = "print_stats" /\ tpc' = "rearm_monitor"
  BY DEF Tick, SerialDrained, Printing, scheduler, generator
<1>2. SchedulerPlaces' /\ UserPlaces' /\ LocksOK(lock')
  BY <1>1 DEF IInv, SchedulerPlaces, Deleting, UserPlaces, UserPlace
<1>3. TimerPlaces'
  BY <1>1 DEF IInv, TimerPlaces, TimerStates, Printing, Monitoring
<1>4. \A c \in Clients : Awaits(c) => Awaits(c)'
  BY <1>1 DEF Awaits, Asking
<1>5. MessagesOK'
  BY <1>1, <1>4, MessagesStay DEF IInv
<1> QED BY <1>2, <1>3, <1>5 DEF IInv

LEMMA IInvInductive ==
  ASSUME IInv, [Next]_vars
  PROVE  IInv'
<1>1. CASE SchedulerStep
  BY <1>1, SchedulerStepKeeps
<1>2. CASE TimerStep
  BY <1>2, TimerStepKeeps
<1>3. CASE GeneratorStep
  BY <1>3, GeneratorStepKeeps
<1>4. CASE \E u \in Users : UserStep(u)
  BY <1>4, UserStepKeeps
<1>5. CASE Tick \/ SerialDrained
  BY <1>5, InterruptKeeps
<1>6. CASE UNCHANGED vars
  <2>1. UNCHANGED <<lock, msg_q, spc, client, tpc, gpc, state>>
    BY <1>6 DEF vars, scheduler, timerTask, generator
  <2>2. LocksOK(lock') /\ SchedulerPlaces' /\ TimerPlaces' /\ UserPlaces'
    BY <2>1 DEF IInv, SchedulerPlaces, Deleting, TimerPlaces, UserPlaces, UserPlace
  <2>3. MessagesOK'
    BY <2>1, MessagesStay DEF IInv, Awaits
  <2> QED BY <2>2, <2>3 DEF IInv
<1> QED BY <1>1, <1>2, <1>3, <1>4, <1>5, <1>6 DEF Next, Work

-----------------------------------------------------------------------------
(***************************************************************************)
(* Circular waits, from who is where.                                      *)
(***************************************************************************)

(* A waiter is in the queue and not its head; an owner is the head.        *)
LEMMA WaitsAre ==
  ASSUME IInv, NEW t \in Actors, NEW v \in Actors, WaitsFor(t, v)
  PROVE  \/ \E l \in Locks : /\ t \in Among(lock, l) /\ t \notin Owner(lock, l)
                             /\ v \in Among(lock, l) /\ v \in Owner(lock, l)
                             /\ Owner(lock, l) = {v}
         \/ t = T /\ tpc \in Asking /\ v = S
<1>1. CASE \E l \in Locks : Waits(t, l) /\ Owns(v, l)
  <2>1. PICK l \in Locks : Waits(t, l) /\ Owns(v, l)
    BY <1>1
  <2>2. Owner(lock, l) = {v}
    BY <2>1 DEF Owns, Owner
  <2> QED BY <2>1, <2>2, OwnsOrWaits DEF IInv
<1> QED BY <1>1 DEF WaitsFor

(* A task in its clean-up owns TASK_CREATE_LWSEM, so it is alone there.     *)
LEMMA UserWaits ==
  ASSUME IInv, NEW u \in Users, NEW v \in Actors, WaitsFor(u, v)
  PROVE  \/ u \notin Owner(lock, TC) /\ Owner(lock, TC) = {v} /\ v # T
         \/ u \in Owner(lock, TC) /\ Owner(lock, TE) = {v} /\ v \in {S, T}
<1> USE Distinct
<1>1. UserPlaces /\ TimerPlaces
  BY DEF IInv
<1>2. PICK l \in Locks : /\ u \in Among(lock, l) /\ u \notin Owner(lock, l)
                         /\ v \in Among(lock, l) /\ Owner(lock, l) = {v}
  BY WaitsAre
<1>3. CASE l = TC
  BY <1>1, <1>2, <1>3 DEF TimerPlaces
<1>4. CASE l = TE
  <2>1. state[u] = "cleanup" /\ u \in Owner(lock, TC)
    BY <1>1, <1>2, <1>4 DEF UserPlaces, UserPlace
  <2>2. ASSUME v \in Users PROVE FALSE
    <3>1. v \in Owner(lock, TC)
      BY <1>1, <1>2, <1>4, <2>2 DEF UserPlaces, UserPlace
    <3>2. u = v
      BY <2>1, <3>1 DEF Owner
    <3> QED BY <1>2, <3>2
  <2> QED BY <1>2, <1>4, <2>1, <2>2 DEF Actors
<1>5. CASE l = TM
  BY <1>1, <1>2, <1>5 DEF UserPlaces, UserPlace
<1> QED BY <1>3, <1>4, <1>5

(* Owning one of the kernel's semaphores the scheduler waits for nothing:  *)
(* it gives each up before it asks for another, and tasks_m, if it goes on *)
(* to that, is already its own.                                            *)
LEMMA SchedulerWaits ==
  ASSUME IInv, NEW v \in Actors, WaitsFor(S, v)
  PROVE  v # S /\ S \notin Owner(lock, TC) /\ S \notin Owner(lock, TE)
<1> USE Distinct
<1>1. SchedulerPlaces
  BY DEF IInv
<1>2. PICK l \in Locks : /\ S \in Among(lock, l) /\ S \notin Owner(lock, l)
                         /\ Owner(lock, l) = {v}
  BY WaitsAre
<1>3. \A m \in Locks : S \in Owner(lock, m) => S \in Among(lock, m)
  BY OwnsOrWaits DEF IInv
<1>4. l \in {TC, TE, TM}
  BY <1>2
<1>5. ASSUME S \in Owner(lock, TC) \/ S \in Owner(lock, TE) PROVE FALSE
  <2>1. l = TM /\ S \in Among(lock, TM)
    BY <1>1, <1>2, <1>3, <1>4, <1>5 DEF SchedulerPlaces
  <2>2. spc \in {"create", "find_generator", "start_timer", "cancel_timer"}
    BY <1>1, <1>3, <1>5 DEF SchedulerPlaces
  <2>3. Deleting
    BY <1>1, <2>1, <2>2 DEF SchedulerPlaces
  <2> QED BY <1>1, <1>2, <2>1, <2>3 DEF SchedulerPlaces
<1> QED BY <1>2, <1>5

(* The timer task waits for the scheduler, or for TIMER_ENTRIES_LWSEM.     *)
LEMMA TimerWaits ==
  ASSUME IInv, NEW v \in Actors, WaitsFor(T, v), v # S
  PROVE  v \in Users /\ v \in Owner(lock, TE)
<1> USE Distinct
<1>1. TimerPlaces /\ UserPlaces
  BY DEF IInv
<1>2. PICK l \in Locks : /\ T \in Among(lock, l) /\ T \notin Owner(lock, l)
                         /\ v \in Among(lock, l) /\ Owner(lock, l) = {v}
  BY WaitsAre
<1>3. v \in Users
  BY <1>2 DEF Actors
<1>4. l # TM
  BY <1>1, <1>2, <1>3 DEF UserPlaces, UserPlace
<1>5. l # TC
  BY <1>1, <1>2 DEF TimerPlaces
<1> QED BY <1>2, <1>3, <1>4, <1>5

(* No dying task waits in a circle that leaves out the timer task ...      *)
LEMMA NoUserWithoutTimer ==
  ASSUME IInv, NEW C \in SUBSET Actors, Circular(C), T \notin C, NEW u \in Users, u \in C
  PROVE  FALSE
<1> USE Distinct
<1>1. ASSUME NEW t \in C PROVE \E v \in C : WaitsFor(t, v)
  BY DEF Circular
<1>2. S \in C => S \notin Owner(lock, TC) /\ S \notin Owner(lock, TE)
  BY <1>1, SchedulerWaits
<1>3. ASSUME NEW w \in Users, w \in C, w \in Owner(lock, TC) PROVE FALSE
  <2>1. PICK v \in C : WaitsFor(w, v)
    BY <1>1, <1>3
  <2>2. Owner(lock, TE) = {v} /\ v \in {S, T}
    BY <1>3, <2>1, UserWaits
  <2> QED BY <1>2, <2>2
<1>4. PICK v \in C : WaitsFor(u, v)
  BY <1>1
<1>5. Owner(lock, TC) = {v}
  BY <1>3, <1>4, UserWaits
<1>6. v \in Users
  BY <1>2, <1>5 DEF Actors
<1> QED BY <1>3, <1>5, <1>6

(* ... so every circle takes the timer task in, and with it the scheduler. *)
LEMMA IInvOnlyThroughTimer ==
  ASSUME IInv
  PROVE  OnlyThroughTimer
<1> USE Distinct
<1> SUFFICES ASSUME NEW C \in SUBSET Actors, Circular(C)
             PROVE  S \in C /\ T \in C
  BY DEF OnlyThroughTimer
<1>1. C # {} /\ \A t \in C : \E v \in C : WaitsFor(t, v)
  BY DEF Circular
<1>2. T \in C
  <2> SUFFICES ASSUME T \notin C PROVE FALSE
    OBVIOUS
  <2>1. C = {S}
    BY <1>1, NoUserWithoutTimer DEF Actors
  <2>2. WaitsFor(S, S)
    BY <1>1, <2>1
  <2> QED BY <2>2, SchedulerWaits
<1>3. S \in C
  <2> SUFFICES ASSUME S \notin C PROVE FALSE
    OBVIOUS
  <2>1. PICK v \in C : WaitsFor(T, v)
    BY <1>1, <1>2
  <2>2. v \in Users /\ v \in Owner(lock, TE)
    BY <2>1, TimerWaits
  <2>3. v \in Among(lock, TE)
    BY <2>2, OwnsOrWaits DEF IInv
  <2>4. v \in Owner(lock, TC)
    BY <2>2, <2>3 DEF IInv, UserPlaces, UserPlace
  <2>5. PICK w \in C : WaitsFor(v, w)
    BY <1>1
  <2>6. Owner(lock, TE) = {w} /\ w \in {S, T}
    BY <2>2, <2>4, <2>5, UserWaits
  <2> QED BY <2>2, <2>6
<1> QED BY <1>2, <1>3

(* Every circular wait goes through the scheduler and the timer task, for  *)
(* any number of tasks and releases: the kernel's destruction of tasks     *)
(* (_task_destroy_internal, _timer_cleanup) adds no deadlock of its own.   *)
THEOREM CircularOnlyThroughTimer == Spec => []OnlyThroughTimer
<1>1. Init => IInv
  BY InitPlaces
<1>2. IInv /\ [Next]_vars => IInv'
  BY IInvInductive
<1>3. IInv => OnlyThroughTimer
  BY IInvOnlyThroughTimer
<1> QED BY <1>1, <1>2, <1>3, PTL DEF Spec

-----------------------------------------------------------------------------
(***************************************************************************)
(* The types of the rest: the handlers hold a task where they use one.     *)
(***************************************************************************)
SchedulerData ==
  /\ node \in Users \cup {None} /\ client \in {G, None} \cup Users
  /\ spc \in {"start_timer", "add_task"} => node \in Users

TimerData ==
  /\ expired \in Users \cup {None} /\ ticked \in BOOLEAN
  /\ tpc \in {"print_overdue", "printed", "move_overdue"} => expired \in Users

EntriesOK == armed \subseteq Users \cup {MON} /\ due \subseteq Users \cup {MON}

GeneratorOK == gpc \in GeneratorStates /\ round \in 0 .. Releases

ListsOK == active \subseteq Users /\ overdue \subseteq Users

DataOK ==
  /\ ticks \in 0 .. MaxTicks /\ ready \in Seq({T, G})
  /\ SchedulerData /\ TimerData /\ EntriesOK /\ GeneratorOK /\ ListsOK

LEMMA RequeueType ==
  ASSUME NEW a \in {T, G}, NEW b \in {T, G}, Requeue(<<a, b>>)
  PROVE  ready' \in Seq({T, G})
<1> DEFINE place == [t \in {T, G} |-> IF Able(t)' THEN <<t>> ELSE <<>>]
           order == IF ready = <<>> THEN <<a, b>>
                                    ELSE IF Head(ready) = T THEN <<T, G>> ELSE <<G, T>>
<1>1. order[1] \in {T, G} /\ order[2] \in {T, G}
  OBVIOUS
<1>2. ASSUME NEW t \in {T, G} PROVE place[t] \in Seq({T, G})
  <2>1. <<>> \in Seq({T, G}) /\ <<t>> \in Seq({T, G})
    OBVIOUS
  <2>2. CASE Able(t)'
    BY <2>1, <2>2
  <2>3. CASE ~Able(t)'
    BY <2>1, <2>3
  <2> QED BY <2>2, <2>3
<1>3. ready' = place[order[1]] \o place[order[2]]
  BY DEF Requeue
<1> HIDE DEF place, order
<1>4. place[order[1]] \in Seq({T, G}) /\ place[order[2]] \in Seq({T, G})
  BY <1>1, <1>2
<1> QED BY <1>3, <1>4, ConcatProperties

LEMMA SchedulerStepData ==
  ASSUME IInv, DataOK, SchedulerStep
  PROVE  DataOK'
<1> USE DEF SchedulerData, TimerData, EntriesOK, GeneratorOK, GeneratorStates, ListsOK,
            scheduler, timerTask, entries, generator, lists, At, Serve
<1>1. UNCHANGED ticks /\ ready' \in Seq({T, G})
  BY RequeueType DEF SchedulerStep, AnswerMonitor, BeginCreate, StartTimer, AddTask,
     FindGenerator, UpdateOverdue, UpdateActive, DeleteActive, DeleteOverdue,
     CancelTimer, CreateTask, CreateFails, BeginDelete
<1>2. ASSUME AnswerMonitor PROVE DataOK'
  BY <1>1, <1>2 DEF DataOK, AnswerMonitor
<1>3. ASSUME NEW u \in Users, CreateTask(u) \/ BeginDelete(u) PROVE DataOK'
  BY <1>1, <1>3 DEF DataOK, CreateTask, BeginDelete
<1>4. ASSUME StartTimer \/ AddTask PROVE DataOK'
  BY <1>1, <1>4 DEF DataOK, StartTimer, AddTask
<1>5. ASSUME \/ BeginCreate \/ CreateFails \/ FindGenerator
             \/ UpdateOverdue \/ UpdateActive
      PROVE  DataOK'
  BY <1>1, <1>5 DEF DataOK, BeginCreate, CreateFails, FindGenerator, UpdateOverdue,
     UpdateActive
<1>6. ASSUME DeleteActive \/ DeleteOverdue \/ CancelTimer PROVE DataOK'
  BY <1>1, <1>6 DEF DataOK, DeleteActive, DeleteOverdue, CancelTimer
<1> QED BY <1>2, <1>3, <1>4, <1>5, <1>6 DEF SchedulerStep

LEMMA TimerStepData ==
  ASSUME IInv, DataOK, TimerStep
  PROVE  DataOK'
<1> USE DEF SchedulerData, TimerData, EntriesOK, GeneratorOK, ListsOK, scheduler,
            timerTask, entries, generator, lists, TimerAt, PrintThen
<1>1. UNCHANGED ticks /\ ready' \in Seq({T, G})
  BY RequeueType DEF TimerStep, TakeEntries, FireDeadline, LockLists, MoveOverdue,
     FireMonitor, Ask, PrintTasks, UnlockMonitor, RearmMonitor, SecondQueue, WaitForTick
<1>2. ASSUME NEW u \in Users, FireDeadline(u) PROVE DataOK'
  BY <1>1, <1>2 DEF DataOK, FireDeadline
<1>3. ASSUME LockLists \/ MoveOverdue PROVE DataOK'
  BY <1>1, <1>3 DEF DataOK, LockLists, MoveOverdue
<1>4. ASSUME FireMonitor \/ RearmMonitor PROVE DataOK'
  BY <1>1, <1>4 DEF DataOK, FireMonitor, RearmMonitor
<1>5. ASSUME TakeEntries \/ Ask \/ PrintTasks \/ UnlockMonitor PROVE DataOK'
  BY <1>1, <1>5 DEF DataOK, TakeEntries, Ask, PrintTasks, UnlockMonitor
<1>6. ASSUME SecondQueue \/ WaitForTick PROVE DataOK'
  BY <1>1, <1>6 DEF DataOK, SecondQueue, WaitForTick
<1> QED BY <1>2, <1>3, <1>4, <1>5, <1>6 DEF TimerStep

LEMMA OthersData ==
  ASSUME IInv, DataOK,
         \/ GeneratorStep
         \/ \E u \in Users : UserStep(u)
         \/ Tick \/ SerialDrained
  PROVE  DataOK'
<1> USE DEF SchedulerData, TimerData, EntriesOK, GeneratorOK, GeneratorStates, ListsOK,
            scheduler, timerTask, entries, generator, lists
<1>0. Releases \in Nat /\ MaxTicks \in Nat
  BY TeardownAssumption
<1>1. ready' \in Seq({T, G})
  BY RequeueType DEF DataOK, GeneratorStep, Release, Delay, FailAssertion, UserStep, FinishTask, BeginDestroy,
     BeginCleanup, EndCleanup, EndDestroy, Tick, SerialDrained
<1>2. ASSUME GeneratorStep PROVE DataOK'
  BY <1>0, <1>1, <1>2 DEF DataOK, GeneratorStep, Release, Delay, FailAssertion
<1>3. ASSUME NEW u \in Users, UserStep(u) PROVE DataOK'
  BY <1>1, <1>3 DEF DataOK, UserStep, FinishTask, BeginDestroy, BeginCleanup, EndCleanup,
     EndDestroy
<1>4. ASSUME Tick PROVE DataOK'
  <2>1. ticks' \in 0 .. MaxTicks
    BY <1>0, <1>4 DEF DataOK, Tick
  <2>2. SchedulerData' /\ GeneratorOK' /\ ListsOK'
    BY <1>4 DEF DataOK, Tick
  <2>3. EntriesOK'
    BY <1>4 DEF DataOK, Tick
  <2>4. TimerData'
    <3>1. tpc' = tpc \/ tpc' = "woken"
      BY <1>4 DEF Tick
    <3>2. expired' = expired /\ ticked' \in BOOLEAN
      BY <1>4 DEF Tick
    <3> QED BY <3>1, <3>2 DEF DataOK
  <2> QED BY <1>1, <2>1, <2>2, <2>3, <2>4 DEF DataOK
<1>5. ASSUME SerialDrained PROVE DataOK'
  BY <1>1, <1>5 DEF DataOK, SerialDrained, Printing
<1> QED BY <1>2, <1>3, <1>4, <1>5

(* What the handlers use has its type, for any number of tasks: the        *)
(* scheduler creates and lists a task, and deadline_overdue moves one,     *)
(* only while it has one; the ready queue holds only the two tasks of      *)
(* priority 1.                                                             *)
THEOREM TypeCorrect == Spec => []TypeOK
<1>1. Init => IInv /\ DataOK
  <2>1. Init => DataOK
    <3>1. Releases \in Nat /\ MaxTicks \in Nat /\ <<G>> \in Seq({T, G})
      BY TeardownAssumption
    <3>2. Init => SchedulerData /\ TimerData /\ EntriesOK /\ ListsOK
      BY DEF Init, SchedulerData, TimerData, EntriesOK, ListsOK
    <3>3. Init => GeneratorOK /\ ticks \in 0 .. MaxTicks /\ ready \in Seq({T, G})
      BY <3>1 DEF Init, GeneratorOK, GeneratorStates
    <3> QED BY <3>2, <3>3 DEF DataOK
  <2> QED BY <2>1, InitPlaces
<1>2. IInv /\ DataOK /\ [Next]_vars => IInv' /\ DataOK'
  <2> SUFFICES ASSUME IInv, DataOK, [Next]_vars PROVE DataOK'
    BY IInvInductive
  <2>1. CASE UNCHANGED vars
    BY <2>1 DEF vars, scheduler, timerTask, entries, generator, lists, DataOK,
       SchedulerData, TimerData, EntriesOK, GeneratorOK, ListsOK
  <2> QED BY <2>1, SchedulerStepData, TimerStepData, OthersData DEF Next, Work
<1>3. IInv /\ DataOK => TypeOK
  <2> SUFFICES ASSUME IInv, DataOK PROVE TypeOK
    OBVIOUS
  <2>1. lock \in [Locks -> Seq(Actors)] /\ \A l \in Locks : IsInjective(lock[l])
    BY DEF IInv, LocksOK
  <2>2. msg_q \in Seq({T, G} \cup Users)
    BY Distinct DEF IInv, MessagesOK, Queue, Clients
  <2>3. spc \in SchedulerStates /\ tpc \in TimerStates /\ state \in [Users -> UserStates]
    BY DEF IInv, SchedulerPlaces, TimerPlaces, UserPlaces
  <2> QED BY <2>1, <2>2, <2>3 DEF DataOK, SchedulerData, TimerData, EntriesOK, GeneratorOK,
          ListsOK, TypeOK
<1> QED BY <1>1, <1>2, <1>3, PTL DEF Spec
=============================================================================
