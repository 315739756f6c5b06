------------------------------ MODULE Messages ------------------------------
(***************************************************************************)
(* A dd_ call as messages: dd_scheduler.c over the message component of    *)
(* the kernel (msg.c, msgpool.c, msgq.c).                                  *)
(*                                                                         *)
(*   S      Scheduler_task, priority 0, answers requests                   *)
(*   G      Generator_task, priority 1, creates with preemption off        *)
(*   T      the timer task, priority 1, asks for lists in update_monitor   *)
(*   Users  scheduled tasks, which delete themselves; one may preempt      *)
(*          another anywhere, for their priorities change with each call   *)
(*                                                                         *)
(* A step is the code between two places where preemption, or the button's *)
(* interrupt, could be noticed.  What the scheduler does with a request is *)
(* abstract (DDScheduler has it); that it may sleep while it works is not. *)
(***************************************************************************)
EXTENDS Naturals, Sequences, FiniteSets, Functions

CONSTANTS
  Users, S, T, G, None,
  SQ, GQ,           \* SCHEDULER_QID, generator_msg_qid
  RequestBlocks,    \* what the heap can give scheduler_msg_pool
  ResponseBlocks,   \* what it can give scheduler_resp_pool
  InitMessages, GrowMessages,
  NumQueues,        \* queue numbers left for dd_ calls
  GeneratorLimit    \* capacity of the generator's queue

Clients == {T, G} \cup Users
Blocks == RequestBlocks \cup ResponseBlocks
Queues == 1 .. NumQueues
QueueIds == Queues \cup {SQ, GQ}
Answers == Users \cup {"null", "ok", "list"}

ASSUME MessagesAssumption ==
  /\ S \notin Clients \cup {None} /\ T \notin Users \cup {G, None}
  /\ G \notin Users \cup {None}
  /\ None \notin Users \cup Blocks \cup Answers /\ None \notin QueueIds
  /\ SQ # GQ /\ {SQ, GQ} \cap Queues = {}
  /\ RequestBlocks \cap ResponseBlocks = {}
  /\ IsFiniteSet(Users)
  /\ IsFiniteSet(RequestBlocks) /\ IsFiniteSet(ResponseBlocks)
  /\ {InitMessages, GrowMessages, GeneratorLimit} \subseteq Nat \ {0}
  /\ NumQueues \in Nat

VARIABLES
  halted,      \* "no", or the assertion that failed
  \* pools and blocks
  pool,        \* scheduler_msg_pool is not 0
  slot,        \* the second of the MAX_MSGPOOLS slots is taken
  blocks,      \* the blocks that have been added to a pool
  free,        \* the blocks on their pool's MSG_FREE_LIST
  FREE, QUEUED, TD_PTR,  \* fields of a block's header
  content,     \* its body
  \* queues and task descriptors
  qowner,      \* the task that has a queue open
  q,           \* its messages
  rcv,         \* tasks in state RCV_SPECIFIC_BLOCKED
  td,          \* MESSAGE field of a task descriptor
  active,      \* the task of priority 1 that has the processor, if any
  \* a caller
  pc, local_q,
  held,        \* "msg" while it fills a request in, "resp" when it reads
  returned,    \* "result", until the call returns
  gmsg,        \* the message the generator has polled
  \* the scheduler
  spc, cur     \* what it does next, and its "resp"

pools == <<pool, slot, blocks, free, FREE, QUEUED, TD_PTR, content>>
kernel == <<qowner, q, rcv, td, active>>
callers == <<pc, local_q, held, returned, gmsg>>
server == <<spc, cur>>
vars == <<halted, pools, kernel, callers, server>>

(* A body: who asks (RQST tells a create from a list, a delete has the id  *)
(* of its caller), SOURCE_QID, and a response's result.                    *)
Bodies == [client : Clients \cup {None}, qid : QueueIds, result : Answers]
EmptyBody == [client |-> None, qid |-> SQ, result |-> "null"]
Halts == {"no", "queue assert", "request assert", "response assert",
          "button assert", "generator assert"}
Steps == {"none", "run", "idle", "delay", "loop", "open", "create", "size",
          "grow", "take", "send", "receive", "wait", "read", "close", "exit",
          "sweep"}

TypeOK ==
  /\ halted \in Halts /\ pool \in BOOLEAN /\ slot \in BOOLEAN
  /\ blocks \subseteq Blocks /\ free \subseteq Blocks
  /\ FREE \in [Blocks -> BOOLEAN] /\ QUEUED \in [Blocks -> BOOLEAN]
  /\ TD_PTR \in [Blocks -> Clients \cup {S, None}]
  /\ content \in [Blocks -> Bodies]
  /\ qowner \in [QueueIds -> Clients \cup {S, None}]
  /\ q \in [QueueIds -> Seq(Blocks)]
  /\ rcv \subseteq Clients \cup {S}
  /\ td \in [Clients \cup {S} -> Blocks \cup {None}]
  /\ active \in {T, G, None}
  /\ pc \in [Clients -> Steps]
  /\ local_q \in [Clients -> Queues \cup {None}]
  /\ held \in [Clients -> Blocks \cup {None}]
  /\ returned \in [Clients -> Answers \cup {None}]
  /\ gmsg \in Blocks \cup {None}
  /\ spc \in {"receive", "work", "blocked", "reply"}
  /\ cur \in Blocks \cup {None}

(* The scheduler has made its pool and waits on its queue, the generator   *)
(* has opened its own; no call has been made.                              *)
Init ==
  /\ halted = "no" /\ pool = FALSE /\ slot = FALSE
  /\ blocks \in {B \in SUBSET ResponseBlocks : Cardinality(B) = InitMessages}
  /\ free = blocks
  /\ FREE = [b \in Blocks |-> TRUE] /\ QUEUED = [b \in Blocks |-> FALSE]
  /\ TD_PTR = [b \in Blocks |-> None]
  /\ content = [b \in Blocks |-> EmptyBody]
  /\ qowner = [i \in QueueIds |->
                 CASE i = SQ -> S [] i = GQ -> G [] OTHER -> None]
  /\ q = [i \in QueueIds |-> <<>>]
  /\ rcv = {S} /\ td = [t \in Clients \cup {S} |-> None] /\ active = None
  /\ pc = [c \in Clients |->
             CASE c = G -> "delay" [] c = T -> "idle" [] OTHER -> "none"]
  /\ local_q = [c \in Clients |-> None]
  /\ held = [c \in Clients |-> None]
  /\ returned = [c \in Clients |-> None]
  /\ gmsg = None
  /\ spc = "receive" /\ cur = None

-----------------------------------------------------------------------------
(***************************************************************************)
(* Who runs.  The generator's calls are not preempted, not even by the     *)
(* scheduler; tasks of priority 1 do not preempt each other.               *)
(***************************************************************************)
SchedulerReady == S \notin rcv /\ spc # "blocked"

(* A task whose message has come is ready.                                 *)
Woken(t) == pc[t] = "wait" /\ t \notin rcv

(* Variant: the timer task has a better priority than the generator.       *)
MayRun_TimerPreempts(t) ==
  t = T \/ (~SchedulerReady /\ active \in {t, None})

(* A task of priority 1 runs on until it blocks.                           *)
MayRun(t) ==
  IF t = G /\ active = G THEN TRUE
                         ELSE ~SchedulerReady /\ active \in {t, None}

Runs(t) ==
  /\ halted = "no"
  /\ CASE t = S -> SchedulerReady /\ active # G
       [] t \in {T, G} -> MayRun(t)
       [] OTHER -> /\ ~SchedulerReady /\ active = None
                   /\ ~Woken(T) /\ ~Woken(G)

At(c, step) == Runs(c) /\ pc[c] = step
Goto(c, step) == pc' = [pc EXCEPT ![c] = step]

(* Variant: preemption stays off whoever runs.                             *)
Keep_Always(c) == active' = c

(* The processor after a step of c that goes on, and after one that blocks.*)
Keep(c) == active' = IF c \in {T, G} THEN c ELSE active
Leave(c) == active' = IF c \in {T, G} THEN None ELSE active

-----------------------------------------------------------------------------
(***************************************************************************)
(* The message component.                                                  *)
(***************************************************************************)
(* _msgpool_add_internal: n more blocks, or none if the heap, of which the *)
(* tasks are made too, has no room for them now.                           *)
Add(P, n, more) == more \subseteq P \ blocks /\ Cardinality(more) \in {0, n}

(* Taking a block off the free list resets its flags and makes the task    *)
(* that asks, None in an interrupt, its owner.                             *)
Header(b, owner) ==
  /\ FREE' = [FREE EXCEPT ![b] = FALSE]
  /\ QUEUED' = [QUEUED EXCEPT ![b] = FALSE]
  /\ TD_PTR' = [TD_PTR EXCEPT ![b] = owner]

(* _msg_free of every block of B, all in use and off the queues.  The      *)
(* owner and body of a free block are read by nobody and forgotten here.   *)
Free(B) ==
  /\ free' = free \cup B
  /\ FREE' = [b \in Blocks |-> b \in B \/ FREE[b]]
  /\ TD_PTR' = [b \in Blocks |-> IF b \in B THEN None ELSE TD_PTR[b]]
  /\ content' = [b \in Blocks |-> IF b \in B THEN EmptyBody ELSE content[b]]

WaitsOn(t) == IF t = S THEN SQ ELSE local_q[t]
HasRoom(i) ==
  i = SQ \/ Len(q[i]) < (IF i = GQ THEN GeneratorLimit ELSE 1)

(* Variant: a message handed to a blocked receiver keeps its sender's mark.*)
HandOver_SenderOwns(b, t) ==
  /\ td' = [td EXCEPT ![t] = b] /\ rcv' = rcv \ {t}
  /\ UNCHANGED TD_PTR

(* The shortcut of _msgq_send_internal: into the receiver's descriptor.    *)
HandOver(b, t) ==
  /\ td' = [td EXCEPT ![t] = b] /\ rcv' = rcv \ {t}
  /\ TD_PTR' = [TD_PTR EXCEPT ![b] = t]

(* _msgq_send of a block to an open queue with room.                       *)
Deliver(b, i) ==
  LET t == qowner[i] IN
  IF t \in rcv /\ WaitsOn(t) = i
    THEN HandOver(b, t) /\ UNCHANGED <<q, QUEUED>>
    ELSE /\ q' = [q EXCEPT ![i] = Append(@, b)]
         /\ QUEUED' = [QUEUED EXCEPT ![b] = TRUE]
         /\ UNCHANGED <<td, rcv, TD_PTR>>

(* The head of a queue is given to an owner: DEQUEUE_TOP_MSG_ENTRY.        *)
Dequeue(i, owner) ==
  /\ q' = [q EXCEPT ![i] = Tail(@)]
  /\ QUEUED' = [QUEUED EXCEPT ![Head(q[i])] = FALSE]
  /\ TD_PTR' = [TD_PTR EXCEPT ![Head(q[i])] = owner]

(* Variant: the queue is emptied but its number stays taken.               *)
CloseQueue_KeepsNumber(i, others) ==
  LET left == {q[i][k] : k \in DOMAIN q[i]} IN
  /\ Free(left \cup others)
  /\ QUEUED' = [b \in Blocks |-> QUEUED[b] /\ b \notin left]
  /\ q' = [q EXCEPT ![i] = <<>>]
  /\ UNCHANGED qowner

(* _msgq_close, and _msg_cleanup for a dead task: the queue's messages are *)
(* taken off it and freed, its number can be opened again.  The caller     *)
(* frees the blocks of "others" next.                                      *)
CloseQueue(i, others) ==
  LET left == {q[i][k] : k \in DOMAIN q[i]} IN
  /\ Free(left \cup others)
  /\ QUEUED' = [b \in Blocks |-> QUEUED[b] /\ b \notin left]
  /\ q' = [q EXCEPT ![i] = <<>>]
  /\ qowner' = [qowner EXCEPT ![i] = None]

(* A test of SIZE = 0 and the growth that follows it.                      *)
Grow(P, more) ==
  IF free \cap P = {} THEN Add(P, GrowMessages, more) ELSE more = {}

-----------------------------------------------------------------------------
(***************************************************************************)
(* create_scheduler_request.                                               *)
(***************************************************************************)
(* Variant: the search takes the first number, open or not.                *)
FreeQueue_Any(i) == i \in Queues

FreeQueue(i) == i \in Queues /\ qowner[i] = None

(* A call begins: the first free queue number is opened, then the pool     *)
(* variable is read.                                                       *)
Open(c) ==
  /\ At(c, CASE c = T -> "idle" [] c = G -> "open" [] OTHER -> "run")
  /\ Keep(c)
  /\ IF \E i \in Queues : FreeQueue(i)
       THEN \E i \in Queues :
              /\ FreeQueue(i) /\ \A j \in Queues : FreeQueue(j) => i <= j
              /\ qowner' = [qowner EXCEPT ![i] = c]
              /\ local_q' = [local_q EXCEPT ![c] = i]
              /\ Goto(c, IF pool THEN "size" ELSE "create")
              /\ UNCHANGED halted
       ELSE halted' = "queue assert" /\ UNCHANGED <<qowner, local_q, pc>>
  /\ UNCHANGED <<pools, q, rcv, td, held, returned, gmsg, server>>

(* _msgpool_create returns 0 when both slots are taken, or, and gives the  *)
(* slot back, when it could add no block; that 0 goes into                 *)
(* scheduler_msg_pool like any other result.                               *)
CreatePool(c) ==
  /\ At(c, "create") /\ Keep(c) /\ Goto(c, "size")
  /\ IF slot
       THEN pool' = FALSE /\ UNCHANGED <<slot, blocks, free>>
       ELSE \E more \in SUBSET RequestBlocks :
              /\ Add(RequestBlocks, InitMessages, more)
              /\ pool' = (more # {}) /\ slot' = (more # {})
              /\ blocks' = blocks \cup more /\ free' = free \cup more
  /\ UNCHANGED <<halted, FREE, QUEUED, TD_PTR, content, qowner, q, rcv, td,
                 local_q, held, returned, gmsg, server>>

(* _msg_alloc looks at SIZE with interrupts enabled, ...                   *)
TestSize(c) ==
  /\ At(c, "size") /\ Keep(c)
  /\ IF pool
       THEN /\ Goto(c, IF free \cap RequestBlocks = {} THEN "grow" ELSE "take")
            /\ UNCHANGED halted
       ELSE halted' = "request assert" /\ UNCHANGED pc
  /\ UNCHANGED <<pools, qowner, q, rcv, td, local_q, held, returned, gmsg,
                 server>>

(* ... adds blocks if it saw none, ...                                     *)
GrowPool(c) ==
  /\ At(c, "grow") /\ Keep(c) /\ Goto(c, "take")
  /\ \E more \in SUBSET RequestBlocks :
       /\ Add(RequestBlocks, GrowMessages, more)
       /\ blocks' = blocks \cup more /\ free' = free \cup more
  /\ UNCHANGED <<halted, pool, slot, FREE, QUEUED, TD_PTR, content, qowner, q,
                 rcv, td, local_q, held, returned, gmsg, server>>

(* ... and then takes what it finds.                                       *)
TakeMessage(c) ==
  /\ At(c, "take") /\ Keep(c)
  /\ IF free \cap RequestBlocks = {}
       THEN /\ halted' = "request assert"
            /\ UNCHANGED <<pools, held, pc>>
       ELSE \E b \in free \cap RequestBlocks :
              /\ free' = free \ {b} /\ Header(b, c)
              /\ held' = [held EXCEPT ![c] = b]
              /\ content' = [content EXCEPT ![b] =
                   [client |-> c, qid |-> local_q[c], result |-> "null"]]
              /\ Goto(c, "send")
              /\ UNCHANGED <<halted, pool, slot, blocks>>
  /\ UNCHANGED <<qowner, q, rcv, td, local_q, returned, gmsg, server>>

-----------------------------------------------------------------------------
(***************************************************************************)
(* The rest of a dd_ call.                                                 *)
(***************************************************************************)
SendRequest(c) ==
  /\ At(c, "send") /\ Keep(c)
  /\ Deliver(held[c], SQ)
  /\ held' = [held EXCEPT ![c] = None]
  /\ Goto(c, "receive")
  /\ UNCHANGED <<halted, pool, slot, blocks, free, FREE, content, qowner,
                 local_q, returned, gmsg, server>>

(* Variant: the caller sleeps without a look at its queue.                 *)
ReceiveReply_Blind(c) ==
  /\ At(c, "receive")
  /\ rcv' = rcv \cup {c} /\ Leave(c) /\ Goto(c, "wait")
  /\ UNCHANGED <<halted, pools, qowner, q, td, local_q, held, returned, gmsg,
                 server>>

(* The answer may be in the queue already; else the caller sleeps, without *)
(* a limit, even if it has preemption off.                                 *)
ReceiveReply(c) ==
  /\ At(c, "receive")
  /\ IF q[local_q[c]] # <<>>
       THEN /\ Dequeue(local_q[c], c) /\ Keep(c) /\ Goto(c, "read")
            /\ held' = [held EXCEPT ![c] = Head(q[local_q[c]])]
            /\ UNCHANGED rcv
       ELSE /\ rcv' = rcv \cup {c} /\ Leave(c) /\ Goto(c, "wait")
            /\ UNCHANGED <<q, QUEUED, TD_PTR, held>>
  /\ UNCHANGED <<halted, pool, slot, blocks, free, FREE, content, qowner, td,
                 local_q, returned, gmsg, server>>

Wake(c) ==
  /\ At(c, "wait") /\ c \notin rcv
  /\ held' = [held EXCEPT ![c] = td[c]] /\ td' = [td EXCEPT ![c] = None]
  /\ Keep(c) /\ Goto(c, "read")
  /\ UNCHANGED <<halted, pools, qowner, q, rcv, local_q, returned, gmsg,
                 server>>

(* Variant: the response is not freed.                                     *)
ReadAnswer_NotFreed(c) ==
  /\ At(c, "read") /\ Keep(c) /\ Goto(c, "close")
  /\ returned' = [returned EXCEPT ![c] = content[held[c]].result]
  /\ held' = [held EXCEPT ![c] = None]
  /\ UNCHANGED <<halted, pools, qowner, q, rcv, td, local_q, gmsg, server>>

ReadAnswer(c) ==
  /\ At(c, "read") /\ Keep(c) /\ Goto(c, "close")
  /\ returned' = [returned EXCEPT ![c] = content[held[c]].result]
  /\ Free({held[c]}) /\ held' = [held EXCEPT ![c] = None]
  /\ UNCHANGED <<halted, pool, slot, blocks, QUEUED, qowner, q, rcv, td,
                 local_q, gmsg, server>>

(* The timer task goes on to its next call or sleeps; the generator        *)
(* asserts that it created a task, then frees a message it had polled.  A  *)
(* task that deleted itself does not come here: Reply aborts it.           *)
Close(c) ==
  /\ At(c, "close") /\ c \in {T, G}
  /\ CloseQueue(local_q[c], IF c = G THEN {gmsg} \ {None} ELSE {})
  /\ local_q' = [local_q EXCEPT ![c] = None]
  /\ returned' = [returned EXCEPT ![c] = None]
  /\ IF c = G
       THEN /\ gmsg' = None /\ Goto(c, "loop") /\ Keep(c)
            /\ halted' = IF returned[c] = "null" THEN "generator assert"
                                                 ELSE halted
       ELSE /\ Goto(c, "idle") /\ (Keep(c) \/ Leave(c))
            /\ UNCHANGED <<gmsg, halted>>
  /\ UNCHANGED <<pool, slot, blocks, rcv, td, held, server>>

(***************************************************************************)
(* The end of an aborted task, in the kernel's exit handler: _msg_cleanup  *)
(* closes its queue, ...                                                   *)
(***************************************************************************)
Exit(u) ==
  /\ At(u, "exit") /\ Goto(u, "sweep")
  /\ CloseQueue(local_q[u], {})
  /\ local_q' = [local_q EXCEPT ![u] = None]
  /\ UNCHANGED <<halted, pool, slot, blocks, rcv, td, active, held, returned,
                 gmsg, server>>

(* Variant: the search for its messages stops at the queues.               *)
Owned_None(u) == {}

(* ... then searches all pools for blocks with its mark.                   *)
Owned(u) == {b \in blocks : TD_PTR[b] = u /\ ~FREE[b] /\ ~QUEUED[b]}

Sweep(u) ==
  /\ At(u, "sweep") /\ Goto(u, "none")
  /\ Free(Owned(u)) /\ td' = [td EXCEPT ![u] = None]
  /\ UNCHANGED <<halted, pool, slot, blocks, QUEUED, qowner, q, rcv, active,
                 local_q, held, returned, gmsg, server>>

ClientStep(c) ==
  \/ Open(c) \/ CreatePool(c) \/ TestSize(c) \/ GrowPool(c)
  \/ TakeMessage(c) \/ SendRequest(c) \/ ReceiveReply(c) \/ Wake(c)
  \/ ReadAnswer(c) \/ Close(c)
  \/ c \in Users /\ (Exit(c) \/ Sweep(c))

-----------------------------------------------------------------------------
(***************************************************************************)
(* Generator_task between its calls, and the button that feeds it.         *)
(***************************************************************************)

(* A polled message belongs to no task.                                    *)
Poll ==
  /\ At(G, "delay") /\ Keep(G)
  /\ IF q[GQ] = <<>>
       THEN Goto(G, "loop") /\ UNCHANGED <<gmsg, q, QUEUED, TD_PTR>>
       ELSE /\ gmsg' = Head(q[GQ]) /\ Dequeue(GQ, None)
            /\ Goto(G, "open")
  /\ UNCHANGED <<halted, pool, slot, blocks, free, FREE, content, qowner, rcv,
                 td, local_q, held, returned, server>>

(* In the loop over the periodic tasks: the next is due, or none is.       *)
ReleaseOrDelay ==
  /\ At(G, "loop")
  /\ \/ Keep(G) /\ Goto(G, "open")
     \/ Leave(G) /\ Goto(G, "delay")
  /\ UNCHANGED <<halted, pools, qowner, q, rcv, td, local_q, held, returned,
                 gmsg, server>>

(* gpio1_PORTB_IRQHandler.  It waits for nobody; a message that the        *)
(* generator's queue has no room for is freed again.                       *)
ButtonPress ==
  /\ halted = "no"
  /\ \E more \in SUBSET RequestBlocks :
       /\ IF pool THEN Grow(RequestBlocks, more) ELSE more = {}
       /\ LET found == (free \cup more) \cap RequestBlocks IN
          IF ~pool \/ found = {}
            THEN /\ halted' = "button assert"
                 /\ UNCHANGED <<pools, q, td, rcv>>
            ELSE \E b \in found :
                   /\ blocks' = blocks \cup more
                   /\ content' = [content EXCEPT ![b] = EmptyBody]
                   /\ IF HasRoom(GQ)
                        THEN /\ free' = (free \cup more) \ {b}
                             /\ FREE' = [FREE EXCEPT ![b] = FALSE]
                             /\ QUEUED' = [QUEUED EXCEPT ![b] = TRUE]
                             /\ q' = [q EXCEPT ![GQ] = Append(@, b)]
                        ELSE free' = free \cup more /\ UNCHANGED <<FREE, QUEUED, q>>
                   /\ TD_PTR' = [TD_PTR EXCEPT ![b] = None]
                   /\ UNCHANGED <<halted, pool, slot, td, rcv>>
  /\ UNCHANGED <<qowner, active, callers, server>>

-----------------------------------------------------------------------------
(***************************************************************************)
(* Scheduler_task.                                                         *)
(***************************************************************************)
SleepForRequest ==
  /\ Runs(S) /\ spc = "receive" /\ td[S] = None /\ q[SQ] = <<>>
  /\ rcv' = rcv \cup {S}
  /\ UNCHANGED <<halted, pools, qowner, q, td, active, callers, server>>

(* Variant: the response is addressed to the queue that was opened last.   *)
Address_Fixed(b) == 1

Address(b) == content[b].qid

(* The next request is in the descriptor if the scheduler slept, else at   *)
(* the head of the queue.  A response is allocated, with growth, and       *)
(* addressed; the request is freed.                                        *)
TakeRequest ==
  LET b == IF td[S] # None THEN td[S] ELSE Head(q[SQ]) IN
  /\ Runs(S) /\ spc = "receive" /\ (td[S] # None \/ q[SQ] # <<>>)
  /\ td' = [td EXCEPT ![S] = None]
  /\ q' = IF td[S] # None THEN q ELSE [q EXCEPT ![SQ] = Tail(@)]
  /\ \E more \in SUBSET ResponseBlocks :
       /\ Grow(ResponseBlocks, more)
       /\ LET found == (free \cup more) \cap ResponseBlocks IN
          IF found = {}
            THEN /\ halted' = "response assert"
                 /\ QUEUED' = [QUEUED EXCEPT ![b] = FALSE]
                 /\ TD_PTR' = [TD_PTR EXCEPT ![b] = S]
                 /\ cur' = b /\ spc' = "work"
                 /\ UNCHANGED <<blocks, free, FREE, content>>
            ELSE \E r \in found :
                   /\ blocks' = blocks \cup more
                   /\ free' = ((free \cup more) \ {r}) \cup {b}
                   /\ FREE' = [FREE EXCEPT ![r] = FALSE, ![b] = TRUE]
                   /\ QUEUED' = [QUEUED EXCEPT ![r] = FALSE, ![b] = FALSE]
                   /\ TD_PTR' = [TD_PTR EXCEPT ![r] = S, ![b] = None]
                   /\ content' = [content EXCEPT
                        ![r] = [client |-> content[b].client,
                                qid |-> Address(b), result |-> "null"],
                        ![b] = EmptyBody]
                   /\ cur' = r /\ spc' = "work"
                   /\ UNCHANGED halted
  /\ UNCHANGED <<pool, slot, qowner, rcv, active, callers>>

(* The handler.  On the way it may have to sleep for a lock.  A creation   *)
(* fails when there is no task to be had, and also, at once, when the task *)
(* is made but not the timer of its deadline; that task stays.             *)
Work ==
  LET c == content[cur].client IN
  /\ Runs(S) /\ spc = "work"
  /\ spc' \in {"blocked", "reply"}
  /\ \E result \in Answers :
       /\ content' = [content EXCEPT ![cur].result = result]
       /\ \/ /\ c = G /\ result \in Users /\ pc[result] = "none"
             /\ pc' = [pc EXCEPT ![result] = "run"]
          \/ /\ c = G /\ result = "null" /\ UNCHANGED pc
             /\ \A u \in Users : pc[u] # "none"
          \/ /\ c = G /\ result = "null" /\ spc' = "reply"
             /\ \E u \in Users :
                  pc[u] = "none" /\ pc' = [pc EXCEPT ![u] = "run"]
          \/ c = T /\ result = "list" /\ UNCHANGED pc
          \/ c \in Users /\ result = "ok" /\ UNCHANGED pc
  /\ UNCHANGED <<halted, pool, slot, blocks, free, FREE, QUEUED, TD_PTR,
                 kernel, local_q, held, returned, gmsg, cur>>

(* The lock it sleeps for comes free.                                      *)
Unblock ==
  /\ halted = "no" /\ spc = "blocked" /\ spc' = "reply"
  /\ UNCHANGED <<halted, pools, kernel, callers, cur>>

(* _msgq_send of the response, which is freed if the queue is closed or    *)
(* has no room; then the task of a deletion is aborted.                    *)
Reply ==
  LET c == content[cur].client  i == content[cur].qid IN
  /\ Runs(S) /\ spc = "reply"
  /\ IF qowner[i] # None /\ HasRoom(i)
       THEN Deliver(cur, i) /\ UNCHANGED <<free, FREE, content>>
       ELSE Free({cur}) /\ UNCHANGED <<td, rcv, q, QUEUED>>
  /\ pc' = IF c \in Users THEN [pc EXCEPT ![c] = "exit"] ELSE pc
  /\ cur' = None /\ spc' = "receive"
  /\ UNCHANGED <<halted, pool, slot, blocks, qowner, active, local_q, held,
                 returned, gmsg>>

ServerStep == SleepForRequest \/ TakeRequest \/ Work \/ Reply
GeneratorStep == Poll \/ ReleaseOrDelay \/ ClientStep(G)

(* A failed assertion stops the processor.                                 *)
Stopped == halted # "no" /\ UNCHANGED vars

Next ==
  \/ ServerStep \/ Unblock \/ GeneratorStep \/ ClientStep(T)
  \/ \E u \in Users : ClientStep(u)
  \/ ButtonPress \/ Stopped

Spec == Init /\ [][Next]_vars

-----------------------------------------------------------------------------
(***************************************************************************)
(* Properties.                                                             *)
(***************************************************************************)
MessagesIn(i) == {q[i][k] : k \in DOMAIN q[i]}

(* The places a message in use can be in: queues, task descriptors, the    *)
(* hands of callers, "msg" of the generator and "resp" of the scheduler.   *)
Places == <<UNION {MessagesIn(i) : i \in QueueIds},
            {td[t] : t \in Clients \cup {S}} \ {None},
            {held[c] : c \in Clients} \ {None},
            {gmsg} \ {None}, {cur} \ {None}>>

(* A block is on one queue, once.                                          *)
OnceQueued ==
  \A i, j \in QueueIds : \A k \in DOMAIN q[i], l \in DOMAIN q[j] :
    q[i][k] = q[j][l] => i = j /\ k = l

(* A block in use is in one place, and there once.                         *)
UsedOnce ==
  /\ OnceQueued
  /\ \A t, u \in Clients \cup {S} : td[t] = td[u] => t = u \/ td[t] = None
  /\ \A c, d \in Clients : held[c] = held[d] => c = d \/ held[c] = None
  /\ \A m, n \in DOMAIN Places : m # n => Places[m] \cap Places[n] = {}

(* Through allocation, sends by queue and by descriptor, aborts, closes    *)
(* and drops, every block of a pool is free or has exactly one user: none  *)
(* is leaked, freed while somebody uses it, or handed out twice.           *)
BlocksAccounted ==
  /\ free \subseteq blocks
  /\ UNION Range(Places) = blocks \ free
  /\ UsedOnce

(* The header says what _msg_free and _msg_cleanup believe it says: FREE   *)
(* on the free list, QUEUED on a queue, and the mark of the task that has  *)
(* the block in its hands or its descriptor.                               *)
HeadersTell ==
  /\ \A b \in blocks : FREE[b] <=> b \in free
  /\ \A b \in Blocks : QUEUED[b] <=> \E i \in QueueIds : b \in MessagesIn(i)
  /\ \A c \in Clients : held[c] # None => TD_PTR[held[c]] = c
  /\ \A t \in Clients \cup {S} : td[t] # None => TD_PTR[td[t]] = t
  /\ cur # None => TD_PTR[cur] = S

Requests ==
  MessagesIn(SQ) \cup ({td[S], IF spc = "receive" THEN None ELSE cur} \ {None})

(* Whenever a request waits or is worked on, the queue it names is still   *)
(* its caller's and has room, so _msgq_send cannot fail on the response    *)
(* (nobody tests whether it does): numbers are reused, but not too early.  *)
AnswerHasRoom ==
  \A b \in Requests :
    /\ qowner[content[b].qid] = content[b].client
    /\ HasRoom(content[b].qid)

(* Opened at every call and closed by the caller or by the clean-up of the *)
(* task that Reply aborted, no queue number is ever lost: the search for   *)
(* one fails only if there are fewer numbers than clients.                 *)
NumbersSuffice == halted = "queue assert" => NumQueues < Cardinality(Clients)

(* Nobody sleeps in vain.  The scheduler sleeps only when its queue is     *)
(* empty; a caller sleeps, without a timeout, only while its queue is      *)
(* empty and its own request is still queued or worked on.                 *)
SleepersAwaited ==
  \A t \in rcv :
    /\ q[WaitsOn(t)] = <<>>
    /\ t # S => \E b \in Requests : content[b].client = t

(* One round of calls needs one response each: however often the pool      *)
(* grows and tasks die, it does not grow beyond that and one growth.       *)
ResponsePoolBounded ==
  \/ Cardinality(blocks \cap ResponseBlocks) <= InitMessages
  \/ Cardinality(blocks \cap ResponseBlocks)
       < Cardinality(Clients) + GrowMessages

(* Once scheduler_msg_pool is set it stays: no second caller that saw it   *)
(* at 0 puts its own (failed) _msgpool_create there.                       *)
PoolStays == [][pool => pool']_vars

RequestsInOrder == (IF td[S] = None THEN <<>> ELSE <<td[S]>>) \o q[SQ]
AnswerBlock(c) ==
  IF local_q[c] # None /\ q[local_q[c]] # <<>> THEN Head(q[local_q[c]])
  ELSE IF td[c] # None THEN td[c]
  ELSE IF pc[c] = "read" THEN held[c] ELSE None

AbstractCalls == INSTANCE Calls WITH
  pending <- [k \in DOMAIN RequestsInOrder |->
                content[RequestsInOrder[k]].client],
  serving <- IF spc = "receive" THEN None ELSE content[cur].client,
  answer <- [c \in Clients |-> IF AnswerBlock(c) = None THEN None
                               ELSE content[AnswerBlock(c)].result]

(* The messages implement calls: requests are served in the order they     *)
(* were sent, each once, and a caller gets the answer to its own request.  *)
ImplementsCalls == AbstractCalls!Spec
=============================================================================
