-------------------------- MODULE Messages_proofs ---------------------------
(***************************************************************************)
(* For any tasks, pools and queues: the messages of dd_scheduler.c are     *)
(* where their headers say, none is lost, every answer has room, and the   *)
(* whole implements Calls.                                                 *)
(***************************************************************************)
EXTENDS Messages, SequenceTheorems, FiniteSetTheorems, TLAPS

-----------------------------------------------------------------------------
(***************************************************************************)
(* The inductive invariant.                                                *)
(***************************************************************************)
(* Which steps a caller of each kind takes, and when it has the processor. *)
StepInv ==
  /\ pc[T] \notin {"none", "run", "delay", "loop", "open", "exit", "sweep"}
  /\ pc[G] \notin {"none", "run", "idle", "exit", "sweep"}
  /\ \A u \in Users : pc[u] \notin {"idle", "delay", "loop", "open", "read",
                                    "close"}
  /\ gmsg # None => pc[G] \notin {"delay", "loop"}

(* Whoever creates the pool has the processor, and before there is a pool  *)
(* there are no requests, no presses and no scheduled tasks.               *)
PoolInv ==
  /\ slot = pool
  /\ \A c \in Clients : pc[c] = "create" => ~pool /\ active = c
  /\ ~pool => /\ \A u \in Users : pc[u] = "none"
              /\ pc[T] \in {"idle", "create", "size"}
              /\ pc[G] \in {"delay", "loop", "open", "create", "size"}
              /\ spc = "receive" /\ td[S] = None
              /\ q[SQ] = <<>> /\ q[GQ] = <<>> /\ gmsg = None

(* Queues and their owners.                                                *)
OwnerInv ==
  /\ qowner[SQ] = S /\ qowner[GQ] = G
  /\ \A i \in Queues :
       /\ qowner[i] # S /\ Len(q[i]) <= 1
       /\ qowner[i] = None => q[i] = <<>>
       /\ \A c \in Clients : qowner[i] = c <=> local_q[c] = i
  /\ \A c \in Clients :
       local_q[c] = None <=>
         pc[c] \in {"none", "run", "idle", "delay", "loop", "open", "sweep"}

(* The headers, for every user of a block.                                 *)
HeaderInv ==
  /\ free \subseteq blocks
  /\ \A b \in Blocks : FREE[b] <=> b \notin blocks \ free
  /\ \A b \in Blocks : QUEUED[b] <=> \E i \in QueueIds : b \in MessagesIn(i)
  /\ \A b \in Blocks : QUEUED[b] => ~FREE[b]
  /\ \A c \in Clients : held[c] # None =>
       TD_PTR[held[c]] = c /\ ~FREE[held[c]] /\ ~QUEUED[held[c]]
  /\ \A t \in Clients \cup {S} : td[t] # None =>
       TD_PTR[td[t]] = t /\ ~FREE[td[t]] /\ ~QUEUED[td[t]]
  /\ cur # None => TD_PTR[cur] = S /\ ~FREE[cur] /\ ~QUEUED[cur]
  /\ gmsg # None => TD_PTR[gmsg] = None /\ ~FREE[gmsg] /\ ~QUEUED[gmsg]

(* A block in use that is on no queue is in a task's hands or descriptor.  *)
NoLeak ==
  \A b \in Blocks : ~FREE[b] /\ ~QUEUED[b] =>
    \/ b \in {gmsg, cur}
    \/ \E c \in Clients : held[c] = b
    \/ \E t \in Clients \cup {S} : td[t] = b

(* A caller that has no answer yet.                                        *)
Waits(c) ==
  pc[c] \in {"receive", "wait"} /\ td[c] = None /\ q[local_q[c]] = <<>>

(* What a task has, by what it does next.  A user task never has an answer *)
(* to read: the answer to its deletion comes with its end.                 *)
HandsInv ==
  /\ \A c \in Clients :
       /\ held[c] # None <=> pc[c] \in {"send", "read"}
       /\ returned[c] # None <=> pc[c] = "close"
       /\ c \in rcv => pc[c] = "wait"
       /\ pc[c] = "wait" => (c \in rcv <=> td[c] = None)
       /\ td[c] # None => pc[c] \in {"wait", "exit", "sweep"}
       /\ \A i \in Queues : local_q[c] = i /\ q[i] # <<>> =>
            td[c] = None /\ pc[c] \in {"receive", "exit"}
  /\ \A u \in Users : pc[u] \in {"receive", "wait"} => Waits(u)
  /\ cur = None <=> spc = "receive"
  /\ S \in rcv \/ td[S] # None => spc = "receive"
  /\ S \in rcv => td[S] = None /\ q[SQ] = <<>>

(* A request names its caller, who waits, and its queue.  Whoever waits    *)
(* has asked.                                                              *)
IsRequest(b) ==
  /\ content[b].client \in Clients /\ content[b].qid \in Queues
  /\ local_q[content[b].client] = content[b].qid /\ Waits(content[b].client)

FilledIn(c) ==
  pc[c] = "send" =>
    content[held[c]].client = c /\ content[held[c]].qid = local_q[c]

RequestsInv ==
  /\ \A c \in Clients : FilledIn(c)
  /\ \A b \in Requests : IsRequest(b)
  /\ \A b1, b2 \in Requests : content[b1].client = content[b2].client => b1 = b2
  /\ \A c \in Clients : Waits(c) => \E b \in Requests : content[b].client = c

IInv ==
  /\ TypeOK /\ StepInv /\ PoolInv /\ OwnerInv /\ HeaderInv /\ OnceQueued
  /\ NoLeak /\ HandsInv /\ RequestsInv

-----------------------------------------------------------------------------
(***************************************************************************)
(* Names, queues and requests.                                             *)
(***************************************************************************)
LEMMA Names ==
  /\ S \notin Clients /\ S # None /\ None \notin Clients
  /\ T \in Clients /\ G \in Clients /\ T # G /\ Users \subseteq Clients
  /\ T \notin Users /\ G \notin Users
  /\ \A c \in Clients : c = T \/ c = G \/ c \in Users
  /\ None \notin Blocks /\ None \notin Answers /\ None \notin QueueIds
  /\ SQ \in QueueIds /\ GQ \in QueueIds /\ SQ # GQ
  /\ SQ \notin Queues /\ GQ \notin Queues /\ Queues \subseteq QueueIds
  /\ RequestBlocks \subseteq Blocks /\ ResponseBlocks \subseteq Blocks
  /\ \A b \in RequestBlocks : b \notin ResponseBlocks
BY MessagesAssumption DEF Clients, Blocks, Answers, QueueIds

(* A block put at the end of a queue.                                      *)
LEMMA QueueAppend ==
  ASSUME TypeOK, OnceQueued, NEW i \in QueueIds, NEW b \in Blocks,
         \A j \in QueueIds : b \notin MessagesIn(j),
         q' = [q EXCEPT ![i] = Append(@, b)]
  PROVE  /\ q' \in [QueueIds -> Seq(Blocks)] /\ OnceQueued'
         /\ \A j \in QueueIds : j # i => q'[j] = q[j]
         /\ q'[i] # <<>> /\ Len(q'[i]) = Len(q[i]) + 1
         /\ \A j \in QueueIds : \A x :
              x \in MessagesIn(j)' <=> x \in MessagesIn(j) \/ (j = i /\ x = b)
<1>1. /\ q \in [QueueIds -> Seq(Blocks)] /\ q[i] \in Seq(Blocks)
      /\ \A j \in QueueIds : q[j] \in Seq(Blocks) /\ Len(q[j]) \in Nat
                             /\ DOMAIN q[j] = 1 .. Len(q[j])
  BY DEF TypeOK
<1>2. /\ q'[i] = Append(q[i], b) /\ q'[i] \in Seq(Blocks)
      /\ \A j \in QueueIds : j # i => q'[j] = q[j]
      /\ q' \in [QueueIds -> Seq(Blocks)]
  BY <1>1
<1>3. /\ Len(q'[i]) = Len(q[i]) + 1 /\ DOMAIN q'[i] = 1 .. Len(q[i]) + 1
      /\ \A k \in 1 .. Len(q[i]) : q'[i][k] = q[i][k]
      /\ q'[i][Len(q[i]) + 1] = b /\ q'[i] # <<>>
  BY <1>1, <1>2
<1>4. ASSUME NEW j \in QueueIds, NEW x
      PROVE  x \in MessagesIn(j)' <=> x \in MessagesIn(j) \/ (j = i /\ x = b)
  <2>1. CASE j # i
    BY <1>2, <2>1 DEF MessagesIn
  <2>2. CASE j = i
    <3>1. ASSUME x \in MessagesIn(i)' PROVE x \in MessagesIn(i) \/ x = b
      BY <1>1, <1>3, <3>1 DEF MessagesIn
    <3>2. ASSUME x \in MessagesIn(i) PROVE x \in MessagesIn(i)'
      <4>1. PICK k \in 1 .. Len(q[i]) : x = q[i][k]
        BY <1>1, <3>2 DEF MessagesIn
      <4>2. k \in DOMAIN q'[i] /\ q'[i][k] = x
        BY <1>1, <1>3, <4>1
      <4> QED BY <4>2 DEF MessagesIn
    <3>3. b \in MessagesIn(i)'
      BY <1>1, <1>3 DEF MessagesIn
    <3> QED BY <2>2, <3>1, <3>2, <3>3
  <2> QED BY <2>1, <2>2
<1>5. OnceQueued'
  <2>1. ASSUME NEW j \in QueueIds, NEW k \in DOMAIN q'[j]
        PROVE  \/ k \in DOMAIN q[j] /\ q'[j][k] = q[j][k] /\ q[j][k] # b
               \/ j = i /\ k = Len(q[i]) + 1 /\ q'[j][k] = b
    BY <1>1, <1>2, <1>3, <2>1 DEF MessagesIn
  <2> QED BY <1>1, <2>1 DEF OnceQueued
<1> QED BY <1>2, <1>3, <1>4, <1>5

(* The head of a queue taken off it.                                       *)
LEMMA QueueTail ==
  ASSUME TypeOK, OnceQueued, NEW i \in QueueIds, q[i] # <<>>,
         q' = [q EXCEPT ![i] = Tail(@)]
  PROVE  /\ q' \in [QueueIds -> Seq(Blocks)] /\ OnceQueued'
         /\ Head(q[i]) \in Blocks /\ Head(q[i]) \in MessagesIn(i)
         /\ \A j \in QueueIds : j # i => q'[j] = q[j]
         /\ Len(q[i]) = 1 => q'[i] = <<>>
         /\ Len(q'[i]) = Len(q[i]) - 1
         /\ \A j \in QueueIds : \A x :
              x \in MessagesIn(j)' <=> x \in MessagesIn(j) /\ x # Head(q[i])
<1>1. /\ q \in [QueueIds -> Seq(Blocks)] /\ q[i] \in Seq(Blocks)
      /\ \A j \in QueueIds : q[j] \in Seq(Blocks) /\ Len(q[j]) \in Nat
                             /\ DOMAIN q[j] = 1 .. Len(q[j])
  BY DEF TypeOK
<1>2. /\ q'[i] = Tail(q[i]) /\ q'[i] \in Seq(Blocks)
      /\ \A j \in QueueIds : j # i => q'[j] = q[j]
      /\ q' \in [QueueIds -> Seq(Blocks)]
  BY <1>1
<1>3. /\ Len(q[i]) > 0 /\ Head(q[i]) = q[i][1] /\ 1 \in DOMAIN q[i]
      /\ Head(q[i]) \in Blocks
      /\ Len(q'[i]) = Len(q[i]) - 1 /\ DOMAIN q'[i] = 1 .. Len(q[i]) - 1
      /\ \A k \in 1 .. Len(q[i]) - 1 : q'[i][k] = q[i][k + 1]
  BY <1>1, <1>2
<1>4. Len(q[i]) = 1 => q'[i] = <<>>
  BY <1>1, <1>2, <1>3
<1>5. Head(q[i]) \in MessagesIn(i)
  BY <1>3 DEF MessagesIn
<1>6. ASSUME NEW j \in QueueIds, NEW x
      PROVE  x \in MessagesIn(j)' <=> x \in MessagesIn(j) /\ x # Head(q[i])
  <2>1. CASE j # i
    <3>1. \A k \in DOMAIN q[j] : q[j][k] # q[i][1]
      BY <1>3, <2>1 DEF OnceQueued
    <3> QED BY <1>2, <1>3, <2>1, <3>1 DEF MessagesIn
  <2>2. CASE j = i
    <3>1. ASSUME x \in MessagesIn(i)' PROVE x \in MessagesIn(i) /\ x # Head(q[i])
      <4>1. PICK k \in 1 .. Len(q[i]) - 1 : x = q[i][k + 1]
        BY <1>3, <3>1 DEF MessagesIn
      <4>2. k + 1 \in DOMAIN q[i] /\ k + 1 # 1
        BY <1>1, <1>3, <4>1
      <4>3. q[i][k + 1] # q[i][1]
        BY <1>3, <4>2 DEF OnceQueued
      <4> QED BY <1>3, <4>1, <4>2, <4>3 DEF MessagesIn
    <3>2. ASSUME x \in MessagesIn(i), x # Head(q[i]) PROVE x \in MessagesIn(i)'
      <4>1. PICK k \in 1 .. Len(q[i]) : x = q[i][k]
        BY <1>1, <3>2 DEF MessagesIn
      <4>2. k # 1
        BY <1>3, <3>2, <4>1
      <4>3. k - 1 \in 1 .. Len(q[i]) - 1 /\ q'[i][k - 1] = x
        BY <1>1, <1>3, <4>1, <4>2
      <4> QED BY <1>3, <4>3 DEF MessagesIn
    <3> QED BY <2>2, <3>1, <3>2
  <2> QED BY <2>1, <2>2
<1>7. OnceQueued'
  <2>1. SUFFICES ASSUME NEW j1 \in QueueIds, NEW j2 \in QueueIds,
                        NEW k1 \in DOMAIN q'[j1], NEW k2 \in DOMAIN q'[j2],
                        q'[j1][k1] = q'[j2][k2]
                 PROVE  j1 = j2 /\ k1 = k2
    BY DEF OnceQueued
  <2>2. ASSUME NEW j \in QueueIds, NEW k \in DOMAIN q'[j]
        PROVE  LET n == IF j = i THEN k + 1 ELSE k IN
               k \in Nat /\ n \in DOMAIN q[j] /\ q'[j][k] = q[j][n]
    BY <1>1, <1>2, <1>3, <2>2
  <2>3. /\ j1 = j2
        /\ (IF j1 = i THEN k1 + 1 ELSE k1) = (IF j2 = i THEN k2 + 1 ELSE k2)
    BY <2>1, <2>2 DEF OnceQueued
  <2> QED BY <2>2, <2>3
<1> QED BY <1>2, <1>3, <1>4, <1>5, <1>6, <1>7

(* A queue emptied.                                                        *)
LEMMA QueueClear ==
  ASSUME TypeOK, OnceQueued, NEW i \in QueueIds, q' = [q EXCEPT ![i] = <<>>]
  PROVE  /\ q' \in [QueueIds -> Seq(Blocks)] /\ OnceQueued'
         /\ q'[i] = <<>> /\ \A j \in QueueIds : j # i => q'[j] = q[j]
         /\ \A j \in QueueIds : \A x :
              x \in MessagesIn(j)' <=> x \in MessagesIn(j) /\ x \notin MessagesIn(i)
<1>1. /\ q \in [QueueIds -> Seq(Blocks)]
      /\ \A j \in QueueIds : q[j] \in Seq(Blocks)
  BY DEF TypeOK
<1>2. /\ q'[i] = <<>> /\ \A j \in QueueIds : j # i => q'[j] = q[j]
      /\ q' \in [QueueIds -> Seq(Blocks)]
  BY <1>1
<1>3. DOMAIN q'[i] = {}
  BY <1>2
<1>4. OnceQueued'
  BY <1>2, <1>3 DEF OnceQueued
<1>5. ASSUME NEW j \in QueueIds, NEW x
      PROVE  x \in MessagesIn(j)' <=> x \in MessagesIn(j) /\ x \notin MessagesIn(i)
  <2>1. CASE j = i
    BY <1>3, <2>1 DEF MessagesIn
  <2>2. CASE j # i
    BY <1>2, <2>2 DEF MessagesIn, OnceQueued
  <2> QED BY <2>1, <2>2
<1> QED BY <1>2, <1>4, <1>5

(* Queues left alone.                                                      *)
LEMMA QueueSame ==
  ASSUME q' = q
  PROVE  /\ OnceQueued' <=> OnceQueued
         /\ \A j \in QueueIds : \A x : x \in MessagesIn(j)' <=> x \in MessagesIn(j)
BY DEF OnceQueued, MessagesIn

LEMMA EmptyQueue ==
  ASSUME TypeOK, NEW i \in QueueIds
  PROVE  /\ q[i] = <<>> <=> Len(q[i]) = 0
         /\ q[i] = <<>> <=> MessagesIn(i) = {}
         /\ Len(q[i]) \in Nat /\ MessagesIn(i) \subseteq Blocks
         /\ q[i] # <<>> => Head(q[i]) \in MessagesIn(i)
<1>1. q[i] \in Seq(Blocks) /\ DOMAIN q[i] = 1 .. Len(q[i]) /\ Len(q[i]) \in Nat
  BY DEF TypeOK
<1>2. q[i] = <<>> <=> Len(q[i]) = 0
  BY <1>1
<1>3. q[i] # <<>> => 1 \in DOMAIN q[i] /\ Head(q[i]) = q[i][1]
  BY <1>1
<1>4. q[i] = <<>> => DOMAIN q[i] = {}
  BY <1>1
<1>5. MessagesIn(i) \subseteq Blocks
  BY <1>1 DEF MessagesIn
<1>6. q[i] = <<>> => MessagesIn(i) = {}
  BY <1>4 DEF MessagesIn
<1>7. q[i] # <<>> => Head(q[i]) \in MessagesIn(i)
  BY <1>3 DEF MessagesIn
<1> QED BY <1>1, <1>2, <1>5, <1>6, <1>7

(* What a request is, and where it is not.                                 *)
LEMMA RequestPlaces ==
  /\ \A b : b \in Requests <=>
       \/ b \in MessagesIn(SQ)
       \/ td[S] # None /\ b = td[S]
       \/ spc # "receive" /\ cur # None /\ b = cur
BY DEF Requests

LEMMA RequestInUse ==
  ASSUME IInv, NEW b \in Requests
  PROVE  /\ b \in Blocks /\ ~FREE[b] /\ b \in blocks /\ b \notin free
         /\ b # gmsg
         /\ \A c \in Clients : held[c] # b /\ td[c] # b
         /\ \A i \in QueueIds : i # SQ => b \notin MessagesIn(i)
<1>1. /\ TypeOK /\ HeaderInv /\ OnceQueued
  BY DEF IInv
<1>2. b \in Blocks
  BY <1>1, Names, EmptyQueue, RequestPlaces DEF TypeOK
<1>3. ~FREE[b]
  BY <1>1, <1>2, Names, RequestPlaces DEF HeaderInv, TypeOK
<1>4. b # gmsg /\ \A c \in Clients : held[c] # b /\ td[c] # b
  BY <1>1, <1>2, Names, RequestPlaces DEF HeaderInv, TypeOK
<1>5. \A i \in QueueIds : i # SQ => b \notin MessagesIn(i)
  <2>1. CASE b \in MessagesIn(SQ)
    BY <1>1, <2>1, Names DEF OnceQueued, MessagesIn
  <2>2. CASE b \notin MessagesIn(SQ)
    BY <1>1, <1>2, <2>2, Names, RequestPlaces DEF HeaderInv, TypeOK
  <2> QED BY <2>1, <2>2
<1>6. b \in blocks /\ b \notin free
  BY <1>1, <1>2, <1>3 DEF HeaderInv
<1> QED BY <1>2, <1>3, <1>4, <1>5, <1>6

-----------------------------------------------------------------------------
(***************************************************************************)
(* What a step leaves alone.                                               *)
(***************************************************************************)
(* Blocks may be added to the pools, as long as they are free.             *)
LEMMA BlocksKept ==
  ASSUME IInv, UNCHANGED <<FREE, QUEUED, TD_PTR, q, td, held, gmsg, cur>>,
         free' \subseteq blocks', blocks' \ free' = blocks \ free
  PROVE  HeaderInv' /\ OnceQueued' /\ NoLeak'
<1>1. HeaderInv /\ OnceQueued /\ NoLeak
  BY DEF IInv
<1>2. HeaderInv'
  BY <1>1, QueueSame DEF HeaderInv
<1>3. OnceQueued' /\ NoLeak'
  BY <1>1, QueueSame DEF NoLeak
<1> QED BY <1>2, <1>3

(* Nobody asks, and nobody who waits is answered.                          *)
LEMMA RequestsKept ==
  ASSUME IInv, \A b : b \in Requests' <=> b \in Requests,
         \A b \in Requests : /\ content'[b].client = content[b].client
                             /\ content'[b].qid = content[b].qid,
         \A c \in Clients : /\ Waits(c)' <=> Waits(c)
                            /\ Waits(c) => local_q'[c] = local_q[c]
                            /\ FilledIn(c)'
  PROVE  RequestsInv'
<1>1. RequestsInv
  BY DEF IInv
<1>2. ASSUME NEW b \in Requests' PROVE IsRequest(b)'
  <2>1. b \in Requests /\ IsRequest(b)
    BY <1>1, <1>2 DEF RequestsInv
  <2> QED BY <2>1 DEF IsRequest
<1>3. \A b1, b2 \in Requests' :
        content'[b1].client = content'[b2].client => b1 = b2
  BY <1>1 DEF RequestsInv
<1>4. ASSUME NEW c \in Clients, Waits(c)'
      PROVE  \E b \in Requests' : content'[b].client = c
  BY <1>1, <1>4 DEF RequestsInv
<1> QED BY <1>2, <1>3, <1>4 DEF RequestsInv

LEMMA RequestsSame ==
  ASSUME q' = q, td' = td, cur' = cur, spc' = "receive" <=> spc = "receive"
  PROVE  \A b : b \in Requests' <=> b \in Requests
BY DEF Requests, MessagesIn

(* Of two tasks that are not preempted, the one that runs creates the pool.*)
LEMMA Running ==
  ASSUME IInv, NEW c \in Clients, Runs(c)
  PROVE  /\ halted = "no"
         /\ c \in {T, G} => active \in {c, None}
         /\ c \in Users => active = None
         /\ \A d \in Clients : pc[d] = "create" => d = c /\ c \in {T, G}
         /\ Keep(c) => /\ active' \in {T, G, None}
                       /\ c \in {T, G} => active' = c
<1>1. PoolInv /\ TypeOK
  BY DEF IInv
<1>2. /\ halted = "no"
      /\ c \in {T, G} => active \in {c, None}
      /\ c \in Users => active = None
  BY Names DEF Runs, MayRun
<1>3. Keep(c) => /\ active' \in {T, G, None} /\ (c \in {T, G} => active' = c)
  BY <1>1, Names DEF Keep, TypeOK
<1>4. \A d \in Clients : pc[d] = "create" => d = c /\ c \in {T, G}
  BY <1>1, <1>2, Names DEF PoolInv
<1> QED BY <1>2, <1>3, <1>4

(* A message sent to an open queue: into the hands of a receiver that      *)
(* sleeps, or at the end of the queue.                                     *)
LEMMA Delivery ==
  ASSUME IInv, NEW b \in Blocks, NEW i \in QueueIds, Deliver(b, i),
         ~QUEUED[b], NEW o \in Clients \cup {S}, qowner[i] = o
  PROVE  /\ q' \in [QueueIds -> Seq(Blocks)] /\ QUEUED' \in [Blocks -> BOOLEAN]
         /\ TD_PTR' \in [Blocks -> Clients \cup {S, None}]
         /\ td' \in [Clients \cup {S} -> Blocks \cup {None}]
         /\ rcv' \subseteq Clients \cup {S}
         /\ OnceQueued' /\ \A j \in QueueIds : j # i => q'[j] = q[j]
         /\ \A x \in Blocks :
              /\ QUEUED'[x] <=> \E j \in QueueIds : x \in MessagesIn(j)'
              /\ x # b => QUEUED'[x] = QUEUED[x] /\ TD_PTR'[x] = TD_PTR[x]
         /\ \/ /\ o \in rcv /\ WaitsOn(o) = i
               /\ rcv' = rcv \ {o} /\ td'[o] = b
               /\ \A t \in Clients \cup {S} : t # o => td'[t] = td[t]
               /\ q' = q /\ ~QUEUED'[b] /\ TD_PTR'[b] = o
            \/ /\ ~(o \in rcv /\ WaitsOn(o) = i)
               /\ td' = td /\ rcv' = rcv /\ QUEUED'[b]
               /\ q'[i] # <<>> /\ Len(q'[i]) = Len(q[i]) + 1
               /\ \A j \in QueueIds : \A x :
                    x \in MessagesIn(j)' <=> x \in MessagesIn(j) \/ (j = i /\ x = b)
<1>1. TypeOK /\ HeaderInv /\ OnceQueued
  BY DEF IInv
<1>2. CASE o \in rcv /\ WaitsOn(o) = i
  <2>1. /\ td' = [td EXCEPT ![o] = b] /\ rcv' = rcv \ {o}
        /\ TD_PTR' = [TD_PTR EXCEPT ![b] = o]
        /\ UNCHANGED <<q, QUEUED>>
    BY <1>2 DEF Deliver, HandOver
  <2>2. /\ q' \in [QueueIds -> Seq(Blocks)] /\ QUEUED' \in [Blocks -> BOOLEAN]
        /\ TD_PTR' \in [Blocks -> Clients \cup {S, None}]
        /\ td' \in [Clients \cup {S} -> Blocks \cup {None}]
        /\ rcv' \subseteq Clients \cup {S}
    BY <1>1, <2>1 DEF TypeOK
  <2>3. OnceQueued' /\ \A x \in Blocks :
          QUEUED'[x] <=> \E j \in QueueIds : x \in MessagesIn(j)'
    BY <1>1, <2>1, QueueSame DEF HeaderInv
  <2>4. /\ td'[o] = b /\ TD_PTR'[b] = o
        /\ \A t \in Clients \cup {S} : t # o => td'[t] = td[t]
        /\ \A x \in Blocks : x # b => TD_PTR'[x] = TD_PTR[x]
    BY <1>1, <2>1 DEF TypeOK
  <2> QED BY <1>2, <2>1, <2>2, <2>3, <2>4
<1>3. CASE ~(o \in rcv /\ WaitsOn(o) = i)
  <2>1. /\ q' = [q EXCEPT ![i] = Append(@, b)]
        /\ QUEUED' = [QUEUED EXCEPT ![b] = TRUE]
        /\ UNCHANGED <<td, rcv, TD_PTR>>
    BY <1>3 DEF Deliver
  <2>2. \A j \in QueueIds : b \notin MessagesIn(j)
    BY <1>1 DEF HeaderInv
  <2>3. /\ q' \in [QueueIds -> Seq(Blocks)] /\ OnceQueued'
        /\ \A j \in QueueIds : j # i => q'[j] = q[j]
        /\ q'[i] # <<>> /\ Len(q'[i]) = Len(q[i]) + 1
        /\ \A j \in QueueIds : \A x :
             x \in MessagesIn(j)' <=> x \in MessagesIn(j) \/ (j = i /\ x = b)
    BY <1>1, <2>1, <2>2, QueueAppend
  <2>4. /\ QUEUED' \in [Blocks -> BOOLEAN] /\ QUEUED'[b]
        /\ \A x \in Blocks : x # b => QUEUED'[x] = QUEUED[x]
    BY <1>1, <2>1 DEF TypeOK
  <2>5. ASSUME NEW x \in Blocks
        PROVE  QUEUED'[x] <=> \E j \in QueueIds : x \in MessagesIn(j)'
    <3>1. CASE x = b
      BY <2>3, <2>4, <3>1
    <3>2. CASE x # b
      <4>1. \A j \in QueueIds : x \in MessagesIn(j)' <=> x \in MessagesIn(j)
        BY <2>3, <3>2
      <4>2. QUEUED[x] <=> \E j \in QueueIds : x \in MessagesIn(j)
        BY <1>1 DEF HeaderInv
      <4> QED BY <2>4, <3>2, <4>1, <4>2
    <3> QED BY <3>1, <3>2
  <2>6. /\ TD_PTR' \in [Blocks -> Clients \cup {S, None}]
        /\ td' \in [Clients \cup {S} -> Blocks \cup {None}]
        /\ rcv' \subseteq Clients \cup {S}
    BY <1>1, <2>1 DEF TypeOK
  <2> QED BY <1>3, <2>1, <2>3, <2>4, <2>5, <2>6
<1> QED BY <1>2, <1>3

(* Blocks in use given back.                                               *)
LEMMA Freed ==
  ASSUME IInv, NEW B \in SUBSET Blocks, Free(B), \A x \in B : ~FREE[x]
  PROVE  /\ free' \subseteq blocks /\ FREE' \in [Blocks -> BOOLEAN]
         /\ TD_PTR' \in [Blocks -> Clients \cup {S, None}]
         /\ content' \in [Blocks -> Bodies]
         /\ \A x \in Blocks : /\ FREE'[x] <=> x \in B \/ FREE[x]
                              /\ FREE'[x] <=> x \notin blocks \ free'
                              /\ x \notin B => /\ TD_PTR'[x] = TD_PTR[x]
                                               /\ content'[x] = content[x]
<1>1. TypeOK /\ HeaderInv
  BY DEF IInv
<1>2. /\ free' = free \cup B
      /\ FREE' = [b \in Blocks |-> b \in B \/ FREE[b]]
      /\ TD_PTR' = [b \in Blocks |-> IF b \in B THEN None ELSE TD_PTR[b]]
      /\ content' = [b \in Blocks |-> IF b \in B THEN EmptyBody ELSE content[b]]
  BY DEF Free
<1>3. EmptyBody \in Bodies
  BY Names DEF EmptyBody, Bodies, Answers
<1>4. \A x \in B : x \in blocks
  BY <1>1 DEF HeaderInv
<1>5. free' \subseteq blocks /\ FREE' \in [Blocks -> BOOLEAN]
  BY <1>1, <1>2, <1>4 DEF HeaderInv
<1>6. \A x \in Blocks : /\ FREE'[x] <=> x \in B \/ FREE[x]
                        /\ FREE'[x] <=> x \notin blocks \ free'
  BY <1>1, <1>2, <1>4 DEF HeaderInv
<1>7. /\ TD_PTR' \in [Blocks -> Clients \cup {S, None}]
      /\ content' \in [Blocks -> Bodies]
      /\ \A x \in Blocks : x \notin B => /\ TD_PTR'[x] = TD_PTR[x]
                                        /\ content'[x] = content[x]
  BY <1>1, <1>2, <1>3 DEF TypeOK
<1> QED BY <1>5, <1>6, <1>7

(* A step that fails an assertion and does nothing else.                   *)
LEMMA HaltKeeps ==
  ASSUME IInv, NEW c \in Clients, Runs(c), Keep(c), halted' \in Halts,
         UNCHANGED <<pools, qowner, q, rcv, td, callers, server>>
  PROVE  IInv'
<1>1. /\ TypeOK /\ StepInv /\ PoolInv /\ OwnerInv /\ HandsInv /\ RequestsInv
      /\ HeaderInv
  BY DEF IInv
<1> USE DEF pools, callers, server
<1>2. TypeOK'
  BY <1>1, Running DEF TypeOK
<1>3. StepInv' /\ OwnerInv' /\ HandsInv'
  BY <1>1 DEF StepInv, OwnerInv, HandsInv, Waits
<1>4. PoolInv'
  BY <1>1, Running DEF PoolInv
<1>5. HeaderInv' /\ OnceQueued' /\ NoLeak'
  BY <1>1, BlocksKept DEF HeaderInv
<1>6. RequestsInv'
  <2>1. \A d \in Clients : (Waits(d)' <=> Waits(d)) /\ FilledIn(d)'
    BY <1>1 DEF Waits, FilledIn, RequestsInv
  <2> QED BY <2>1, RequestsKept, RequestsSame
<1> QED BY <1>1, <1>2, <1>3, <1>4, <1>5, <1>6 DEF IInv

-----------------------------------------------------------------------------

-----------------------------------------------------------------------------
(***************************************************************************)
(* create_scheduler_request.                                               *)
(***************************************************************************)
LEMMA OpenKeeps ==
  ASSUME IInv, NEW c \in Clients, Open(c)
  PROVE  IInv'
<1>1. /\ TypeOK /\ StepInv /\ PoolInv /\ OwnerInv /\ HandsInv /\ RequestsInv
      /\ HeaderInv
  BY DEF IInv
<1>2. /\ Runs(c) /\ Keep(c)
      /\ pc[c] = CASE c = T -> "idle" [] c = G -> "open" [] OTHER -> "run"
  BY DEF Open, At
<1>3. pc[c] \in {"idle", "open", "run"}
  BY <1>2
<1>4. CASE halted' # halted
  <2>1. /\ UNCHANGED <<pools, qowner, q, rcv, td, callers, server>>
        /\ halted' \in Halts
    BY <1>4 DEF Open, callers, Halts
  <2> QED BY <1>2, <2>1, HaltKeeps
<1>5. CASE halted' = halted
  <2>1. \E i \in Queues : FreeQueue(i)
    BY <1>2, <1>5, Running DEF Open
  <2>2. PICK i \in Queues :
          /\ qowner[i] = None /\ qowner' = [qowner EXCEPT ![i] = c]
          /\ local_q' = [local_q EXCEPT ![c] = i]
          /\ Goto(c, IF pool THEN "size" ELSE "create")
    BY <2>1 DEF Open, FreeQueue
  <2>3. UNCHANGED <<halted, pools, q, rcv, td, held, returned, gmsg, server>>
    BY <1>5 DEF Open
  <2> USE DEF pools, server
  <2>4. PICK s \in {"size", "create"} : /\ pc' = [pc EXCEPT ![c] = s]
                                        /\ s = "create" <=> ~pool
    BY <2>2 DEF Goto
  <2>5. /\ pc' \in [Clients -> Steps] /\ pc'[c] = s
        /\ \A d \in Clients : d # c => pc'[d] = pc[d]
    BY <1>1, <2>4 DEF TypeOK, Steps
  <2>6. /\ local_q' \in [Clients -> Queues \cup {None}] /\ local_q'[c] = i
        /\ \A d \in Clients : d # c => local_q'[d] = local_q[d]
    BY <1>1, <2>2 DEF TypeOK
  <2>7. /\ qowner' \in [QueueIds -> Clients \cup {S, None}] /\ qowner'[i] = c
        /\ \A j \in QueueIds : j # i => qowner'[j] = qowner[j]
    BY <1>1, <2>2, Names DEF TypeOK
  <2>8. active' \in {T, G, None} /\ (c \in {T, G} => active' = c)
    BY <1>2, Running
  <2>9. TypeOK'
    BY <1>1, <2>3, <2>5, <2>6, <2>7, <2>8 DEF TypeOK
  <2>10. StepInv'
    BY <1>1, <2>3, <2>5, <1>3, Names DEF StepInv
  <2>11. PoolInv'
    <3>1. \A d \in Clients : pc'[d] = "create" => ~pool' /\ active' = d
      BY <1>1, <1>2, <2>3, <2>4, <2>5, <2>8, Running, Names DEF PoolInv
    <3>2. ~pool => c \notin Users
      BY <1>1, <1>3 DEF PoolInv
    <3> QED BY <1>1, <2>3, <2>4, <2>5, <3>1, <3>2, Names DEF PoolInv
  <2>12. OwnerInv'
    <3>1. local_q[c] = None
      BY <1>1, <1>3 DEF OwnerInv
    <3> QED BY <1>1, <2>2, <2>3, <2>5, <2>6, <2>7, <3>1, Names DEF OwnerInv
  <2>13. HeaderInv' /\ OnceQueued' /\ NoLeak'
    BY <1>1, <2>3, BlocksKept DEF HeaderInv
  <2>14. HandsInv'
    <3>1. q[i] = <<>>
      BY <1>1, <2>2 DEF OwnerInv
    <3>2. \A u \in Users : Waits(u)' <=> Waits(u)
      BY <1>3, <2>3, <2>5, <2>6, Names DEF Waits
    <3> QED BY <1>1, <1>3, <2>3, <2>5, <2>6, <3>1, <3>2, Names DEF HandsInv
  <2>15. RequestsInv'
    <3>1. \A d \in Clients : /\ Waits(d)' <=> Waits(d)
                             /\ Waits(d) => local_q'[d] = local_q[d]
                             /\ FilledIn(d)'
      BY <1>1, <1>3, <2>3, <2>5, <2>6 DEF Waits, FilledIn, RequestsInv
    <3> QED BY <2>3, <3>1, RequestsKept, RequestsSame
  <2> QED BY <2>9, <2>10, <2>11, <2>12, <2>13, <2>14, <2>15 DEF IInv
<1> QED BY <1>4, <1>5

LEMMA CreatePoolKeeps ==
  ASSUME IInv, NEW c \in Clients, CreatePool(c)
  PROVE  IInv'
<1>1. /\ TypeOK /\ StepInv /\ PoolInv /\ OwnerInv /\ HandsInv /\ RequestsInv
      /\ HeaderInv
  BY DEF IInv
<1>2. Runs(c) /\ Keep(c) /\ pc[c] = "create"
  BY DEF CreatePool, At
<1>3. /\ UNCHANGED <<halted, FREE, QUEUED, TD_PTR, content, qowner, q, rcv, td,
                     local_q, held, returned, gmsg, server>>
      /\ ~slot /\ ~pool /\ c \in {T, G}
      /\ pc' = [pc EXCEPT ![c] = "size"]
  BY <1>1, <1>2, Names DEF CreatePool, PoolInv, Goto
<1> USE DEF server
<1>4. PICK more \in SUBSET RequestBlocks :
        /\ more \subseteq RequestBlocks \ blocks
        /\ pool' = (more # {}) /\ slot' = pool'
        /\ blocks' = blocks \cup more /\ free' = free \cup more
  BY <1>3 DEF CreatePool, Add
<1>5. /\ pc' \in [Clients -> Steps] /\ pc'[c] = "size"
      /\ \A d \in Clients : d # c => pc'[d] = pc[d]
  BY <1>1, <1>3 DEF TypeOK, Steps
<1>6. active' \in {T, G, None}
  BY <1>2, Running
<1>7. blocks' \subseteq Blocks /\ free' \subseteq blocks'
      /\ blocks' \ free' = blocks \ free
  BY <1>1, <1>4, Names DEF TypeOK, HeaderInv
<1>8. TypeOK'
  BY <1>1, <1>3, <1>4, <1>5, <1>6, <1>7 DEF TypeOK
<1>9. StepInv' /\ OwnerInv' /\ HandsInv'
  BY <1>1, <1>2, <1>3, <1>5 DEF StepInv, OwnerInv, HandsInv, Waits
<1>10. PoolInv'
  <2>1. \A d \in Clients : pc'[d] # "create"
    BY <1>2, <1>5, Running
  <2> QED BY <1>1, <1>3, <1>4, <1>5, <2>1, Names DEF PoolInv
<1>11. HeaderInv' /\ OnceQueued' /\ NoLeak'
  BY <1>3, <1>7, BlocksKept
<1>12. RequestsInv'
  <2>1. \A d \in Clients : (Waits(d)' <=> Waits(d)) /\ FilledIn(d)'
    BY <1>1, <1>2, <1>3, <1>5 DEF Waits, FilledIn, RequestsInv
  <2> QED BY <1>3, <2>1, RequestsKept, RequestsSame
<1> QED BY <1>8, <1>9, <1>10, <1>11, <1>12 DEF IInv

LEMMA TestSizeKeeps ==
  ASSUME IInv, NEW c \in Clients, TestSize(c)
  PROVE  IInv'
<1>1. /\ TypeOK /\ StepInv /\ PoolInv /\ OwnerInv /\ HandsInv /\ RequestsInv
      /\ HeaderInv
  BY DEF IInv
<1>2. /\ Runs(c) /\ Keep(c) /\ pc[c] = "size"
      /\ UNCHANGED <<pools, qowner, q, rcv, td, local_q, held, returned, gmsg,
                     server>>
  BY DEF TestSize, At
<1>3. CASE ~pool
  <2>1. halted' \in Halts /\ UNCHANGED callers
    BY <1>2, <1>3 DEF TestSize, callers, Halts
  <2> QED BY <1>2, <2>1, HaltKeeps
<1>4. CASE pool
  <2>1. PICK s \in {"grow", "take"} : pc' = [pc EXCEPT ![c] = s]
    BY <1>4 DEF TestSize, Goto
  <2>2. UNCHANGED halted
    BY <1>4 DEF TestSize
  <2> USE DEF pools, server
  <2>3. /\ pc' \in [Clients -> Steps] /\ pc'[c] = s
        /\ \A d \in Clients : d # c => pc'[d] = pc[d]
    BY <1>1, <2>1 DEF TypeOK, Steps
  <2>4. active' \in {T, G, None}
    BY <1>2, Running
  <2>5. TypeOK'
    BY <1>1, <1>2, <2>2, <2>3, <2>4 DEF TypeOK
  <2>6. StepInv' /\ OwnerInv' /\ HandsInv'
    BY <1>1, <1>2, <2>3, Names DEF StepInv, OwnerInv, HandsInv, Waits
  <2>7. PoolInv'
    BY <1>1, <1>2, <1>4, <2>3, Running DEF PoolInv
  <2>8. HeaderInv' /\ OnceQueued' /\ NoLeak'
    BY <1>1, <1>2, BlocksKept DEF HeaderInv
  <2>9. RequestsInv'
    <3>1. \A d \in Clients : (Waits(d)' <=> Waits(d)) /\ FilledIn(d)'
      BY <1>1, <1>2, <2>3 DEF Waits, FilledIn, RequestsInv
    <3> QED BY <1>2, <3>1, RequestsKept, RequestsSame
  <2> QED BY <2>5, <2>6, <2>7, <2>8, <2>9 DEF IInv
<1> QED BY <1>3, <1>4

LEMMA GrowPoolKeeps ==
  ASSUME IInv, NEW c \in Clients, GrowPool(c)
  PROVE  IInv'
<1>1. /\ TypeOK /\ StepInv /\ PoolInv /\ OwnerInv /\ HandsInv /\ RequestsInv
      /\ HeaderInv
  BY DEF IInv
<1>2. /\ Runs(c) /\ Keep(c) /\ pc[c] = "grow" /\ pc' = [pc EXCEPT ![c] = "take"]
      /\ UNCHANGED <<halted, pool, slot, FREE, QUEUED, TD_PTR, content, qowner,
                     q, rcv, td, local_q, held, returned, gmsg, server>>
  BY DEF GrowPool, At, Goto
<1> USE DEF server
<1>3. PICK more \in SUBSET RequestBlocks :
        /\ more \subseteq RequestBlocks \ blocks
        /\ blocks' = blocks \cup more /\ free' = free \cup more
  BY DEF GrowPool, Add
<1>4. /\ pc' \in [Clients -> Steps] /\ pc'[c] = "take"
      /\ \A d \in Clients : d # c => pc'[d] = pc[d]
  BY <1>1, <1>2 DEF TypeOK, Steps
<1>5. active' \in {T, G, None}
  BY <1>2, Running
<1>6. blocks' \subseteq Blocks /\ free' \subseteq blocks'
      /\ blocks' \ free' = blocks \ free
  BY <1>1, <1>3, Names DEF TypeOK, HeaderInv
<1>7. TypeOK'
  BY <1>1, <1>2, <1>4, <1>5, <1>6 DEF TypeOK
<1>8. StepInv' /\ OwnerInv' /\ HandsInv'
  BY <1>1, <1>2, <1>4, Names DEF StepInv, OwnerInv, HandsInv, Waits
<1>9. PoolInv'
  BY <1>1, <1>2, <1>4, Running, Names DEF PoolInv
<1>10. HeaderInv' /\ OnceQueued' /\ NoLeak'
  BY <1>2, <1>6, BlocksKept
<1>11. RequestsInv'
  <2>1. \A d \in Clients : (Waits(d)' <=> Waits(d)) /\ FilledIn(d)'
    BY <1>1, <1>2, <1>4 DEF Waits, FilledIn, RequestsInv
  <2> QED BY <1>2, <2>1, RequestsKept, RequestsSame
<1> QED BY <1>7, <1>8, <1>9, <1>10, <1>11 DEF IInv

LEMMA TakeMessageKeeps ==
  ASSUME IInv, NEW c \in Clients, TakeMessage(c)
  PROVE  IInv'
<1>1. /\ TypeOK /\ StepInv /\ PoolInv /\ OwnerInv /\ HandsInv /\ RequestsInv
      /\ HeaderInv /\ OnceQueued /\ NoLeak
  BY DEF IInv
<1>2. /\ Runs(c) /\ Keep(c) /\ pc[c] = "take"
      /\ UNCHANGED <<qowner, q, rcv, td, local_q, returned, gmsg, server>>
  BY DEF TakeMessage, At
<1>3. CASE free \cap RequestBlocks = {}
  <2>1. halted' \in Halts /\ UNCHANGED <<pools, callers>>
    BY <1>2, <1>3 DEF TakeMessage, callers, Halts
  <2> QED BY <1>2, <2>1, HaltKeeps
<1>4. CASE free \cap RequestBlocks # {}
  <2>1. PICK b \in free \cap RequestBlocks :
          /\ free' = free \ {b}
          /\ FREE' = [FREE EXCEPT ![b] = FALSE]
          /\ QUEUED' = [QUEUED EXCEPT ![b] = FALSE]
          /\ TD_PTR' = [TD_PTR EXCEPT ![b] = c]
          /\ held' = [held EXCEPT ![c] = b]
          /\ content' = [content EXCEPT ![b] =
               [client |-> c, qid |-> local_q[c], result |-> "null"]]
          /\ pc' = [pc EXCEPT ![c] = "send"]
          /\ UNCHANGED <<halted, pool, slot, blocks>>
    BY <1>4 DEF TakeMessage, Header, Goto
  <2> USE DEF server
  <2>2. b \in Blocks /\ FREE[b] /\ b \in blocks /\ ~QUEUED[b]
    BY <1>1, <2>1, Names DEF HeaderInv
  <2>3. local_q[c] \in Queues /\ held[c] = None
    <3>1. local_q[c] # None
      BY <1>1, <1>2 DEF OwnerInv
    <3>2. held[c] = None
      BY <1>1, <1>2 DEF HandsInv
    <3> QED BY <1>1, <3>1, <3>2 DEF TypeOK
  <2>4. /\ pc' \in [Clients -> Steps] /\ pc'[c] = "send"
        /\ \A d \in Clients : d # c => pc'[d] = pc[d]
    BY <1>1, <2>1 DEF TypeOK, Steps
  <2>5. /\ held' \in [Clients -> Blocks \cup {None}] /\ held'[c] = b
        /\ \A d \in Clients : d # c => held'[d] = held[d]
    BY <1>1, <2>1, <2>2 DEF TypeOK
  <2>6. /\ FREE' \in [Blocks -> BOOLEAN] /\ QUEUED' \in [Blocks -> BOOLEAN]
        /\ TD_PTR' \in [Blocks -> Clients \cup {S, None}]
        /\ ~FREE'[b] /\ ~QUEUED'[b] /\ TD_PTR'[b] = c
        /\ \A x \in Blocks : x # b => /\ FREE'[x] = FREE[x]
                                      /\ QUEUED'[x] = QUEUED[x]
                                      /\ TD_PTR'[x] = TD_PTR[x]
    BY <1>1, <2>1, <2>2 DEF TypeOK
  <2>7. /\ content' \in [Blocks -> Bodies]
        /\ content'[b].client = c /\ content'[b].qid = local_q[c]
        /\ \A x \in Blocks : x # b => content'[x] = content[x]
    <3>1. [client |-> c, qid |-> local_q[c], result |-> "null"] \in Bodies
      BY <2>3, Names DEF Bodies, Answers
    <3> QED BY <1>1, <2>1, <2>2, <3>1 DEF TypeOK
  <2>8. active' \in {T, G, None}
    BY <1>2, Running
  <2>9. TypeOK'
    BY <1>1, <1>2, <2>1, <2>4, <2>5, <2>6, <2>7, <2>8 DEF TypeOK
  <2>10. StepInv' /\ OwnerInv' /\ HandsInv'
    BY <1>1, <1>2, <2>2, <2>4, <2>5, Names DEF StepInv, OwnerInv, HandsInv, Waits
  <2>11. PoolInv'
    BY <1>1, <1>2, <2>1, <2>4, Running, Names DEF PoolInv
  <2>12. HeaderInv'
    BY <1>1, <1>2, <2>1, <2>2, <2>3, <2>5, <2>6, QueueSame, Names
       DEF HeaderInv, TypeOK
  <2>13. OnceQueued' /\ NoLeak'
    <3>1. ASSUME NEW x \in Blocks, ~FREE'[x], ~QUEUED'[x]
          PROVE  \/ x \in {gmsg', cur'} \/ \E d \in Clients : held'[d] = x
                 \/ \E t \in Clients \cup {S} : td'[t] = x
      <4>1. CASE x = b
        BY <2>5, <4>1
      <4>2. CASE x # b
        BY <1>1, <1>2, <2>3, <2>5, <2>6, <3>1, <4>2, Names DEF NoLeak
      <4> QED BY <4>1, <4>2
    <3> QED BY <1>1, <1>2, <3>1, QueueSame DEF NoLeak
  <2>14. RequestsInv'
    <3>1. \A d \in Clients : Waits(d)' <=> Waits(d)
      BY <1>2, <2>4 DEF Waits
    <3>2. ASSUME NEW d \in Clients PROVE FilledIn(d)'
      <4>1. CASE d = c
        BY <1>2, <2>5, <2>7, <4>1 DEF FilledIn
      <4>2. CASE d # c
        <5>1. pc[d] = "send" => held[d] \in Blocks /\ held[d] # b
          BY <1>1, <2>2 DEF HandsInv, HeaderInv, TypeOK
        <5> QED BY <1>1, <1>2, <2>4, <2>5, <2>7, <4>2, <5>1
                DEF FilledIn, RequestsInv
      <4> QED BY <4>1, <4>2
    <3>3. \A x \in Requests : content'[x] = content[x]
      BY <2>2, <2>7, RequestInUse
    <3> QED BY <1>2, <3>1, <3>2, <3>3, RequestsKept, RequestsSame
  <2> QED BY <2>9, <2>10, <2>11, <2>12, <2>13, <2>14 DEF IInv
<1> QED BY <1>3, <1>4

-----------------------------------------------------------------------------
(***************************************************************************)
(* The rest of a dd_ call.                                                 *)
(***************************************************************************)
LEMMA WakeKeeps ==
  ASSUME IInv, NEW c \in Clients, Wake(c)
  PROVE  IInv'
<1>1. /\ TypeOK /\ StepInv /\ PoolInv /\ OwnerInv /\ HandsInv /\ RequestsInv
      /\ HeaderInv /\ OnceQueued /\ NoLeak
  BY DEF IInv
<1>2. /\ Runs(c) /\ Keep(c) /\ pc[c] = "wait" /\ c \notin rcv
      /\ held' = [held EXCEPT ![c] = td[c]] /\ td' = [td EXCEPT ![c] = None]
      /\ pc' = [pc EXCEPT ![c] = "read"]
      /\ UNCHANGED <<halted, pools, qowner, q, rcv, local_q, returned, gmsg,
                     server>>
  BY DEF Wake, At, Goto
<1> USE DEF pools, server
<1>3. td[c] \in Blocks /\ td[c] # None
  BY <1>1, <1>2, Names DEF TypeOK, HandsInv
<1>4. /\ pc' \in [Clients -> Steps] /\ pc'[c] = "read"
      /\ \A d \in Clients : d # c => pc'[d] = pc[d]
  BY <1>1, <1>2 DEF TypeOK, Steps
<1>5. /\ held' \in [Clients -> Blocks \cup {None}] /\ held'[c] = td[c]
      /\ \A d \in Clients : d # c => held'[d] = held[d]
  BY <1>1, <1>2, <1>3 DEF TypeOK
<1>6. /\ td' \in [Clients \cup {S} -> Blocks \cup {None}] /\ td'[c] = None
      /\ \A d \in Clients \cup {S} : d # c => td'[d] = td[d]
  BY <1>1, <1>2 DEF TypeOK
<1>7. active' \in {T, G, None}
  BY <1>2, Running
<1>8. TypeOK'
  BY <1>1, <1>2, <1>4, <1>5, <1>6, <1>7 DEF TypeOK
<1>9. StepInv' /\ OwnerInv'
  <2>1. c \notin Users
    BY <1>1, <1>2, <1>3 DEF HandsInv, Waits
  <2> QED BY <1>1, <1>2, <1>4, <2>1, Names DEF StepInv, OwnerInv
<1>10. PoolInv'
  BY <1>1, <1>2, <1>4, <1>6, Running, Names DEF PoolInv
<1>11. held[c] = None
  BY <1>1, <1>2 DEF HandsInv
<1>12. HeaderInv'
  BY <1>1, <1>2, <1>3, <1>5, <1>6, QueueSame, Names DEF HeaderInv
<1>13. OnceQueued' /\ NoLeak'
  <2>1. ASSUME NEW x \in Blocks, ~FREE[x], ~QUEUED[x]
        PROVE  \/ x \in {gmsg, cur} \/ \E d \in Clients : held'[d] = x
               \/ \E t \in Clients \cup {S} : td'[t] = x
    BY <1>1, <1>5, <1>6, <1>11, <2>1, Names DEF NoLeak
  <2> QED BY <1>1, <1>2, <2>1, QueueSame DEF NoLeak
<1>14. HandsInv'
  BY <1>1, <1>2, <1>3, <1>4, <1>5, <1>6, Names DEF HandsInv, Waits, OwnerInv
<1>15. RequestsInv'
  <2>1. \A d \in Clients : Waits(d)' <=> Waits(d)
    BY <1>2, <1>3, <1>4, <1>6, Names DEF Waits
  <2>2. \A d \in Clients : FilledIn(d)'
    BY <1>1, <1>2, <1>4, <1>5 DEF FilledIn, RequestsInv
  <2>3. \A b : b \in Requests' <=> b \in Requests
    BY <1>2, <1>6, Names DEF Requests, MessagesIn
  <2> QED BY <1>2, <2>1, <2>2, <2>3, RequestsKept
<1> QED BY <1>8, <1>9, <1>10, <1>12, <1>13, <1>14, <1>15 DEF IInv

LEMMA SendRequestKeeps ==
  ASSUME IInv, NEW c \in Clients, SendRequest(c)
  PROVE  IInv'
<1>1. /\ TypeOK /\ StepInv /\ PoolInv /\ OwnerInv /\ HandsInv /\ RequestsInv
      /\ HeaderInv /\ OnceQueued /\ NoLeak
  BY DEF IInv
<1>2. /\ Runs(c) /\ Keep(c) /\ pc[c] = "send" /\ Deliver(held[c], SQ)
      /\ held' = [held EXCEPT ![c] = None] /\ pc' = [pc EXCEPT ![c] = "receive"]
      /\ UNCHANGED <<halted, pool, slot, blocks, free, FREE, content, qowner,
                     local_q, returned, gmsg, server>>
  BY DEF SendRequest, At, Goto
<1> DEFINE b == held[c]
<1> USE DEF server
<1>3. b \in Blocks /\ b # None
  BY <1>1, <1>2, Names DEF TypeOK, HandsInv
<1>4. TD_PTR[b] = c /\ ~FREE[b] /\ ~QUEUED[b]
  BY <1>1, <1>3 DEF HeaderInv
<1>5. qowner[SQ] = S /\ WaitsOn(S) = SQ
  BY <1>1 DEF OwnerInv, WaitsOn
<1>6. /\ q' \in [QueueIds -> Seq(Blocks)] /\ QUEUED' \in [Blocks -> BOOLEAN]
      /\ TD_PTR' \in [Blocks -> Clients \cup {S, None}]
      /\ td' \in [Clients \cup {S} -> Blocks \cup {None}]
      /\ rcv' \subseteq Clients \cup {S}
      /\ OnceQueued' /\ \A j \in QueueIds : j # SQ => q'[j] = q[j]
      /\ \A x \in Blocks :
           /\ QUEUED'[x] <=> \E j \in QueueIds : x \in MessagesIn(j)'
           /\ x # b => QUEUED'[x] = QUEUED[x] /\ TD_PTR'[x] = TD_PTR[x]
      /\ \/ /\ S \in rcv /\ rcv' = rcv \ {S} /\ td'[S] = b
            /\ \A t \in Clients : td'[t] = td[t]
            /\ q' = q /\ ~QUEUED'[b] /\ TD_PTR'[b] = S
         \/ /\ S \notin rcv /\ td' = td /\ rcv' = rcv /\ QUEUED'[b]
            /\ q'[SQ] # <<>>
            /\ \A j \in QueueIds : \A x :
                 x \in MessagesIn(j)' <=> x \in MessagesIn(j) \/ (j = SQ /\ x = b)
  <2>1. S \in Clients \cup {S} /\ SQ \in QueueIds
    BY Names
  <2>2. /\ q' \in [QueueIds -> Seq(Blocks)] /\ QUEUED' \in [Blocks -> BOOLEAN]
        /\ TD_PTR' \in [Blocks -> Clients \cup {S, None}]
        /\ td' \in [Clients \cup {S} -> Blocks \cup {None}]
        /\ rcv' \subseteq Clients \cup {S}
        /\ OnceQueued' /\ \A j \in QueueIds : j # SQ => q'[j] = q[j]
    BY <1>2, <1>3, <1>4, <1>5, <2>1, Delivery
  <2>3. \A x \in Blocks :
          /\ QUEUED'[x] <=> \E j \in QueueIds : x \in MessagesIn(j)'
          /\ x # b => QUEUED'[x] = QUEUED[x] /\ TD_PTR'[x] = TD_PTR[x]
    BY <1>2, <1>3, <1>4, <1>5, <2>1, Delivery
  <2>4. \/ /\ S \in rcv /\ rcv' = rcv \ {S} /\ td'[S] = b
           /\ \A t \in Clients \cup {S} : t # S => td'[t] = td[t]
           /\ q' = q /\ ~QUEUED'[b] /\ TD_PTR'[b] = S
        \/ /\ S \notin rcv /\ td' = td /\ rcv' = rcv /\ QUEUED'[b]
           /\ q'[SQ] # <<>>
           /\ \A j \in QueueIds : \A x :
                x \in MessagesIn(j)' <=> x \in MessagesIn(j) \/ (j = SQ /\ x = b)
    BY <1>2, <1>3, <1>4, <1>5, <2>1, Delivery
  <2> QED BY <2>2, <2>3, <2>4, Names
<1>7. /\ pc' \in [Clients -> Steps] /\ pc'[c] = "receive"
      /\ \A d \in Clients : d # c => pc'[d] = pc[d]
  BY <1>1, <1>2 DEF TypeOK, Steps
<1>8. /\ held' \in [Clients -> Blocks \cup {None}] /\ held'[c] = None
      /\ \A d \in Clients : d # c => held'[d] = held[d]
  BY <1>1, <1>2 DEF TypeOK
<1>9. active' \in {T, G, None}
  BY <1>2, Running
<1>10. local_q[c] \in Queues
  <2>1. local_q[c] # None
    BY <1>1, <1>2 DEF OwnerInv
  <2> QED BY <1>1, <2>1 DEF TypeOK
<1>11. td[c] = None /\ q[local_q[c]] = <<>> /\ c \notin rcv
  BY <1>1, <1>2, <1>10 DEF HandsInv
<1>12. td'[c] = None /\ \A d \in Clients : td'[d] = td[d]
  BY <1>6, <1>11
<1>13. \A j \in Queues : q'[j] = q[j]
  BY <1>6, Names
<1>14. TypeOK'
  BY <1>1, <1>2, <1>6, <1>7, <1>8, <1>9 DEF TypeOK
<1>15. StepInv' /\ OwnerInv'
  BY <1>1, <1>2, <1>7, <1>13, Names DEF StepInv, OwnerInv
<1>16. pool
  BY <1>1, <1>2, Names DEF PoolInv
<1>17. PoolInv'
  BY <1>1, <1>2, <1>7, <1>16, Running, Names DEF PoolInv
<1>18. /\ \A d \in Clients : held[d] = b => d = c
       /\ \A t \in Clients \cup {S} : td[t] # b
       /\ b # cur /\ b # gmsg
  BY <1>1, <1>3, <1>4, <1>11, Names DEF HeaderInv
<1>19. HeaderInv'
  <2>1. \A x \in Blocks : QUEUED'[x] => ~FREE'[x]
    BY <1>1, <1>2, <1>4, <1>6 DEF HeaderInv
  <2>2. \A d \in Clients : held'[d] # None =>
          TD_PTR'[held'[d]] = d /\ ~FREE'[held'[d]] /\ ~QUEUED'[held'[d]]
    BY <1>1, <1>2, <1>6, <1>8, <1>18 DEF HeaderInv, TypeOK
  <2>3. \A t \in Clients \cup {S} : td'[t] # None =>
          TD_PTR'[td'[t]] = t /\ ~FREE'[td'[t]] /\ ~QUEUED'[td'[t]]
    BY <1>1, <1>2, <1>4, <1>6, <1>12, <1>18 DEF HeaderInv, TypeOK
  <2>4. /\ cur # None => TD_PTR'[cur] = S /\ ~FREE[cur] /\ ~QUEUED'[cur]
        /\ gmsg # None => TD_PTR'[gmsg] = None /\ ~FREE[gmsg] /\ ~QUEUED'[gmsg]
    BY <1>1, <1>6, <1>18 DEF HeaderInv, TypeOK
  <2> QED BY <1>1, <1>2, <1>6, <2>1, <2>2, <2>3, <2>4 DEF HeaderInv
<1>20. NoLeak'
  <2>1. ASSUME NEW x \in Blocks, ~FREE[x], ~QUEUED'[x]
        PROVE  \/ x \in {gmsg, cur} \/ \E d \in Clients : held'[d] = x
               \/ \E t \in Clients \cup {S} : td'[t] = x
    <3>1. CASE x = b
      BY <1>6, <2>1, <3>1
    <3>2. CASE x # b
      <4>1. \/ x \in {gmsg, cur} \/ \E d \in Clients : held[d] = x
            \/ \E t \in Clients \cup {S} : td[t] = x
        BY <1>1, <1>6, <2>1, <3>2 DEF NoLeak
      <4>2. S \in rcv => td[S] = None
        BY <1>1 DEF HandsInv
      <4> QED BY <1>3, <1>6, <1>8, <2>1, <3>2, <4>1, <4>2, Names
    <3> QED BY <3>1, <3>2
  <2> QED BY <1>2, <2>1 DEF NoLeak
<1>21. \A d \in Clients : d # c => (Waits(d)' <=> Waits(d))
  <2>1. ASSUME NEW d \in Clients, d # c, pc[d] \in {"receive", "wait"}
        PROVE  local_q[d] \in Queues
    <3>1. local_q[d] # None
      BY <1>1, <2>1 DEF OwnerInv
    <3>2. local_q[d] \in Queues \cup {None}
      BY <1>1 DEF TypeOK
    <3> QED BY <3>1, <3>2
  <2> QED BY <1>2, <1>7, <1>12, <1>13, <2>1 DEF Waits
<1>22. Waits(c)' /\ ~Waits(c)
  BY <1>2, <1>7, <1>10, <1>11, <1>12, <1>13 DEF Waits
<1>23. HandsInv'
  <2>1. ASSUME NEW d \in Clients
        PROVE  /\ held'[d] # None <=> pc'[d] \in {"send", "read"}
               /\ returned'[d] # None <=> pc'[d] = "close"
               /\ d \in rcv' => pc'[d] = "wait"
               /\ pc'[d] = "wait" => (d \in rcv' <=> td'[d] = None)
               /\ td'[d] # None => pc'[d] \in {"wait", "exit", "sweep"}
    <3>1. d \in rcv' <=> d \in rcv
      BY <1>6, Names
    <3>2. CASE d = c
      BY <1>1, <1>2, <1>7, <1>8, <1>11, <1>12, <3>1, <3>2 DEF HandsInv
    <3>3. CASE d # c
      BY <1>1, <1>2, <1>7, <1>8, <1>12, <3>1, <3>3 DEF HandsInv
    <3> QED BY <3>2, <3>3
  <2>2. ASSUME NEW d \in Clients, NEW i \in Queues, local_q'[d] = i, q'[i] # <<>>
        PROVE  td'[d] = None /\ pc'[d] \in {"receive", "exit"}
    BY <1>1, <1>2, <1>7, <1>12, <1>13, <2>2 DEF HandsInv
  <2>3. \A u \in Users : pc'[u] \in {"receive", "wait"} => Waits(u)'
    BY <1>1, <1>7, <1>21, <1>22, Names DEF HandsInv
  <2>4. /\ cur' = None <=> spc' = "receive"
        /\ S \in rcv' \/ td'[S] # None => spc' = "receive"
        /\ S \in rcv' => td'[S] = None /\ q'[SQ] = <<>>
    BY <1>1, <1>2, <1>6 DEF HandsInv
  <2> QED BY <2>1, <2>2, <2>3, <2>4 DEF HandsInv
<1>24. RequestsInv'
  <2>1. \A x : x \in Requests' <=> x \in Requests \/ x = b
    <3>1. \A x : x \in MessagesIn(SQ)' <=>
                   x \in MessagesIn(SQ) \/ (S \notin rcv /\ x = b)
      BY <1>6, QueueSame, Names
    <3>2. S \in rcv => td[S] = None /\ spc = "receive"
      BY <1>1 DEF HandsInv
    <3>3. ASSUME NEW x PROVE x \in Requests' <=> x \in Requests \/ x = b
      <4>1. CASE S \in rcv
        BY <1>2, <1>3, <1>6, <3>1, <3>2, <4>1, Names DEF Requests
      <4>2. CASE S \notin rcv
        BY <1>2, <1>3, <1>6, <3>1, <4>2 DEF Requests
      <4> QED BY <4>1, <4>2
    <3> QED BY <3>3
  <2>2. content[b].client = c /\ content[b].qid = local_q[c]
    BY <1>1, <1>2 DEF RequestsInv, FilledIn
  <2>3. \A x \in Requests : content[x].client # c
    BY <1>1, <1>22 DEF RequestsInv, IsRequest
  <2>4. \A d \in Clients : FilledIn(d)'
    BY <1>1, <1>2, <1>7, <1>8 DEF FilledIn, RequestsInv
  <2>5. \A x \in Requests' : IsRequest(x)'
    BY <1>1, <1>2, <1>10, <1>21, <1>22, <2>1, <2>2, <2>3
       DEF RequestsInv, IsRequest
  <2>6. \A x1, x2 \in Requests' :
          content'[x1].client = content'[x2].client => x1 = x2
    BY <1>1, <1>2, <2>1, <2>2, <2>3 DEF RequestsInv
  <2>7. \A d \in Clients : Waits(d)' => \E x \in Requests' : content'[x].client = d
    BY <1>1, <1>2, <1>21, <2>1, <2>2 DEF RequestsInv
  <2> QED BY <2>4, <2>5, <2>6, <2>7 DEF RequestsInv
<1> QED BY <1>6, <1>14, <1>15, <1>17, <1>19, <1>20, <1>23, <1>24 DEF IInv

LEMMA ReceiveReplyKeeps ==
  ASSUME IInv, NEW c \in Clients, ReceiveReply(c)
  PROVE  IInv'
<1>1. /\ TypeOK /\ StepInv /\ PoolInv /\ OwnerInv /\ HandsInv /\ RequestsInv
      /\ HeaderInv /\ OnceQueued /\ NoLeak
  BY DEF IInv
<1>2. /\ Runs(c) /\ pc[c] = "receive"
      /\ UNCHANGED <<halted, pool, slot, blocks, free, FREE, content, qowner,
                     td, local_q, returned, gmsg, server>>
  BY DEF ReceiveReply, At
<1> DEFINE i == local_q[c]
<1> USE DEF server
<1>3. i \in Queues /\ i \in QueueIds /\ i # SQ /\ i # GQ
  <2>1. i # None
    BY <1>1, <1>2 DEF OwnerInv
  <2> QED BY <1>1, <2>1, Names DEF TypeOK
<1>4. c \notin rcv /\ td[c] = None /\ held[c] = None
  BY <1>1, <1>2 DEF HandsInv
<1>5. pool /\ pc[c] # "create"
  BY <1>1, <1>2, Names DEF PoolInv
<1>6. \A d \in Clients : d # c => local_q[d] # i
  BY <1>1, <1>3 DEF OwnerInv
<1>7. ASSUME NEW d \in Clients, pc[d] \in {"receive", "wait"}
      PROVE  local_q[d] \in Queues
  <2>1. local_q[d] # None
    BY <1>1, <1>7 DEF OwnerInv
  <2> QED BY <1>1, <2>1 DEF TypeOK
<1>8. CASE q[i] = <<>>
  <2>1. /\ rcv' = rcv \cup {c} /\ Leave(c) /\ pc' = [pc EXCEPT ![c] = "wait"]
        /\ UNCHANGED <<q, QUEUED, TD_PTR, held>>
    BY <1>8 DEF ReceiveReply, Goto
  <2>2. /\ pc' \in [Clients -> Steps] /\ pc'[c] = "wait"
        /\ \A d \in Clients : d # c => pc'[d] = pc[d]
    BY <1>1, <2>1 DEF TypeOK, Steps
  <2>3. active' \in {T, G, None} /\ \A d \in Clients : pc'[d] # "create"
    BY <1>1, <1>2, <1>5, <2>1, <2>2 DEF Leave, PoolInv, TypeOK
  <2>4. TypeOK'
    BY <1>1, <1>2, <2>1, <2>2, <2>3 DEF TypeOK
  <2>5. StepInv' /\ OwnerInv'
    BY <1>1, <1>2, <2>1, <2>2, Names DEF StepInv, OwnerInv
  <2>6. PoolInv'
    BY <1>1, <1>2, <1>5, <2>3 DEF PoolInv
  <2>7. HeaderInv' /\ OnceQueued' /\ NoLeak'
    BY <1>1, <1>2, <2>1, BlocksKept DEF HeaderInv
  <2>8. \A d \in Clients : Waits(d)' <=> Waits(d)
    BY <1>2, <1>4, <1>8, <2>1, <2>2 DEF Waits
  <2>9. HandsInv'
    <3>1. \A u \in Users : pc'[u] \in {"receive", "wait"} => Waits(u)'
      BY <1>1, <1>2, <2>2, <2>8, Names DEF HandsInv
    <3> QED BY <1>1, <1>2, <1>4, <1>8, <2>1, <2>2, <3>1, Names DEF HandsInv
  <2>10. RequestsInv'
    <3>1. \A d \in Clients : FilledIn(d)'
      BY <1>1, <1>2, <2>1, <2>2 DEF FilledIn, RequestsInv
    <3> QED BY <1>2, <2>1, <2>8, <3>1, RequestsKept, RequestsSame
  <2> QED BY <2>4, <2>5, <2>6, <2>7, <2>9, <2>10 DEF IInv
<1>9. CASE q[i] # <<>>
  <2> DEFINE b == Head(q[i])
  <2>1. /\ q' = [q EXCEPT ![i] = Tail(@)] /\ QUEUED' = [QUEUED EXCEPT ![b] = FALSE]
        /\ TD_PTR' = [TD_PTR EXCEPT ![b] = c] /\ Keep(c)
        /\ pc' = [pc EXCEPT ![c] = "read"] /\ held' = [held EXCEPT ![c] = b]
        /\ UNCHANGED rcv
    BY <1>9 DEF ReceiveReply, Dequeue, Goto
  <2>2. Len(q[i]) = 1
    <3>1. Len(q[i]) <= 1
      BY <1>1, <1>3 DEF OwnerInv
    <3>2. Len(q[i]) \in Nat /\ Len(q[i]) # 0
      BY <1>1, <1>3, <1>9, EmptyQueue
    <3>3. \A n \in Nat : n <= 1 /\ n # 0 => n = 1
      OBVIOUS
    <3> QED BY <3>1, <3>2, <3>3
  <2>3. /\ q' \in [QueueIds -> Seq(Blocks)] /\ OnceQueued'
        /\ b \in Blocks /\ b \in MessagesIn(i) /\ q'[i] = <<>>
        /\ \A j \in QueueIds : j # i => q'[j] = q[j]
        /\ \A j \in QueueIds : \A x :
             x \in MessagesIn(j)' <=> x \in MessagesIn(j) /\ x # b
    BY <1>1, <1>3, <1>9, <2>1, <2>2, QueueTail
  <2>4. QUEUED[b] /\ ~FREE[b] /\ b # None
    BY <1>1, <1>3, <2>3, Names DEF HeaderInv
  <2>5. /\ QUEUED' \in [Blocks -> BOOLEAN]
        /\ TD_PTR' \in [Blocks -> Clients \cup {S, None}]
        /\ ~QUEUED'[b] /\ TD_PTR'[b] = c
        /\ \A x \in Blocks : x # b => /\ QUEUED'[x] = QUEUED[x]
                                      /\ TD_PTR'[x] = TD_PTR[x]
    BY <1>1, <2>1, <2>3 DEF TypeOK
  <2>6. /\ pc' \in [Clients -> Steps] /\ pc'[c] = "read"
        /\ \A d \in Clients : d # c => pc'[d] = pc[d]
    BY <1>1, <2>1 DEF TypeOK, Steps
  <2>7. /\ held' \in [Clients -> Blocks \cup {None}] /\ held'[c] = b
        /\ \A d \in Clients : d # c => held'[d] = held[d]
    BY <1>1, <2>1, <2>3 DEF TypeOK
  <2>8. active' \in {T, G, None}
    BY <1>2, <2>1, Running
  <2>9. c \notin Users
    BY <1>1, <1>2, <1>9 DEF HandsInv, Waits
  <2>10. TypeOK'
    BY <1>1, <1>2, <2>1, <2>3, <2>5, <2>6, <2>7, <2>8 DEF TypeOK
  <2>11. StepInv'
    BY <1>1, <1>2, <2>6, <2>9, Names DEF StepInv
  <2>12. OwnerInv'
    <3>1. \A j \in Queues : Len(q'[j]) <= 1 /\ (q[j] = <<>> => q'[j] = <<>>)
      BY <1>1, <1>3, <2>3, Names DEF OwnerInv
    <3> QED BY <1>1, <1>2, <2>6, <3>1, Names DEF OwnerInv
  <2>13. PoolInv'
    BY <1>1, <1>2, <1>5, <2>6, Running, Names DEF PoolInv
  <2>14. HeaderInv'
    <3>1. \A x \in Blocks : QUEUED'[x] <=> \E j \in QueueIds : x \in MessagesIn(j)'
      BY <1>1, <2>3, <2>5 DEF HeaderInv
    <3>2. \A x \in Blocks : QUEUED'[x] => ~FREE'[x]
      BY <1>1, <1>2, <2>4, <2>5 DEF HeaderInv
    <3>3. /\ \A d \in Clients : held[d] # b
          /\ \A t \in Clients \cup {S} : td[t] # b
          /\ b # cur /\ b # gmsg
      BY <1>1, <2>4 DEF HeaderInv
    <3>4. \A d \in Clients : held'[d] # None =>
            TD_PTR'[held'[d]] = d /\ ~FREE'[held'[d]] /\ ~QUEUED'[held'[d]]
      <4>1. ASSUME NEW d \in Clients, d # c, held[d] # None
            PROVE  /\ held[d] \in Blocks /\ held[d] # b
                   /\ TD_PTR[held[d]] = d /\ ~FREE[held[d]] /\ ~QUEUED[held[d]]
        BY <1>1, <3>3, <4>1 DEF HeaderInv, TypeOK
      <4> QED BY <1>2, <2>4, <2>5, <2>7, <4>1
    <3>5. \A t \in Clients \cup {S} : td'[t] # None =>
            TD_PTR'[td'[t]] = t /\ ~FREE'[td'[t]] /\ ~QUEUED'[td'[t]]
      BY <1>1, <1>2, <2>5, <3>3 DEF HeaderInv, TypeOK
    <3>6. /\ cur # None => TD_PTR'[cur] = S /\ ~FREE[cur] /\ ~QUEUED'[cur]
          /\ gmsg # None => TD_PTR'[gmsg] = None /\ ~FREE[gmsg] /\ ~QUEUED'[gmsg]
      BY <1>1, <2>5, <3>3 DEF HeaderInv, TypeOK
    <3> QED BY <1>1, <1>2, <3>1, <3>2, <3>4, <3>5, <3>6 DEF HeaderInv
  <2>15. NoLeak'
    <3>1. ASSUME NEW x \in Blocks, ~FREE[x], ~QUEUED'[x]
          PROVE  \/ x \in {gmsg, cur} \/ \E d \in Clients : held'[d] = x
                 \/ \E t \in Clients \cup {S} : td[t] = x
      <4>1. CASE x = b
        BY <2>7, <4>1
      <4>2. CASE x # b
        <5>1. held[c] # x
          BY <1>4, <3>1, Names
        <5> QED BY <1>1, <2>5, <2>7, <3>1, <4>2, <5>1 DEF NoLeak
      <4> QED BY <4>1, <4>2
    <3> QED BY <1>2, <3>1 DEF NoLeak
  <2>16. ASSUME NEW d \in Clients PROVE Waits(d)' <=> Waits(d)
    <3>1. CASE d = c
      BY <1>9, <2>6, <3>1 DEF Waits
    <3>2. CASE d # c
      BY <1>2, <1>6, <1>7, <2>3, <2>6, <3>2, Names DEF Waits
    <3> QED BY <3>1, <3>2
  <2>17. HandsInv'
    <3>1. \A u \in Users : pc'[u] \in {"receive", "wait"} => Waits(u)'
      BY <1>1, <2>6, <2>9, <2>16, Names DEF HandsInv
    <3>2. ASSUME NEW d \in Clients, NEW j \in Queues, local_q[d] = j, q'[j] # <<>>
          PROVE  td[d] = None /\ pc'[d] \in {"receive", "exit"}
      <4>1. j # i /\ d # c
        BY <2>3, <3>2
      <4>2. q[j] # <<>>
        BY <2>3, <3>2, <4>1, Names
      <4>3. td[d] = None /\ pc[d] \in {"receive", "exit"}
        BY <1>1, <3>2, <4>2 DEF HandsInv
      <4> QED BY <2>6, <4>1, <4>3
    <3>3. q'[SQ] = q[SQ]
      BY <1>3, <2>3, Names
    <3>4. \A d \in Clients : held'[d] # None <=> pc'[d] \in {"send", "read"}
      BY <1>1, <2>4, <2>6, <2>7 DEF HandsInv
    <3> QED BY <1>1, <1>2, <1>4, <2>1, <2>6, <3>1, <3>2, <3>3, <3>4 DEF HandsInv
  <2>18. RequestsInv'
    <3>1. \A d \in Clients : FilledIn(d)'
      BY <1>1, <1>2, <2>6, <2>7 DEF FilledIn, RequestsInv
    <3>2. \A x : x \in MessagesIn(SQ)' <=> x \in MessagesIn(SQ)
      BY <1>3, <2>3, Names DEF MessagesIn
    <3>3. \A x : x \in Requests' <=> x \in Requests
      BY <1>2, <3>2 DEF Requests
    <3> QED BY <1>2, <2>16, <3>1, <3>3, RequestsKept
  <2> QED BY <2>3, <2>10, <2>11, <2>12, <2>13, <2>14, <2>15, <2>17, <2>18
          DEF IInv
<1> QED BY <1>8, <1>9

LEMMA ReadAnswerKeeps ==
  ASSUME IInv, NEW c \in Clients, ReadAnswer(c)
  PROVE  IInv'
<1>1. /\ TypeOK /\ StepInv /\ PoolInv /\ OwnerInv /\ HandsInv /\ RequestsInv
      /\ HeaderInv /\ OnceQueued /\ NoLeak
  BY DEF IInv
<1> DEFINE b == held[c]
<1>2. /\ Runs(c) /\ Keep(c) /\ pc[c] = "read" /\ Free({b})
      /\ pc' = [pc EXCEPT ![c] = "close"] /\ held' = [held EXCEPT ![c] = None]
      /\ returned' = [returned EXCEPT ![c] = content[b].result]
      /\ UNCHANGED <<halted, pool, slot, blocks, QUEUED, qowner, q, rcv, td,
                     local_q, gmsg, server>>
  BY DEF ReadAnswer, At, Goto
<1> USE DEF server
<1>3. b \in Blocks /\ b # None /\ ~FREE[b] /\ ~QUEUED[b] /\ TD_PTR[b] = c
  BY <1>1, <1>2, Names DEF HeaderInv, HandsInv, TypeOK
<1>4. c \notin Users /\ td[c] = None
  BY <1>1, <1>2 DEF StepInv, HandsInv
<1>5. content[b].result \in Answers /\ content[b].result # None
  BY <1>1, <1>3, Names DEF TypeOK, Bodies
<1>6. /\ free' \subseteq blocks /\ FREE' \in [Blocks -> BOOLEAN]
      /\ TD_PTR' \in [Blocks -> Clients \cup {S, None}]
      /\ content' \in [Blocks -> Bodies]
      /\ \A x \in Blocks : /\ FREE'[x] <=> x = b \/ FREE[x]
                           /\ FREE'[x] <=> x \notin blocks \ free'
                           /\ x # b => /\ TD_PTR'[x] = TD_PTR[x]
                                       /\ content'[x] = content[x]
  <2>1. {b} \in SUBSET Blocks /\ \A x \in {b} : ~FREE[x]
    BY <1>3
  <2> QED BY <1>2, <2>1, Freed
<1>7. /\ pc' \in [Clients -> Steps] /\ pc'[c] = "close"
      /\ \A d \in Clients : d # c => pc'[d] = pc[d]
  BY <1>1, <1>2 DEF TypeOK, Steps
<1>8. /\ held' \in [Clients -> Blocks \cup {None}] /\ held'[c] = None
      /\ \A d \in Clients : d # c => held'[d] = held[d]
  BY <1>1, <1>2 DEF TypeOK
<1>9. /\ returned' \in [Clients -> Answers \cup {None}] /\ returned'[c] # None
      /\ \A d \in Clients : d # c => returned'[d] = returned[d]
  BY <1>1, <1>2, <1>5 DEF TypeOK
<1>10. active' \in {T, G, None}
  BY <1>2, Running
<1>11. TypeOK'
  BY <1>1, <1>2, <1>6, <1>7, <1>8, <1>9, <1>10 DEF TypeOK
<1>12. StepInv' /\ OwnerInv'
  BY <1>1, <1>2, <1>4, <1>7, Names DEF StepInv, OwnerInv
<1>13. PoolInv'
  BY <1>1, <1>2, <1>7, Running, Names DEF PoolInv
<1>14. /\ \A d \in Clients : d # c => held[d] # b
       /\ \A t \in Clients \cup {S} : td[t] # b
       /\ b # cur /\ b # gmsg
  BY <1>1, <1>3, <1>4, Names DEF HeaderInv
<1>15. HeaderInv'
  BY <1>1, <1>2, <1>3, <1>6, <1>8, <1>14, QueueSame, Names DEF HeaderInv, TypeOK
<1>16. OnceQueued' /\ NoLeak'
  <2>1. ASSUME NEW x \in Blocks, ~FREE'[x], ~QUEUED[x]
        PROVE  \/ x \in {gmsg, cur} \/ \E d \in Clients : held'[d] = x
               \/ \E t \in Clients \cup {S} : td[t] = x
    BY <1>1, <1>6, <1>8, <2>1 DEF NoLeak
  <2> QED BY <1>1, <1>2, <2>1, QueueSame DEF NoLeak
<1>17. \A d \in Clients : Waits(d)' <=> Waits(d)
  BY <1>2, <1>7 DEF Waits
<1>18. HandsInv'
  <2>1. \A u \in Users : pc'[u] \in {"receive", "wait"} => Waits(u)'
    BY <1>1, <1>4, <1>7, <1>17, Names DEF HandsInv
  <2> QED BY <1>1, <1>2, <1>4, <1>7, <1>8, <1>9, <2>1, Names DEF HandsInv
<1>19. RequestsInv'
  <2>1. ASSUME NEW d \in Clients PROVE FilledIn(d)'
    <3>1. CASE d = c
      BY <1>7, <3>1 DEF FilledIn
    <3>2. CASE d # c
      <4>1. pc[d] = "send" => held[d] \in Blocks
        BY <1>1 DEF HandsInv, TypeOK
      <4> QED BY <1>1, <1>2, <1>6, <1>7, <1>8, <1>14, <3>2, <4>1
              DEF FilledIn, RequestsInv
    <3> QED BY <3>1, <3>2
  <2>2. \A x \in Requests : content'[x] = content[x]
    BY <1>6, RequestInUse
  <2> QED BY <1>2, <1>17, <2>1, <2>2, RequestsKept, RequestsSame
<1> QED BY <1>11, <1>12, <1>13, <1>15, <1>16, <1>18, <1>19 DEF IInv

(* What closing c's queue, and with it freeing the blocks of B, leaves.     *)
QueueIsClosed(c, B) ==
  /\ local_q[c] \in Queues
  /\ local_q' \in [Clients -> Queues \cup {None}] /\ local_q'[c] = None
  /\ \A d \in Clients : d # c => /\ local_q'[d] = local_q[d]
                                 /\ local_q[d] # local_q[c]
  /\ qowner' \in [QueueIds -> Clients \cup {S, None}]
  /\ qowner'[local_q[c]] = None
  /\ \A j \in QueueIds : j # local_q[c] => /\ qowner'[j] = qowner[j]
                                           /\ q'[j] = q[j]
  /\ q' \in [QueueIds -> Seq(Blocks)] /\ q'[local_q[c]] = <<>>
  /\ OnceQueued' /\ QUEUED' \in [Blocks -> BOOLEAN]
  /\ free' \subseteq blocks /\ FREE' \in [Blocks -> BOOLEAN]
  /\ TD_PTR' \in [Blocks -> Clients \cup {S, None}]
  /\ content' \in [Blocks -> Bodies]
  /\ \A x \in Blocks :
       /\ FREE'[x] <=> x \in B \/ FREE[x] \/ x \in MessagesIn(local_q[c])
       /\ FREE'[x] <=> x \notin blocks \ free'
       /\ QUEUED'[x] <=> QUEUED[x] /\ x \notin MessagesIn(local_q[c])
       /\ QUEUED'[x] <=> \E j \in QueueIds : x \in MessagesIn(j)'
       /\ x \notin B /\ x \notin MessagesIn(local_q[c]) =>
            TD_PTR'[x] = TD_PTR[x] /\ content'[x] = content[x]

(* A queue is closed by its owner, which then forgets it.                  *)
LEMMA QueueClosed ==
  ASSUME IInv, NEW c \in Clients, NEW B \in SUBSET Blocks,
         local_q[c] # None, CloseQueue(local_q[c], B), UNCHANGED blocks,
         local_q' = [local_q EXCEPT ![c] = None],
         \A x \in B : ~FREE[x] /\ ~QUEUED[x]
  PROVE  QueueIsClosed(c, B)
<1>1. /\ TypeOK /\ OwnerInv /\ HeaderInv /\ OnceQueued
  BY DEF IInv
<1> DEFINE i == local_q[c]
           left == MessagesIn(i)
<1>2. i \in Queues /\ i \in QueueIds
  BY <1>1, Names DEF TypeOK
<1>3. /\ Free(left \cup B)
      /\ QUEUED' = [b \in Blocks |-> QUEUED[b] /\ b \notin left]
      /\ q' = [q EXCEPT ![i] = <<>>] /\ qowner' = [qowner EXCEPT ![i] = None]
  BY DEF CloseQueue, MessagesIn
<1>4. /\ local_q' \in [Clients -> Queues \cup {None}] /\ local_q'[c] = None
      /\ \A d \in Clients : d # c => local_q'[d] = local_q[d]
  BY <1>1 DEF TypeOK
<1>5. \A d \in Clients : d # c => local_q[d] # i
  BY <1>1, <1>2 DEF OwnerInv
<1>6. /\ qowner' \in [QueueIds -> Clients \cup {S, None}] /\ qowner'[i] = None
      /\ \A j \in QueueIds : j # i => qowner'[j] = qowner[j]
  BY <1>1, <1>2, <1>3 DEF TypeOK
<1>7. /\ q' \in [QueueIds -> Seq(Blocks)] /\ OnceQueued'
      /\ q'[i] = <<>> /\ \A j \in QueueIds : j # i => q'[j] = q[j]
      /\ \A j \in QueueIds : \A x :
           x \in MessagesIn(j)' <=> x \in MessagesIn(j) /\ x \notin left
  BY <1>1, <1>2, <1>3, QueueClear
<1>8. /\ QUEUED' \in [Blocks -> BOOLEAN]
      /\ \A x \in Blocks : QUEUED'[x] <=> QUEUED[x] /\ x \notin left
  BY <1>1, <1>3 DEF TypeOK
<1>9. \A x \in Blocks : QUEUED'[x] <=> \E j \in QueueIds : x \in MessagesIn(j)'
  BY <1>1, <1>7, <1>8 DEF HeaderInv
<1>10. left \cup B \in SUBSET Blocks /\ \A x \in left \cup B : ~FREE[x]
  BY <1>1, <1>2, EmptyQueue DEF HeaderInv
<1>11. /\ free' \subseteq blocks /\ FREE' \in [Blocks -> BOOLEAN]
       /\ TD_PTR' \in [Blocks -> Clients \cup {S, None}]
       /\ content' \in [Blocks -> Bodies]
       /\ \A x \in Blocks :
            /\ FREE'[x] <=> x \in left \cup B \/ FREE[x]
            /\ FREE'[x] <=> x \notin blocks \ free'
            /\ x \notin left \cup B => /\ TD_PTR'[x] = TD_PTR[x]
                                       /\ content'[x] = content[x]
  BY <1>3, <1>10, Freed
<1> QED
  BY <1>2, <1>4, <1>5, <1>6, <1>7, <1>8, <1>9, <1>11 DEF QueueIsClosed

LEMMA CloseKeeps ==
  ASSUME IInv, NEW c \in Clients, Close(c)
  PROVE  IInv'
<1>1. /\ TypeOK /\ StepInv /\ PoolInv /\ OwnerInv /\ HandsInv /\ RequestsInv
      /\ HeaderInv /\ OnceQueued /\ NoLeak
  BY DEF IInv
<1> DEFINE i == local_q[c]
<1>0. PICK B \in SUBSET Blocks : B = IF c = G THEN {gmsg} \ {None} ELSE {}
  BY <1>1 DEF TypeOK
<1>2. /\ Runs(c) /\ pc[c] = "close" /\ c \in {T, G} /\ CloseQueue(i, B)
      /\ local_q' = [local_q EXCEPT ![c] = None]
      /\ returned' = [returned EXCEPT ![c] = None]
      /\ UNCHANGED <<pool, slot, blocks, rcv, td, held, server>>
  BY <1>0 DEF Close, At
<1> USE DEF server
<1>3. PICK s \in {"loop", "idle"} :
        /\ pc' = [pc EXCEPT ![c] = s] /\ s = IF c = G THEN "loop" ELSE "idle"
        /\ gmsg' = IF c = G THEN None ELSE gmsg
        /\ Keep(c) \/ Leave(c)
        /\ halted' \in {halted, "generator assert"}
  BY DEF Close, Goto
<1>4. \A x \in B : ~FREE[x] /\ ~QUEUED[x]
  BY <1>0, <1>1 DEF HeaderInv
<1>5. i # None
  BY <1>1, <1>2 DEF OwnerInv
<1>a. QueueIsClosed(c, B)
  <2>1. UNCHANGED blocks /\ local_q' = [local_q EXCEPT ![c] = None]
    BY <1>2
  <2>2. local_q[c] # None /\ CloseQueue(local_q[c], B)
    BY <1>2, <1>5
  <2> QED BY <1>4, <2>1, <2>2, QueueClosed
<1>6. /\ i \in Queues
      /\ local_q' \in [Clients -> Queues \cup {None}] /\ local_q'[c] = None
      /\ \A d \in Clients : d # c => local_q'[d] = local_q[d] /\ local_q[d] # i
      /\ qowner' \in [QueueIds -> Clients \cup {S, None}] /\ qowner'[i] = None
      /\ \A j \in QueueIds : j # i => qowner'[j] = qowner[j] /\ q'[j] = q[j]
      /\ q' \in [QueueIds -> Seq(Blocks)] /\ q'[i] = <<>>
      /\ OnceQueued' /\ QUEUED' \in [Blocks -> BOOLEAN]
      /\ free' \subseteq blocks /\ FREE' \in [Blocks -> BOOLEAN]
      /\ TD_PTR' \in [Blocks -> Clients \cup {S, None}]
      /\ content' \in [Blocks -> Bodies]
      /\ \A x \in Blocks :
           /\ FREE'[x] <=> x \in B \/ FREE[x] \/ x \in MessagesIn(i)
           /\ FREE'[x] <=> x \notin blocks \ free'
           /\ QUEUED'[x] <=> QUEUED[x] /\ x \notin MessagesIn(i)
           /\ QUEUED'[x] <=> \E j \in QueueIds : x \in MessagesIn(j)'
           /\ x \notin B /\ x \notin MessagesIn(i) =>
                TD_PTR'[x] = TD_PTR[x] /\ content'[x] = content[x]
  BY <1>a DEF QueueIsClosed
<1>7. q[i] = <<>> /\ MessagesIn(i) = {}
  <2>1. i \in Queues /\ pc[c] = "close"
    BY <1>2, <1>6
  <2>2. q[i] # <<>> => pc[c] \in {"receive", "exit"}
    BY <1>1, <2>1 DEF HandsInv
  <2>3. q[i] = <<>>
    BY <2>1, <2>2
  <2> QED BY <1>1, <2>1, <2>3, EmptyQueue, Names
<1>8. /\ \A j \in QueueIds : q'[j] = q[j]
      /\ \A x \in Blocks : /\ QUEUED'[x] <=> QUEUED[x]
                           /\ FREE'[x] <=> x \in B \/ FREE[x]
                           /\ x \notin B => /\ TD_PTR'[x] = TD_PTR[x]
                                            /\ content'[x] = content[x]
  BY <1>6, <1>7
<1>9. /\ pc' \in [Clients -> Steps] /\ pc'[c] = s
      /\ \A d \in Clients : d # c => pc'[d] = pc[d]
  BY <1>1, <1>3 DEF TypeOK, Steps
<1>10. /\ returned' \in [Clients -> Answers \cup {None}] /\ returned'[c] = None
       /\ \A d \in Clients : d # c => returned'[d] = returned[d]
  BY <1>1, <1>2 DEF TypeOK
<1>11. active' \in {T, G, None} /\ \A d \in Clients : pc'[d] # "create"
  <2>1. active' \in {T, G, None}
    <3>1. Keep(c) => active' \in {T, G, None}
      BY <1>2, Running
    <3>2. Leave(c) => active' = None
      BY <1>2 DEF Leave
    <3> QED BY <1>3, <3>1, <3>2
  <2>2. \A d \in Clients : pc[d] # "create"
    BY <1>2, Running
  <2> QED BY <1>3, <1>9, <2>1, <2>2
<1>12. TypeOK'
  BY <1>1, <1>2, <1>3, <1>6, <1>9, <1>10, <1>11 DEF TypeOK, Halts
<1>13. StepInv'
  BY <1>1, <1>2, <1>3, <1>9, Names DEF StepInv
<1>14. OwnerInv'
  <2>0. /\ i \in Queues /\ local_q'[c] = None /\ qowner'[i] = None
        /\ \A d \in Clients : d # c => local_q'[d] = local_q[d] /\ local_q[d] # i
        /\ \A j \in Queues : j # i => qowner'[j] = qowner[j] /\ q'[j] = q[j]
        /\ qowner'[SQ] = qowner[SQ] /\ qowner'[GQ] = qowner[GQ]
        /\ q'[i] = <<>>
    BY <1>6, Names
  <2>1. \A j \in Queues : /\ qowner'[j] # S /\ Len(q'[j]) <= 1
                          /\ qowner'[j] = None => q'[j] = <<>>
    <3>1. ASSUME NEW j \in Queues, j # i
          PROVE  /\ qowner'[j] # S /\ Len(q'[j]) <= 1
                 /\ qowner'[j] = None => q'[j] = <<>>
      BY <1>1, <2>0, <3>1 DEF OwnerInv
    <3>2. Len(q'[i]) <= 1
      BY <1>1, <1>6, <1>8, Names DEF OwnerInv
    <3> QED BY <1>6, <3>1, <3>2, Names
  <2>2. \A j \in Queues, d \in Clients : qowner'[j] = d <=> local_q'[d] = j
    BY <1>1, <2>0, Names DEF OwnerInv
  <2>3. ASSUME NEW d \in Clients
        PROVE  local_q'[d] = None <=> pc'[d] \in
                 {"none", "run", "idle", "delay", "loop", "open", "sweep"}
    <3>1. CASE d = c
      BY <1>6, <1>9, <3>1
    <3>2. CASE d # c
      BY <1>1, <1>9, <2>0, <3>2 DEF OwnerInv
    <3> QED BY <3>1, <3>2
  <2> QED BY <1>1, <2>0, <2>1, <2>2, <2>3 DEF OwnerInv
<1>15. PoolInv'
  <2>1. pool
    BY <1>1, <1>2, Names DEF PoolInv
  <2> QED BY <1>1, <1>2, <1>11, <2>1 DEF PoolInv
<1>16. \A x \in B : /\ \A d \in Clients : held[d] # x
                    /\ \A t \in Clients \cup {S} : td[t] # x
                    /\ x # cur
  BY <1>0, <1>1, Names DEF HeaderInv
<1>17. HeaderInv'
  <2>1. gmsg' # None => gmsg' = gmsg /\ gmsg' \notin B
    BY <1>0, <1>2, <1>3
  <2>2. \A x \in Blocks : QUEUED'[x] => ~FREE'[x]
    BY <1>1, <1>4, <1>8 DEF HeaderInv
  <2>3. \A d \in Clients : held'[d] # None =>
          TD_PTR'[held'[d]] = d /\ ~FREE'[held'[d]] /\ ~QUEUED'[held'[d]]
    BY <1>1, <1>2, <1>8, <1>16 DEF HeaderInv, TypeOK
  <2>4. \A t \in Clients \cup {S} : td'[t] # None =>
          TD_PTR'[td'[t]] = t /\ ~FREE'[td'[t]] /\ ~QUEUED'[td'[t]]
    BY <1>1, <1>2, <1>8, <1>16 DEF HeaderInv, TypeOK
  <2>5. /\ cur' # None => TD_PTR'[cur'] = S /\ ~FREE'[cur'] /\ ~QUEUED'[cur']
        /\ gmsg' # None =>
             TD_PTR'[gmsg'] = None /\ ~FREE'[gmsg'] /\ ~QUEUED'[gmsg']
    BY <1>1, <1>2, <1>8, <1>16, <2>1 DEF HeaderInv, TypeOK
  <2> QED BY <1>2, <1>6, <2>2, <2>3, <2>4, <2>5 DEF HeaderInv
<1>18. NoLeak'
  <2>1. ASSUME NEW x \in Blocks, ~FREE'[x], ~QUEUED'[x]
        PROVE  \/ x \in {gmsg', cur} \/ \E d \in Clients : held[d] = x
               \/ \E t \in Clients \cup {S} : td[t] = x
    <3>1. x \notin B /\ ~FREE[x] /\ ~QUEUED[x] /\ x # None
      BY <1>8, <2>1, Names
    <3>2. x = gmsg => x = gmsg'
      BY <1>0, <1>2, <1>3, <3>1
    <3> QED BY <1>1, <3>1, <3>2 DEF NoLeak
  <2> QED BY <1>2, <2>1 DEF NoLeak
<1>19. \A d \in Clients : Waits(d)' <=> Waits(d)
  <2>1. ASSUME NEW d \in Clients, d # c, pc[d] \in {"receive", "wait"}
        PROVE  local_q[d] \in QueueIds
    <3>1. local_q[d] # None
      BY <1>1, <2>1 DEF OwnerInv
    <3> QED BY <1>1, <3>1, Names DEF TypeOK
  <2> QED BY <1>2, <1>6, <1>8, <1>9, <2>1 DEF Waits
<1>20. HandsInv'
  <2>1. \A u \in Users : pc'[u] \in {"receive", "wait"} => Waits(u)'
    BY <1>1, <1>2, <1>9, <1>19, Names DEF HandsInv
  <2>2. ASSUME NEW d \in Clients, NEW j \in Queues, local_q'[d] = j, q'[j] # <<>>
        PROVE  td[d] = None /\ pc'[d] \in {"receive", "exit"}
    <3>1. d # c /\ local_q[d] = j /\ q[j] # <<>>
      BY <1>6, <1>8, <2>2, Names
    <3> QED BY <1>1, <1>9, <2>2, <3>1 DEF HandsInv
  <2>3. /\ \A d \in Clients : held'[d] # None <=> pc'[d] \in {"send", "read"}
        /\ \A d \in Clients : returned'[d] # None <=> pc'[d] = "close"
    BY <1>1, <1>2, <1>9, <1>10 DEF HandsInv
  <2>4. \A d \in Clients :
           /\ d \in rcv => pc'[d] = "wait"
           /\ pc'[d] = "wait" => (d \in rcv <=> td[d] = None)
           /\ td[d] # None => pc'[d] \in {"wait", "exit", "sweep"}
    BY <1>1, <1>2, <1>9 DEF HandsInv
  <2>5. q'[SQ] = q[SQ]
    BY <1>8, Names
  <2> QED BY <1>1, <1>2, <2>1, <2>2, <2>3, <2>4, <2>5 DEF HandsInv
<1>21. RequestsInv'
  <2>1. ASSUME NEW d \in Clients PROVE FilledIn(d)'
    <3>1. CASE d = c
      BY <1>9, <3>1 DEF FilledIn
    <3>2. CASE d # c
      <4>1. pc[d] = "send" => held[d] \in Blocks /\ held[d] \notin B
        BY <1>1, <1>16 DEF HandsInv, TypeOK
      <4> QED BY <1>1, <1>2, <1>6, <1>8, <1>9, <3>2, <4>1
              DEF FilledIn, RequestsInv
    <3> QED BY <3>1, <3>2
  <2>2. \A x \in Requests : content'[x] = content[x]
    BY <1>0, <1>8, RequestInUse
  <2>3. \A x : x \in Requests' <=> x \in Requests
    BY <1>2, <1>8, Names DEF Requests, MessagesIn
  <2>4. \A d \in Clients : Waits(d) => d # c
    BY <1>2 DEF Waits
  <2> QED BY <1>6, <1>19, <2>1, <2>2, <2>3, <2>4, RequestsKept
<1> QED BY <1>6, <1>12, <1>13, <1>14, <1>15, <1>17, <1>18, <1>20, <1>21 DEF IInv

LEMMA ExitKeeps ==
  ASSUME IInv, NEW c \in Clients, c \in Users, Exit(c)
  PROVE  IInv'
<1>1. /\ TypeOK /\ StepInv /\ PoolInv /\ OwnerInv /\ HandsInv /\ RequestsInv
      /\ HeaderInv /\ OnceQueued /\ NoLeak
  BY DEF IInv
<1>2. c \in Clients /\ c # T /\ c # G
  BY Names
<1> DEFINE i == local_q[c]
<1>3. /\ Runs(c) /\ pc[c] = "exit" /\ CloseQueue(i, {})
      /\ local_q' = [local_q EXCEPT ![c] = None]
      /\ pc' = [pc EXCEPT ![c] = "sweep"]
      /\ UNCHANGED <<halted, pool, slot, blocks, rcv, td, active, held,
                     returned, gmsg, server>>
  BY DEF Exit, At, Goto
<1> USE DEF server
<1>4. i # None
  BY <1>1, <1>2, <1>3 DEF OwnerInv
<1>0. PICK B \in SUBSET Blocks : B = {}
  OBVIOUS
<1>a. CloseQueue(i, B) /\ \A x \in B : ~FREE[x] /\ ~QUEUED[x]
  BY <1>0, <1>3
<1>5. /\ i \in Queues
      /\ local_q' \in [Clients -> Queues \cup {None}] /\ local_q'[c] = None
      /\ \A d \in Clients : d # c => local_q'[d] = local_q[d] /\ local_q[d] # i
      /\ qowner' \in [QueueIds -> Clients \cup {S, None}] /\ qowner'[i] = None
      /\ \A j \in QueueIds : j # i => qowner'[j] = qowner[j] /\ q'[j] = q[j]
      /\ q' \in [QueueIds -> Seq(Blocks)] /\ q'[i] = <<>>
      /\ OnceQueued' /\ QUEUED' \in [Blocks -> BOOLEAN]
      /\ free' \subseteq blocks /\ FREE' \in [Blocks -> BOOLEAN]
      /\ TD_PTR' \in [Blocks -> Clients \cup {S, None}]
      /\ content' \in [Blocks -> Bodies]
      /\ \A x \in Blocks :
           /\ FREE'[x] <=> x \in B \/ FREE[x] \/ x \in MessagesIn(i)
           /\ FREE'[x] <=> x \notin blocks \ free'
           /\ QUEUED'[x] <=> QUEUED[x] /\ x \notin MessagesIn(i)
           /\ QUEUED'[x] <=> \E j \in QueueIds : x \in MessagesIn(j)'
           /\ x \notin B /\ x \notin MessagesIn(i) =>
                TD_PTR'[x] = TD_PTR[x] /\ content'[x] = content[x]
  <2>1. UNCHANGED blocks
    BY <1>3
  <2>2. local_q' = [local_q EXCEPT ![c] = None]
    BY <1>3
  <2>3. local_q[c] # None /\ CloseQueue(local_q[c], B)
    BY <1>4, <1>a
  <2>4. QueueIsClosed(c, B)
    BY <1>a, <2>1, <2>2, <2>3, QueueClosed
  <2> QED BY <2>4 DEF QueueIsClosed
<1>6. /\ i \in Queues /\ local_q'[c] = None /\ qowner'[i] = None
      /\ \A d \in Clients : d # c => local_q'[d] = local_q[d] /\ local_q[d] # i
      /\ \A j \in QueueIds : j # i => qowner'[j] = qowner[j] /\ q'[j] = q[j]
      /\ qowner'[SQ] = qowner[SQ] /\ qowner'[GQ] = qowner[GQ]
      /\ q'[i] = <<>> /\ q'[SQ] = q[SQ] /\ q'[GQ] = q[GQ]
  BY <1>5, Names
<1>7. \A x \in Blocks : /\ FREE'[x] <=> FREE[x] \/ x \in MessagesIn(i)
                        /\ QUEUED'[x] <=> QUEUED[x] /\ x \notin MessagesIn(i)
                        /\ x \notin MessagesIn(i) => /\ TD_PTR'[x] = TD_PTR[x]
                                                     /\ content'[x] = content[x]
  BY <1>0, <1>5
<1>8. /\ pc' \in [Clients -> Steps] /\ pc'[c] = "sweep"
      /\ \A d \in Clients : d # c => pc'[d] = pc[d]
  BY <1>1, <1>2, <1>3 DEF TypeOK, Steps
<1>9. TypeOK'
  BY <1>1, <1>3, <1>5, <1>8 DEF TypeOK
<1>10. StepInv'
  BY <1>1, <1>2, <1>3, <1>8, Names DEF StepInv
<1>11. OwnerInv'
  <2>1. ASSUME NEW j \in Queues, j # i
        PROVE  /\ qowner'[j] # S /\ Len(q'[j]) <= 1
               /\ qowner'[j] = None => q'[j] = <<>>
    BY <1>1, <1>6, <2>1, Names DEF OwnerInv
  <2>2. Len(q'[i]) <= 1
    BY <1>6
  <2>3. \A j \in Queues, d \in Clients : qowner'[j] = d <=> local_q'[d] = j
    BY <1>1, <1>2, <1>6, Names DEF OwnerInv
  <2>4. ASSUME NEW d \in Clients
        PROVE  local_q'[d] = None <=> pc'[d] \in
                 {"none", "run", "idle", "delay", "loop", "open", "sweep"}
    <3>1. CASE d = c
      BY <1>6, <1>8, <3>1
    <3>2. CASE d # c
      BY <1>1, <1>6, <1>8, <3>2 DEF OwnerInv
    <3> QED BY <3>1, <3>2
  <2> QED BY <1>1, <1>6, <2>1, <2>2, <2>3, <2>4, Names DEF OwnerInv
<1>12. PoolInv'
  <2>1. pool
    BY <1>1, <1>2, <1>3 DEF PoolInv
  <2> QED BY <1>1, <1>2, <1>3, <1>8, <2>1 DEF PoolInv
<1>13. \A x \in MessagesIn(i) : x \in Blocks /\ QUEUED[x]
  BY <1>1, <1>5, EmptyQueue, Names DEF HeaderInv
<1>14. HeaderInv'
  <2>1. \A x \in Blocks : QUEUED'[x] => ~FREE'[x]
    BY <1>1, <1>7 DEF HeaderInv
  <2>2. \A d \in Clients : held'[d] # None =>
          TD_PTR'[held'[d]] = d /\ ~FREE'[held'[d]] /\ ~QUEUED'[held'[d]]
    BY <1>1, <1>3, <1>7, <1>13 DEF HeaderInv, TypeOK
  <2>3. \A t \in Clients \cup {S} : td'[t] # None =>
          TD_PTR'[td'[t]] = t /\ ~FREE'[td'[t]] /\ ~QUEUED'[td'[t]]
    BY <1>1, <1>3, <1>7, <1>13 DEF HeaderInv, TypeOK
  <2>4. /\ cur' # None => TD_PTR'[cur'] = S /\ ~FREE'[cur'] /\ ~QUEUED'[cur']
        /\ gmsg' # None =>
             TD_PTR'[gmsg'] = None /\ ~FREE'[gmsg'] /\ ~QUEUED'[gmsg']
    BY <1>1, <1>3, <1>7, <1>13 DEF HeaderInv, TypeOK
  <2> QED BY <1>3, <1>5, <2>1, <2>2, <2>3, <2>4 DEF HeaderInv
<1>15. NoLeak'
  <2>1. ASSUME NEW x \in Blocks, ~FREE'[x], ~QUEUED'[x]
        PROVE  ~FREE[x] /\ ~QUEUED[x]
    BY <1>7, <2>1
  <2> QED BY <1>1, <1>3, <2>1 DEF NoLeak
<1>16. \A d \in Clients : Waits(d)' <=> Waits(d)
  <2>1. ASSUME NEW d \in Clients, d # c, pc[d] \in {"receive", "wait"}
        PROVE  local_q[d] \in QueueIds /\ local_q[d] # i
    <3>1. local_q[d] # None
      BY <1>1, <2>1 DEF OwnerInv
    <3> QED BY <1>1, <1>6, <2>1, <3>1, Names DEF TypeOK
  <2> QED BY <1>3, <1>6, <1>8, <2>1 DEF Waits
<1>17. HandsInv'
  <2>1. \A u \in Users : pc'[u] \in {"receive", "wait"} => Waits(u)'
    BY <1>1, <1>8, <1>16, Names DEF HandsInv
  <2>2. ASSUME NEW d \in Clients, NEW j \in Queues, local_q'[d] = j, q'[j] # <<>>
        PROVE  td[d] = None /\ pc'[d] \in {"receive", "exit"}
    <3>1. d # c /\ local_q[d] = j /\ j # i /\ q[j] # <<>>
      BY <1>6, <2>2, Names
    <3> QED BY <1>1, <1>8, <2>2, <3>1 DEF HandsInv
  <2>3. \A d \in Clients :
           /\ held[d] # None <=> pc'[d] \in {"send", "read"}
           /\ returned[d] # None <=> pc'[d] = "close"
           /\ d \in rcv => pc'[d] = "wait"
           /\ pc'[d] = "wait" => (d \in rcv <=> td[d] = None)
           /\ td[d] # None => pc'[d] \in {"wait", "exit", "sweep"}
    BY <1>1, <1>3, <1>8 DEF HandsInv
  <2> QED BY <1>1, <1>3, <1>6, <2>1, <2>2, <2>3 DEF HandsInv
<1>18. RequestsInv'
  <2>1. ASSUME NEW d \in Clients PROVE FilledIn(d)'
    <3>1. CASE d = c
      BY <1>8, <3>1 DEF FilledIn
    <3>2. CASE d # c
      <4>1. pc[d] = "send" => held[d] \in Blocks /\ held[d] \notin MessagesIn(i)
        BY <1>1, <1>13 DEF HandsInv, TypeOK, HeaderInv
      <4> QED BY <1>1, <1>3, <1>6, <1>7, <1>8, <3>2, <4>1
              DEF FilledIn, RequestsInv
    <3> QED BY <3>1, <3>2
  <2>2. \A x \in Requests : content'[x] = content[x]
    BY <1>5, <1>7, RequestInUse, Names
  <2>3. \A x : x \in Requests' <=> x \in Requests
    BY <1>3, <1>6 DEF Requests, MessagesIn
  <2>4. \A d \in Clients : Waits(d) => d # c
    BY <1>3 DEF Waits
  <2> QED BY <1>6, <1>16, <2>1, <2>2, <2>3, <2>4, RequestsKept
<1> QED BY <1>5, <1>9, <1>10, <1>11, <1>12, <1>14, <1>15, <1>17, <1>18 DEF IInv

LEMMA SweepKeeps ==
  ASSUME IInv, NEW c \in Users, Sweep(c)
  PROVE  IInv'
<1>1. /\ TypeOK /\ StepInv /\ PoolInv /\ OwnerInv /\ HandsInv /\ RequestsInv
      /\ HeaderInv /\ OnceQueued /\ NoLeak
  BY DEF IInv
<1>2. c \in Clients /\ c # T /\ c # G /\ c # S /\ c # None
  BY Names
<1>3. /\ Runs(c) /\ pc[c] = "sweep" /\ Free(Owned(c))
      /\ td' = [td EXCEPT ![c] = None] /\ pc' = [pc EXCEPT ![c] = "none"]
      /\ UNCHANGED <<halted, pool, slot, blocks, QUEUED, qowner, q, rcv, active,
                     local_q, held, returned, gmsg, server>>
  BY DEF Sweep, At, Goto
<1> USE DEF server
<1>4. PICK B \in SUBSET Blocks : B = Owned(c)
  BY <1>1 DEF Owned, TypeOK
<1>5. \A x \in B : TD_PTR[x] = c /\ ~FREE[x] /\ ~QUEUED[x]
  BY <1>4 DEF Owned
<1>6. td[c] # None => td[c] \in B
  BY <1>1, <1>2, <1>4 DEF Owned, HeaderInv, TypeOK
<1>7. /\ free' \subseteq blocks /\ FREE' \in [Blocks -> BOOLEAN]
      /\ TD_PTR' \in [Blocks -> Clients \cup {S, None}]
      /\ content' \in [Blocks -> Bodies]
      /\ \A x \in Blocks : /\ FREE'[x] <=> x \in B \/ FREE[x]
                           /\ FREE'[x] <=> x \notin blocks \ free'
                           /\ x \notin B => /\ TD_PTR'[x] = TD_PTR[x]
                                            /\ content'[x] = content[x]
  BY <1>3, <1>4, <1>5, Freed
<1>8. /\ pc' \in [Clients -> Steps] /\ pc'[c] = "none"
      /\ \A d \in Clients : d # c => pc'[d] = pc[d]
  BY <1>1, <1>2, <1>3 DEF TypeOK, Steps
<1>9. /\ td' \in [Clients \cup {S} -> Blocks \cup {None}] /\ td'[c] = None
      /\ \A t \in Clients \cup {S} : t # c => td'[t] = td[t]
  BY <1>1, <1>2, <1>3 DEF TypeOK
<1>10. held[c] = None /\ c \notin rcv
  BY <1>1, <1>2, <1>3 DEF HandsInv
<1>11. TypeOK'
  BY <1>1, <1>3, <1>7, <1>8, <1>9 DEF TypeOK
<1>12. StepInv' /\ OwnerInv'
  BY <1>1, <1>2, <1>3, <1>8, Names DEF StepInv, OwnerInv
<1>13. PoolInv'
  <2>1. pool
    BY <1>1, <1>2, <1>3 DEF PoolInv
  <2> QED BY <1>1, <1>3, <1>8, <2>1 DEF PoolInv
<1>14. /\ \A d \in Clients : held[d] # None => held[d] \notin B
       /\ \A t \in Clients \cup {S} : t # c /\ td[t] # None => td[t] \notin B
       /\ cur # None => cur \notin B
       /\ gmsg # None => gmsg \notin B
  BY <1>1, <1>2, <1>5, <1>10 DEF HeaderInv
<1>15. HeaderInv'
  <2>1. \A x \in Blocks : QUEUED'[x] => ~FREE'[x]
    BY <1>1, <1>3, <1>5, <1>7 DEF HeaderInv
  <2>2. \A d \in Clients : held'[d] # None =>
          TD_PTR'[held'[d]] = d /\ ~FREE'[held'[d]] /\ ~QUEUED'[held'[d]]
    BY <1>1, <1>3, <1>7, <1>14 DEF HeaderInv, TypeOK
  <2>3. \A t \in Clients \cup {S} : td'[t] # None =>
          TD_PTR'[td'[t]] = t /\ ~FREE'[td'[t]] /\ ~QUEUED'[td'[t]]
    BY <1>1, <1>3, <1>7, <1>9, <1>14 DEF HeaderInv, TypeOK
  <2>4. /\ cur' # None => TD_PTR'[cur'] = S /\ ~FREE'[cur'] /\ ~QUEUED'[cur']
        /\ gmsg' # None =>
             TD_PTR'[gmsg'] = None /\ ~FREE'[gmsg'] /\ ~QUEUED'[gmsg']
    BY <1>1, <1>3, <1>7, <1>14 DEF HeaderInv, TypeOK
  <2>5. \A x \in Blocks : QUEUED'[x] <=> \E j \in QueueIds : x \in MessagesIn(j)'
    BY <1>1, <1>3, QueueSame DEF HeaderInv
  <2> QED BY <1>3, <1>7, <2>1, <2>2, <2>3, <2>4, <2>5 DEF HeaderInv
<1>16. OnceQueued' /\ NoLeak'
  <2>1. ASSUME NEW x \in Blocks, ~FREE'[x], ~QUEUED[x]
        PROVE  \/ x \in {gmsg, cur} \/ \E d \in Clients : held[d] = x
               \/ \E t \in Clients \cup {S} : td'[t] = x
    <3>1. x \notin B /\ ~FREE[x] /\ x # None
      BY <1>7, <2>1, Names
    <3>2. x # td[c]
      BY <1>6, <3>1
    <3> QED BY <1>1, <1>9, <2>1, <3>1, <3>2 DEF NoLeak
  <2> QED BY <1>1, <1>3, <2>1, QueueSame DEF NoLeak
<1>17. \A d \in Clients : Waits(d)' <=> Waits(d)
  BY <1>2, <1>3, <1>8, <1>9 DEF Waits
<1>18. HandsInv'
  <2>1. \A u \in Users : pc'[u] \in {"receive", "wait"} => Waits(u)'
    BY <1>1, <1>8, <1>17, Names DEF HandsInv
  <2>2. local_q[c] = None
    BY <1>1, <1>2, <1>3 DEF OwnerInv
  <2>3. \A d \in Clients, j \in Queues : local_q[d] = j /\ q[j] # <<>> =>
          td'[d] = None /\ pc'[d] \in {"receive", "exit"}
    BY <1>1, <1>8, <1>9, <2>2, Names DEF HandsInv
  <2>4. \A d \in Clients :
           /\ held[d] # None <=> pc'[d] \in {"send", "read"}
           /\ returned[d] # None <=> pc'[d] = "close"
           /\ d \in rcv => pc'[d] = "wait"
           /\ pc'[d] = "wait" => (d \in rcv <=> td'[d] = None)
           /\ td'[d] # None => pc'[d] \in {"wait", "exit", "sweep"}
    BY <1>1, <1>3, <1>8, <1>9, <1>10 DEF HandsInv
  <2> QED BY <1>1, <1>2, <1>3, <1>9, <2>1, <2>3, <2>4 DEF HandsInv
<1>19. RequestsInv'
  <2>1. ASSUME NEW d \in Clients PROVE FilledIn(d)'
    <3>1. CASE d = c
      BY <1>8, <3>1 DEF FilledIn
    <3>2. CASE d # c
      <4>1. pc[d] = "send" => held[d] \in Blocks /\ held[d] \notin B
        BY <1>1, <1>14 DEF HandsInv, TypeOK
      <4> QED BY <1>1, <1>3, <1>7, <1>8, <3>2, <4>1 DEF FilledIn, RequestsInv
    <3> QED BY <3>1, <3>2
  <2>2. ASSUME NEW x \in Requests PROVE content'[x] = content[x]
    <3>1. x \in Blocks
      BY RequestInUse
    <3>2. x \notin B
      BY <1>1, <1>2, <1>5, <1>14, <3>1, RequestPlaces, Names DEF HeaderInv
    <3> QED BY <1>7, <3>1, <3>2
  <2>3. \A x : x \in Requests' <=> x \in Requests
    BY <1>2, <1>3, <1>9, Names DEF Requests, MessagesIn
  <2> QED BY <1>3, <1>17, <2>1, <2>2, <2>3, RequestsKept
<1> QED BY <1>11, <1>12, <1>13, <1>15, <1>16, <1>18, <1>19 DEF IInv

-----------------------------------------------------------------------------
(***************************************************************************)
(* The generator between its calls, and the button.                        *)
(***************************************************************************)
LEMMA ReleaseOrDelayKeeps ==
  ASSUME IInv, ReleaseOrDelay
  PROVE  IInv'
<1>1. /\ TypeOK /\ StepInv /\ PoolInv /\ OwnerInv /\ HandsInv /\ RequestsInv
      /\ HeaderInv
  BY DEF IInv
<1>2. /\ Runs(G) /\ pc[G] = "loop"
      /\ UNCHANGED <<halted, pools, qowner, q, rcv, td, local_q, held, returned,
                     gmsg, server>>
  BY DEF ReleaseOrDelay, At
<1>3. PICK s \in {"open", "delay"} : /\ pc' = [pc EXCEPT ![G] = s]
                                     /\ Keep(G) \/ Leave(G)
                                     /\ s = "delay" => gmsg = None
  BY <1>1, <1>2 DEF ReleaseOrDelay, Goto, StepInv
<1> USE DEF pools, server
<1>4. /\ pc' \in [Clients -> Steps] /\ pc'[G] = s
      /\ \A d \in Clients : d # G => pc'[d] = pc[d]
  BY <1>1, <1>3, Names DEF TypeOK, Steps
<1>5. active' \in {T, G, None} /\ \A d \in Clients : pc'[d] # "create"
  BY <1>2, <1>3, <1>4, Running, Names DEF Keep, Leave
<1>6. TypeOK'
  BY <1>1, <1>2, <1>4, <1>5 DEF TypeOK
<1>7. StepInv'
  BY <1>1, <1>2, <1>3, <1>4, Names DEF StepInv
<1>8. OwnerInv'
  <2>1. ASSUME NEW d \in Clients
        PROVE  local_q[d] = None <=> pc'[d] \in
                 {"none", "run", "idle", "delay", "loop", "open", "sweep"}
    <3>1. CASE d = G
      BY <1>1, <1>2, <1>4, <3>1 DEF OwnerInv
    <3>2. CASE d # G
      BY <1>1, <1>4, <3>2 DEF OwnerInv
    <3> QED BY <3>1, <3>2
  <2> QED BY <1>1, <1>2, <2>1 DEF OwnerInv
<1>9. PoolInv'
  BY <1>1, <1>2, <1>4, <1>5, Names DEF PoolInv
<1>10. HeaderInv' /\ OnceQueued' /\ NoLeak'
  BY <1>1, <1>2, BlocksKept DEF HeaderInv
<1>11. \A d \in Clients : (Waits(d)' <=> Waits(d)) /\ FilledIn(d)'
  BY <1>1, <1>2, <1>4 DEF Waits, FilledIn, RequestsInv
<1>12. HandsInv'
  <2>1. \A u \in Users : pc'[u] \in {"receive", "wait"} => Waits(u)'
    BY <1>1, <1>4, <1>11, Names DEF HandsInv
  <2> QED BY <1>1, <1>2, <1>4, <2>1, Names DEF HandsInv
<1>13. RequestsInv'
  BY <1>2, <1>11, RequestsKept, RequestsSame
<1> QED BY <1>6, <1>7, <1>8, <1>9, <1>10, <1>12, <1>13 DEF IInv

LEMMA PollKeeps ==
  ASSUME IInv, Poll
  PROVE  IInv'
<1>1. /\ TypeOK /\ StepInv /\ PoolInv /\ OwnerInv /\ HandsInv /\ RequestsInv
      /\ HeaderInv /\ OnceQueued /\ NoLeak
  BY DEF IInv
<1>2. /\ Runs(G) /\ pc[G] = "delay" /\ Keep(G)
      /\ UNCHANGED <<halted, pool, slot, blocks, free, FREE, content, qowner,
                     rcv, td, local_q, held, returned, server>>
  BY DEF Poll, At
<1> USE DEF server
<1>3. gmsg = None
  BY <1>1, <1>2 DEF StepInv
<1>4. active' \in {T, G, None} /\ active' = G
  BY <1>2, Running, Names
<1>5. PICK s \in {"loop", "open"} : /\ pc' = [pc EXCEPT ![G] = s]
                                    /\ s = IF q[GQ] = <<>> THEN "loop" ELSE "open"
  BY DEF Poll, Goto
<1>6. /\ pc' \in [Clients -> Steps] /\ pc'[G] = s
      /\ \A d \in Clients : d # G => pc'[d] = pc[d]
  BY <1>1, <1>5, Names DEF TypeOK, Steps
<1>7. \A d \in Clients : pc'[d] # "create"
  BY <1>2, <1>6, Running, Names
<1>8. \A d \in Clients : local_q[d] = None <=> pc'[d] \in
                 {"none", "run", "idle", "delay", "loop", "open", "sweep"}
  <2>1. ASSUME NEW d \in Clients
        PROVE  local_q[d] = None <=> pc'[d] \in
                 {"none", "run", "idle", "delay", "loop", "open", "sweep"}
    <3>1. CASE d = G
      BY <1>1, <1>2, <1>6, <3>1 DEF OwnerInv
    <3>2. CASE d # G
      BY <1>1, <1>6, <3>2 DEF OwnerInv
    <3> QED BY <3>1, <3>2
  <2> QED BY <2>1
<1>9. CASE q[GQ] = <<>>
  <2>1. UNCHANGED <<gmsg, q, QUEUED, TD_PTR>>
    BY <1>9 DEF Poll
  <2>2. TypeOK'
    BY <1>1, <1>2, <1>4, <1>6, <2>1 DEF TypeOK
  <2>3. StepInv'
    BY <1>1, <1>3, <1>6, <2>1, Names DEF StepInv
  <2>4. OwnerInv'
    BY <1>1, <1>2, <1>8, <2>1 DEF OwnerInv
  <2>5. PoolInv'
    BY <1>1, <1>2, <1>6, <1>7, <2>1, Names DEF PoolInv
  <2>6. HeaderInv' /\ OnceQueued' /\ NoLeak'
    BY <1>1, <1>2, <2>1, BlocksKept DEF HeaderInv
  <2>7. \A d \in Clients : (Waits(d)' <=> Waits(d)) /\ FilledIn(d)'
    BY <1>1, <1>2, <1>6, <2>1 DEF Waits, FilledIn, RequestsInv
  <2>8. HandsInv'
    <3>1. \A u \in Users : pc'[u] \in {"receive", "wait"} => Waits(u)'
      BY <1>1, <1>6, <2>7, Names DEF HandsInv
    <3> QED BY <1>1, <1>2, <1>6, <2>1, <3>1, Names DEF HandsInv
  <2>9. RequestsInv'
    BY <1>2, <2>1, <2>7, RequestsKept, RequestsSame
  <2> QED BY <2>2, <2>3, <2>4, <2>5, <2>6, <2>8, <2>9 DEF IInv
<1>10. CASE q[GQ] # <<>>
  <2> DEFINE b == Head(q[GQ])
  <2>1. /\ gmsg' = b /\ q' = [q EXCEPT ![GQ] = Tail(@)]
        /\ QUEUED' = [QUEUED EXCEPT ![b] = FALSE]
        /\ TD_PTR' = [TD_PTR EXCEPT ![b] = None]
    BY <1>10 DEF Poll, Dequeue
  <2>2. /\ q' \in [QueueIds -> Seq(Blocks)] /\ OnceQueued'
        /\ b \in Blocks /\ b \in MessagesIn(GQ)
        /\ \A j \in QueueIds : j # GQ => q'[j] = q[j]
        /\ \A j \in QueueIds : \A x :
             x \in MessagesIn(j)' <=> x \in MessagesIn(j) /\ x # b
    BY <1>1, <1>10, <2>1, QueueTail, Names
  <2>3. QUEUED[b] /\ ~FREE[b] /\ b # None
    BY <1>1, <2>2, Names DEF HeaderInv
  <2>4. /\ QUEUED' \in [Blocks -> BOOLEAN]
        /\ TD_PTR' \in [Blocks -> Clients \cup {S, None}]
        /\ ~QUEUED'[b] /\ TD_PTR'[b] = None
        /\ \A x \in Blocks : x # b => /\ QUEUED'[x] = QUEUED[x]
                                      /\ TD_PTR'[x] = TD_PTR[x]
    BY <1>1, <2>1, <2>2 DEF TypeOK
  <2>5. \A j \in Queues \cup {SQ} : q'[j] = q[j]
    BY <2>2, Names
  <2>6. pool
    BY <1>1, <1>10 DEF PoolInv
  <2>7. TypeOK'
    BY <1>1, <1>2, <1>4, <1>6, <2>1, <2>2, <2>4 DEF TypeOK
  <2>8. StepInv'
    BY <1>1, <1>5, <1>6, <1>10, Names DEF StepInv
  <2>9. OwnerInv'
    BY <1>1, <1>2, <1>8, <2>5 DEF OwnerInv
  <2>10. PoolInv'
    BY <1>1, <1>2, <1>7, <2>6 DEF PoolInv
  <2>11. /\ \A d \in Clients : held[d] # b
         /\ \A t \in Clients \cup {S} : td[t] # b
         /\ b # cur
    BY <1>1, <2>3 DEF HeaderInv
  <2>12. HeaderInv'
    <3>1. \A x \in Blocks : QUEUED'[x] <=> \E j \in QueueIds : x \in MessagesIn(j)'
      BY <1>1, <2>2, <2>4 DEF HeaderInv
    <3>2. \A x \in Blocks : QUEUED'[x] => ~FREE'[x]
      BY <1>1, <1>2, <2>3, <2>4 DEF HeaderInv
    <3>3. \A d \in Clients : held'[d] # None =>
            TD_PTR'[held'[d]] = d /\ ~FREE'[held'[d]] /\ ~QUEUED'[held'[d]]
      BY <1>1, <1>2, <2>4, <2>11 DEF HeaderInv, TypeOK
    <3>4. \A t \in Clients \cup {S} : td'[t] # None =>
            TD_PTR'[td'[t]] = t /\ ~FREE'[td'[t]] /\ ~QUEUED'[td'[t]]
      BY <1>1, <1>2, <2>4, <2>11 DEF HeaderInv, TypeOK
    <3>5. /\ cur' # None => TD_PTR'[cur'] = S /\ ~FREE'[cur'] /\ ~QUEUED'[cur']
          /\ TD_PTR'[gmsg'] = None /\ ~FREE'[gmsg'] /\ ~QUEUED'[gmsg']
      BY <1>1, <1>2, <2>1, <2>3, <2>4, <2>11 DEF HeaderInv, TypeOK
    <3> QED BY <1>1, <1>2, <3>1, <3>2, <3>3, <3>4, <3>5 DEF HeaderInv
  <2>13. NoLeak'
    <3>1. ASSUME NEW x \in Blocks, ~FREE[x], ~QUEUED'[x]
          PROVE  \/ x \in {gmsg', cur} \/ \E d \in Clients : held[d] = x
                 \/ \E t \in Clients \cup {S} : td[t] = x
      <4>1. CASE x = b
        BY <2>1, <4>1
      <4>2. CASE x # b
        BY <1>1, <1>3, <2>4, <3>1, <4>2, Names DEF NoLeak
      <4> QED BY <4>1, <4>2
    <3> QED BY <1>2, <3>1 DEF NoLeak
  <2>14. ASSUME NEW d \in Clients PROVE Waits(d)' <=> Waits(d)
    <3>1. pc[d] \in {"receive", "wait"} => local_q[d] \in Queues
      <4>1. pc[d] \in {"receive", "wait"} => local_q[d] # None
        BY <1>1 DEF OwnerInv
      <4> QED BY <1>1, <4>1 DEF TypeOK
    <3> QED BY <1>2, <1>6, <2>5, <3>1 DEF Waits
  <2>15. HandsInv'
    <3>1. \A u \in Users : pc'[u] \in {"receive", "wait"} => Waits(u)'
      BY <1>1, <1>6, <2>14, Names DEF HandsInv
    <3>2. \A d \in Clients, j \in Queues : local_q[d] = j /\ q'[j] # <<>> =>
            td[d] = None /\ pc'[d] \in {"receive", "exit"}
      BY <1>1, <1>2, <1>6, <2>5 DEF HandsInv
    <3> QED BY <1>1, <1>2, <1>6, <2>5, <3>1, <3>2, Names DEF HandsInv
  <2>16. RequestsInv'
    <3>1. \A d \in Clients : FilledIn(d)'
      BY <1>1, <1>2, <1>6 DEF FilledIn, RequestsInv
    <3>2. \A x : x \in Requests' <=> x \in Requests
      BY <1>2, <2>5 DEF Requests, MessagesIn
    <3> QED BY <1>2, <2>14, <3>1, <3>2, RequestsKept
  <2> QED BY <2>2, <2>7, <2>8, <2>9, <2>10, <2>12, <2>13, <2>15, <2>16 DEF IInv
<1> QED BY <1>9, <1>10

LEMMA ButtonPressKeeps ==
  ASSUME IInv, ButtonPress
  PROVE  IInv'
<1>1. /\ TypeOK /\ StepInv /\ PoolInv /\ OwnerInv /\ HandsInv /\ RequestsInv
      /\ HeaderInv /\ OnceQueued /\ NoLeak
  BY DEF IInv
<1>2. UNCHANGED <<qowner, active, callers, server>>
  BY DEF ButtonPress
<1> USE DEF pools, callers, server
<1>3. CASE halted' # halted
  <2>1. halted' \in Halts /\ UNCHANGED <<pools, q, td, rcv>>
    BY <1>3 DEF ButtonPress, Halts
  <2>2. TypeOK' /\ StepInv' /\ PoolInv' /\ OwnerInv'
    BY <1>1, <1>2, <2>1 DEF TypeOK, StepInv, PoolInv, OwnerInv
  <2>3. HeaderInv' /\ OnceQueued' /\ NoLeak'
    BY <1>1, <1>2, <2>1, BlocksKept DEF HeaderInv
  <2>4. \A d \in Clients : (Waits(d)' <=> Waits(d)) /\ FilledIn(d)'
    BY <1>1, <1>2, <2>1 DEF Waits, FilledIn, RequestsInv
  <2>5. HandsInv'
    <3>1. \A u \in Users : pc'[u] \in {"receive", "wait"} => Waits(u)'
      BY <1>1, <1>2, <2>4, Names DEF HandsInv
    <3> QED BY <1>1, <1>2, <2>1, <3>1 DEF HandsInv
  <2>6. RequestsInv'
    BY <1>2, <2>1, <2>4, RequestsKept, RequestsSame
  <2> QED BY <2>2, <2>3, <2>5, <2>6 DEF IInv
<1>4. CASE halted' = halted
  <2>1. PICK more \in SUBSET RequestBlocks :
          /\ pool => more \subseteq RequestBlocks \ blocks
          /\ pool /\ \E b \in (free \cup more) \cap RequestBlocks :
               /\ blocks' = blocks \cup more
               /\ content' = [content EXCEPT ![b] = EmptyBody]
               /\ IF HasRoom(GQ)
                    THEN /\ free' = (free \cup more) \ {b}
                         /\ FREE' = [FREE EXCEPT ![b] = FALSE]
                         /\ QUEUED' = [QUEUED EXCEPT ![b] = TRUE]
                         /\ q' = [q EXCEPT ![GQ] = Append(@, b)]
                    ELSE free' = free \cup more /\ UNCHANGED <<FREE, QUEUED, q>>
               /\ TD_PTR' = [TD_PTR EXCEPT ![b] = None]
               /\ UNCHANGED <<halted, pool, slot, td, rcv>>
    <3>1. halted # "button assert"
      BY DEF ButtonPress
    <3> QED BY <1>4, <3>1 DEF ButtonPress, Grow, Add
  <2>2. PICK b \in (free \cup more) \cap RequestBlocks :
               /\ blocks' = blocks \cup more
               /\ content' = [content EXCEPT ![b] = EmptyBody]
               /\ IF HasRoom(GQ)
                    THEN /\ free' = (free \cup more) \ {b}
                         /\ FREE' = [FREE EXCEPT ![b] = FALSE]
                         /\ QUEUED' = [QUEUED EXCEPT ![b] = TRUE]
                         /\ q' = [q EXCEPT ![GQ] = Append(@, b)]
                    ELSE free' = free \cup more /\ UNCHANGED <<FREE, QUEUED, q>>
               /\ TD_PTR' = [TD_PTR EXCEPT ![b] = None]
               /\ UNCHANGED <<halted, pool, slot, td, rcv>>
    BY <2>1
  <2>3. b \in Blocks /\ b # None /\ FREE[b] /\ ~QUEUED[b]
    BY <1>1, <2>1, Names DEF HeaderInv
  <2>4. /\ content' \in [Blocks -> Bodies]
        /\ TD_PTR' \in [Blocks -> Clients \cup {S, None}]
        /\ \A x \in Blocks : x # b => /\ TD_PTR'[x] = TD_PTR[x]
                                      /\ content'[x] = content[x]
    <3>1. EmptyBody \in Bodies
      BY Names DEF EmptyBody, Bodies, Answers
    <3> QED BY <1>1, <2>2, <2>3, <3>1 DEF TypeOK
  <2>5. blocks' \subseteq Blocks /\ free' \subseteq blocks' /\ blocks \subseteq blocks'
    BY <1>1, <2>1, <2>2, Names DEF TypeOK, HeaderInv
  <2>6. /\ \A d \in Clients : held[d] # b
        /\ \A t \in Clients \cup {S} : td[t] # b
        /\ b # cur /\ b # gmsg
    BY <1>1, <2>3 DEF HeaderInv
  <2>7. /\ q' \in [QueueIds -> Seq(Blocks)] /\ OnceQueued'
        /\ \A j \in QueueIds : j # GQ => q'[j] = q[j]
        /\ QUEUED' \in [Blocks -> BOOLEAN] /\ FREE' \in [Blocks -> BOOLEAN]
        /\ \A x \in Blocks : x # b => QUEUED'[x] = QUEUED[x] /\ FREE'[x] = FREE[x]
        /\ \A x \in Blocks : QUEUED'[x] <=> \E j \in QueueIds : x \in MessagesIn(j)'
        /\ \A x \in Blocks : FREE'[x] <=> x \notin blocks' \ free'
        /\ FREE'[b] <=> ~QUEUED'[b]
    <3>1. CASE HasRoom(GQ)
      <4>1. /\ free' = (free \cup more) \ {b}
            /\ FREE' = [FREE EXCEPT ![b] = FALSE]
            /\ QUEUED' = [QUEUED EXCEPT ![b] = TRUE]
            /\ q' = [q EXCEPT ![GQ] = Append(@, b)]
        BY <2>2, <3>1
      <4>2. \A j \in QueueIds : b \notin MessagesIn(j)
        BY <1>1, <2>3 DEF HeaderInv
      <4>3. /\ q' \in [QueueIds -> Seq(Blocks)] /\ OnceQueued'
            /\ \A j \in QueueIds : j # GQ => q'[j] = q[j]
            /\ \A j \in QueueIds : \A x :
                 x \in MessagesIn(j)' <=> x \in MessagesIn(j) \/ (j = GQ /\ x = b)
        <5>1. /\ TypeOK /\ OnceQueued /\ GQ \in QueueIds /\ b \in Blocks
              /\ q' = [q EXCEPT ![GQ] = Append(@, b)]
          BY <1>1, <2>3, <4>1, Names
        <5> QED BY <4>2, <5>1, QueueAppend
      <4>4. /\ QUEUED' \in [Blocks -> BOOLEAN] /\ FREE' \in [Blocks -> BOOLEAN]
            /\ QUEUED'[b] /\ ~FREE'[b]
            /\ \A x \in Blocks : x # b => QUEUED'[x] = QUEUED[x] /\ FREE'[x] = FREE[x]
        BY <1>1, <2>3, <4>1 DEF TypeOK
      <4>5. \A x \in Blocks : QUEUED'[x] <=> \E j \in QueueIds : x \in MessagesIn(j)'
        BY <1>1, <4>3, <4>4, Names DEF HeaderInv
      <4>6. \A x \in Blocks : FREE'[x] <=> x \notin blocks' \ free'
        BY <1>1, <2>1, <2>2, <4>1, <4>4 DEF HeaderInv
      <4> QED BY <4>3, <4>4, <4>5, <4>6
    <3>2. CASE ~HasRoom(GQ)
      <4>1. free' = free \cup more /\ UNCHANGED <<FREE, QUEUED, q>>
        BY <2>2, <3>2
      <4>2. \A x \in Blocks : FREE'[x] <=> x \notin blocks' \ free'
        BY <1>1, <2>1, <2>2, <4>1 DEF HeaderInv
      <4>3. \A x \in Blocks : QUEUED'[x] <=> \E j \in QueueIds : x \in MessagesIn(j)'
        BY <1>1, <4>1, QueueSame DEF HeaderInv
      <4> QED BY <1>1, <2>3, <4>1, <4>2, <4>3, QueueSame DEF TypeOK
    <3> QED BY <3>1, <3>2
  <2>8. TypeOK'
    BY <1>1, <1>2, <2>2, <2>4, <2>5, <2>7 DEF TypeOK
  <2>9. \A j \in Queues \cup {SQ} : q'[j] = q[j]
    BY <2>7, Names
  <2>10. StepInv' /\ OwnerInv'
    BY <1>1, <1>2, <2>9 DEF StepInv, OwnerInv
  <2>11. PoolInv'
    BY <1>1, <1>2, <2>1, <2>2 DEF PoolInv
  <2>12. HeaderInv'
    <3>1. \A x \in Blocks : QUEUED'[x] => ~FREE'[x]
      BY <1>1, <2>7 DEF HeaderInv
    <3>2. \A d \in Clients : held'[d] # None =>
            TD_PTR'[held'[d]] = d /\ ~FREE'[held'[d]] /\ ~QUEUED'[held'[d]]
      BY <1>1, <1>2, <2>4, <2>6, <2>7 DEF HeaderInv, TypeOK
    <3>3. \A t \in Clients \cup {S} : td'[t] # None =>
            TD_PTR'[td'[t]] = t /\ ~FREE'[td'[t]] /\ ~QUEUED'[td'[t]]
      BY <1>1, <2>2, <2>4, <2>6, <2>7 DEF HeaderInv, TypeOK
    <3>4. /\ cur' # None => TD_PTR'[cur'] = S /\ ~FREE'[cur'] /\ ~QUEUED'[cur']
          /\ gmsg' # None =>
               TD_PTR'[gmsg'] = None /\ ~FREE'[gmsg'] /\ ~QUEUED'[gmsg']
      BY <1>1, <1>2, <2>4, <2>6, <2>7 DEF HeaderInv, TypeOK
    <3> QED BY <2>5, <2>7, <3>1, <3>2, <3>3, <3>4 DEF HeaderInv
  <2>13. NoLeak'
    <3>1. \A x \in Blocks : ~FREE'[x] /\ ~QUEUED'[x] => ~FREE[x] /\ ~QUEUED[x]
      BY <2>7
    <3> QED BY <1>1, <1>2, <2>2, <3>1 DEF NoLeak
  <2>14. ASSUME NEW d \in Clients PROVE Waits(d)' <=> Waits(d)
    <3>1. pc[d] \in {"receive", "wait"} => local_q[d] \in Queues
      <4>1. pc[d] \in {"receive", "wait"} => local_q[d] # None
        BY <1>1 DEF OwnerInv
      <4> QED BY <1>1, <4>1 DEF TypeOK
    <3> QED BY <1>2, <2>2, <2>9, <3>1 DEF Waits
  <2>15. HandsInv'
    <3>1. \A u \in Users : pc'[u] \in {"receive", "wait"} => Waits(u)'
      BY <1>1, <1>2, <2>14, Names DEF HandsInv
    <3> QED BY <1>1, <1>2, <2>2, <2>9, <3>1 DEF HandsInv
  <2>16. RequestsInv'
    <3>1. ASSUME NEW d \in Clients PROVE FilledIn(d)'
      <4>1. pc[d] = "send" => held[d] \in Blocks /\ held[d] # b
        BY <1>1, <2>6 DEF HandsInv, TypeOK
      <4> QED BY <1>1, <1>2, <2>4, <4>1 DEF FilledIn, RequestsInv
    <3>2. \A x : x \in Requests' <=> x \in Requests
      BY <1>2, <2>2, <2>9 DEF Requests, MessagesIn
    <3>3. \A x \in Requests : content'[x] = content[x]
      BY <2>3, <2>4, RequestInUse
    <3> QED BY <1>2, <2>14, <3>1, <3>2, <3>3, RequestsKept
  <2> QED BY <2>7, <2>8, <2>10, <2>11, <2>12, <2>13, <2>15, <2>16 DEF IInv
<1> QED BY <1>3, <1>4

-----------------------------------------------------------------------------
(***************************************************************************)
(* Scheduler_task.                                                         *)
(***************************************************************************)
LEMMA SleepForRequestKeeps ==
  ASSUME IInv, SleepForRequest
  PROVE  IInv'
<1>1. /\ TypeOK /\ StepInv /\ PoolInv /\ OwnerInv /\ HandsInv /\ RequestsInv
      /\ HeaderInv
  BY DEF IInv
<1>2. /\ spc = "receive" /\ td[S] = None /\ q[SQ] = <<>> /\ rcv' = rcv \cup {S}
      /\ UNCHANGED <<halted, pools, qowner, q, td, active, callers, server>>
  BY DEF SleepForRequest
<1> USE DEF pools, callers, server
<1>3. TypeOK' /\ StepInv' /\ PoolInv' /\ OwnerInv'
  BY <1>1, <1>2 DEF TypeOK, StepInv, PoolInv, OwnerInv
<1>4. HeaderInv' /\ OnceQueued' /\ NoLeak'
  BY <1>1, <1>2, BlocksKept DEF HeaderInv
<1>5. \A d \in Clients : (Waits(d)' <=> Waits(d)) /\ FilledIn(d)'
  BY <1>1, <1>2 DEF Waits, FilledIn, RequestsInv
<1>6. HandsInv'
  <2>1. \A u \in Users : pc'[u] \in {"receive", "wait"} => Waits(u)'
    BY <1>1, <1>2, <1>5, Names DEF HandsInv
  <2>2. \A d \in Clients : d \in rcv' <=> d \in rcv
    BY <1>2, Names
  <2> QED BY <1>1, <1>2, <2>1, <2>2 DEF HandsInv
<1>7. RequestsInv'
  BY <1>2, <1>5, RequestsKept, RequestsSame
<1> QED BY <1>3, <1>4, <1>6, <1>7 DEF IInv

LEMMA UnblockKeeps ==
  ASSUME IInv, Unblock
  PROVE  IInv'
<1>1. /\ TypeOK /\ StepInv /\ PoolInv /\ OwnerInv /\ HandsInv /\ RequestsInv
      /\ HeaderInv
  BY DEF IInv
<1>2. /\ spc = "blocked" /\ spc' = "reply"
      /\ UNCHANGED <<halted, pools, kernel, callers, cur>>
  BY DEF Unblock
<1> USE DEF pools, kernel, callers
<1>3. TypeOK' /\ StepInv' /\ PoolInv' /\ OwnerInv'
  BY <1>1, <1>2 DEF TypeOK, StepInv, PoolInv, OwnerInv
<1>4. HeaderInv' /\ OnceQueued' /\ NoLeak'
  BY <1>1, <1>2, BlocksKept DEF HeaderInv
<1>5. \A d \in Clients : (Waits(d)' <=> Waits(d)) /\ FilledIn(d)'
  BY <1>1, <1>2 DEF Waits, FilledIn, RequestsInv
<1>6. HandsInv'
  <2>1. \A u \in Users : pc'[u] \in {"receive", "wait"} => Waits(u)'
    BY <1>1, <1>2, <1>5, Names DEF HandsInv
  <2> QED BY <1>1, <1>2, <2>1 DEF HandsInv
<1>7. RequestsInv'
  BY <1>2, <1>5, RequestsKept, RequestsSame
<1> QED BY <1>3, <1>4, <1>6, <1>7 DEF IInv

LEMMA WorkKeeps ==
  ASSUME IInv, Work
  PROVE  IInv'
<1>1. /\ TypeOK /\ StepInv /\ PoolInv /\ OwnerInv /\ HandsInv /\ RequestsInv
      /\ HeaderInv
  BY DEF IInv
<1>2. /\ spc = "work" /\ spc' \in {"blocked", "reply"}
      /\ UNCHANGED <<halted, pool, slot, blocks, free, FREE, QUEUED, TD_PTR,
                     kernel, local_q, held, returned, gmsg, cur>>
  BY DEF Work
<1> USE DEF kernel
<1>3. PICK result \in Answers :
        /\ content' = [content EXCEPT ![cur].result = result]
        /\ \/ \E u \in Users :
                pc[u] = "none" /\ pc' = [pc EXCEPT ![u] = "run"]
           \/ UNCHANGED pc
  BY DEF Work
<1>4. cur \in Blocks
  BY <1>1, <1>2 DEF HandsInv, TypeOK
<1>5. /\ content' \in [Blocks -> Bodies]
      /\ \A x \in Blocks : /\ content'[x].client = content[x].client
                           /\ content'[x].qid = content[x].qid
  <2>1. content \in [Blocks -> Bodies]
    BY <1>1 DEF TypeOK
  <2>2. ASSUME NEW x \in Blocks
        PROVE  /\ content[x] \in Bodies /\ content'[x] \in Bodies
               /\ content'[x].client = content[x].client
               /\ content'[x].qid = content[x].qid
    <3>1. content[x] \in Bodies
      BY <2>1
    <3>2. CASE x # cur
      BY <1>3, <2>1, <3>1, <3>2
    <3>3. CASE x = cur
      <4>1. content'[x] = [content[x] EXCEPT !.result = result]
        BY <1>3, <2>1, <3>3
      <4> QED BY <3>1, <4>1 DEF Bodies
    <3> QED BY <3>2, <3>3
  <2>3. content' \in [Blocks -> Bodies]
    <3>1. content' = [x \in Blocks |-> content'[x]]
      BY <1>3, <2>1
    <3> QED BY <2>2, <3>1
  <2> QED BY <2>2, <2>3
<1>6. /\ pc' \in [Clients -> Steps]
      /\ \A d \in Clients : \/ pc'[d] = pc[d]
                            \/ d \in Users /\ pc[d] = "none" /\ pc'[d] = "run"
  <2>1. CASE UNCHANGED pc
    BY <1>1, <2>1 DEF TypeOK
  <2>2. ASSUME NEW u \in Users, pc[u] = "none", pc' = [pc EXCEPT ![u] = "run"]
        PROVE  /\ pc' \in [Clients -> Steps]
               /\ \A d \in Clients :
                    \/ pc'[d] = pc[d]
                    \/ d \in Users /\ pc[d] = "none" /\ pc'[d] = "run"
    <3>1. u \in Clients
      BY Names
    <3> QED BY <1>1, <2>2, <3>1 DEF TypeOK, Steps
  <2> QED BY <1>3, <2>1, <2>2
<1>7. TypeOK'
  BY <1>1, <1>2, <1>5, <1>6 DEF TypeOK
<1>8. StepInv' /\ OwnerInv'
  <2>1. StepInv'
    BY <1>1, <1>2, <1>6, Names DEF StepInv
  <2>2. OwnerInv'
    BY <1>1, <1>2, <1>6 DEF OwnerInv
  <2> QED BY <2>1, <2>2
<1>9. PoolInv'
  BY <1>1, <1>2, <1>6 DEF PoolInv
<1>10. HeaderInv' /\ OnceQueued' /\ NoLeak'
  BY <1>1, <1>2, BlocksKept DEF HeaderInv
<1>11. \A d \in Clients : Waits(d)' <=> Waits(d)
  BY <1>2, <1>6 DEF Waits
<1>12. HandsInv'
  <2>1. \A u \in Users : pc'[u] \in {"receive", "wait"} => Waits(u)'
    BY <1>1, <1>6, <1>11, Names DEF HandsInv
  <2>2. ASSUME NEW d \in Clients
        PROVE  /\ held[d] # None <=> pc'[d] \in {"send", "read"}
               /\ returned[d] # None <=> pc'[d] = "close"
               /\ d \in rcv => pc'[d] = "wait"
               /\ pc'[d] = "wait" => (d \in rcv <=> td[d] = None)
               /\ td[d] # None => pc'[d] \in {"wait", "exit", "sweep"}
               /\ \A i \in Queues : local_q[d] = i /\ q[i] # <<>> =>
                    td[d] = None /\ pc'[d] \in {"receive", "exit"}
    <3>1. CASE pc'[d] = pc[d]
      BY <1>1, <3>1 DEF HandsInv
    <3>2. CASE pc[d] = "none" /\ pc'[d] = "run"
      BY <1>1, <3>2 DEF HandsInv
    <3> QED BY <1>6, <3>1, <3>2
  <2> QED BY <1>1, <1>2, <2>1, <2>2 DEF HandsInv
<1>13. RequestsInv'
  <2>1. ASSUME NEW d \in Clients PROVE FilledIn(d)'
    <3>1. pc'[d] = "send" => pc[d] = "send"
      BY <1>6
    <3>2. pc[d] = "send" => held[d] \in Blocks
      BY <1>1 DEF HandsInv, TypeOK
    <3> QED BY <1>1, <1>2, <1>5, <3>1, <3>2 DEF FilledIn, RequestsInv
  <2>2. \A x \in Requests : /\ content'[x].client = content[x].client
                            /\ content'[x].qid = content[x].qid
    BY <1>5, RequestInUse
  <2> QED BY <1>2, <1>11, <2>1, <2>2, RequestsKept, RequestsSame
<1> QED BY <1>7, <1>8, <1>9, <1>10, <1>12, <1>13 DEF IInv

(* The scheduler finds the next request in its descriptor or on its queue. *)
LEMMA NextRequest ==
  ASSUME IInv, TakeRequest, NEW b,
         b = IF td[S] # None THEN td[S] ELSE Head(q[SQ])
  PROVE  /\ b \in Requests /\ b \in Blocks /\ b # None /\ ~FREE[b]
         /\ q' \in [QueueIds -> Seq(Blocks)] /\ OnceQueued'
         /\ td' \in [Clients \cup {S} -> Blocks \cup {None}] /\ td'[S] = None
         /\ \A d \in Clients : td'[d] = td[d]
         /\ \A j \in QueueIds : j # SQ => q'[j] = q[j]
         /\ \A j \in QueueIds : \A x :
              x \in MessagesIn(j)' <=> x \in MessagesIn(j) /\ x # b
         /\ \A x : x \in Requests <=> x = b \/ x \in MessagesIn(SQ)'
<1>1. /\ TypeOK /\ HandsInv /\ HeaderInv /\ OnceQueued
  BY DEF IInv
<1>2. /\ spc = "receive" /\ (td[S] # None \/ q[SQ] # <<>>)
      /\ td' = [td EXCEPT ![S] = None]
      /\ q' = IF td[S] # None THEN q ELSE [q EXCEPT ![SQ] = Tail(@)]
  BY DEF TakeRequest
<1>3. cur = None
  BY <1>1, <1>2 DEF HandsInv
<1>4. b \in Requests
  BY <1>1, <1>2, EmptyQueue, Names DEF Requests
<1>5. b \in Blocks /\ b # None /\ ~FREE[b]
  BY <1>4, RequestInUse, Names
<1>6. /\ td' \in [Clients \cup {S} -> Blocks \cup {None}] /\ td'[S] = None
      /\ \A d \in Clients : td'[d] = td[d]
  BY <1>1, <1>2, Names DEF TypeOK
<1>7. /\ q' \in [QueueIds -> Seq(Blocks)] /\ OnceQueued'
      /\ \A j \in QueueIds : j # SQ => q'[j] = q[j]
      /\ \A j \in QueueIds : \A x :
           x \in MessagesIn(j)' <=> x \in MessagesIn(j) /\ x # b
  <2>1. CASE td[S] # None
    <3>1. q' = q /\ b = td[S]
      BY <1>2, <2>1
    <3>2. ~QUEUED[b]
      BY <1>1, <2>1, <3>1 DEF HeaderInv
    <3>3. \A j \in QueueIds : b \notin MessagesIn(j)
      BY <1>1, <1>5, <3>2 DEF HeaderInv
    <3> QED BY <1>1, <3>1, <3>3, QueueSame DEF TypeOK
  <2>2. CASE td[S] = None
    <3>1. b = Head(q[SQ]) /\ q[SQ] # <<>> /\ q' = [q EXCEPT ![SQ] = Tail(@)]
      BY <1>2, <2>2
    <3>2. SQ \in QueueIds
      BY Names
    <3>3. /\ q' \in [QueueIds -> Seq(Blocks)] /\ OnceQueued'
          /\ \A j \in QueueIds : j # SQ => q'[j] = q[j]
          /\ \A j \in QueueIds : \A x :
               x \in MessagesIn(j)' <=> x \in MessagesIn(j) /\ x # Head(q[SQ])
      BY <1>1, <3>1, <3>2, QueueTail
    <3> QED BY <3>1, <3>3
  <2> QED BY <2>1, <2>2
<1>8. \A x : x \in Requests <=> x = b \/ x \in MessagesIn(SQ)'
  <2>1. \A x : x \in Requests <=> x \in MessagesIn(SQ) \/ (td[S] # None /\ x = td[S])
    BY <1>2, <1>3, RequestPlaces
  <2>2. SQ \in QueueIds
    BY Names
  <2>3. td[S] = None => b \in MessagesIn(SQ)
    BY <1>4, <2>1
  <2>4. td[S] # None => b = td[S]
    OBVIOUS
  <2> QED BY <1>7, <2>1, <2>2, <2>3, <2>4
<1> QED BY <1>4, <1>5, <1>6, <1>7, <1>8

LEMMA TakeRequestKeeps ==
  ASSUME IInv, TakeRequest
  PROVE  IInv'
<1>1. /\ TypeOK /\ StepInv /\ PoolInv /\ OwnerInv /\ HandsInv /\ RequestsInv
      /\ HeaderInv /\ OnceQueued /\ NoLeak
  BY DEF IInv
<1>2. PICK b : b = IF td[S] # None THEN td[S] ELSE Head(q[SQ])
  OBVIOUS
<1>3. /\ SchedulerReady /\ spc = "receive" /\ spc' = "work"
      /\ UNCHANGED <<pool, slot, qowner, rcv, active, callers>>
  BY Names DEF TakeRequest, Runs
<1> USE DEF callers
<1>4. /\ b \in Requests /\ b \in Blocks /\ b # None /\ ~FREE[b]
      /\ q' \in [QueueIds -> Seq(Blocks)] /\ OnceQueued'
      /\ td' \in [Clients \cup {S} -> Blocks \cup {None}] /\ td'[S] = None
      /\ \A d \in Clients : td'[d] = td[d]
      /\ \A j \in QueueIds : j # SQ => q'[j] = q[j]
      /\ \A j \in QueueIds : \A x :
           x \in MessagesIn(j)' <=> x \in MessagesIn(j) /\ x # b
      /\ \A x : x \in Requests <=> x = b \/ x \in MessagesIn(SQ)'
  BY <1>2, NextRequest
<1>5. cur = None /\ S \notin rcv
  BY <1>1, <1>3 DEF HandsInv, SchedulerReady
<1>6. pool
  <2>1. td[S] # None \/ q[SQ] # <<>>
    BY DEF TakeRequest
  <2> QED BY <1>1, <2>1 DEF PoolInv
<1>7. b # gmsg /\ \A d \in Clients : held[d] # b /\ td[d] # b
  BY <1>4, RequestInUse
<1>8. \A j \in Queues \cup {GQ} : q'[j] = q[j]
  BY <1>4, Names
<1>9. ASSUME NEW d \in Clients PROVE Waits(d)' <=> Waits(d)
  <2>1. pc[d] \in {"receive", "wait"} => local_q[d] \in Queues
    <3>1. pc[d] \in {"receive", "wait"} => local_q[d] # None
      BY <1>1 DEF OwnerInv
    <3> QED BY <1>1, <3>1 DEF TypeOK
  <2> QED BY <1>3, <1>4, <1>8, <2>1 DEF Waits
<1>10. StepInv' /\ OwnerInv' /\ PoolInv'
  BY <1>1, <1>3, <1>6, <1>8 DEF StepInv, OwnerInv, PoolInv
<1>11. cur' # None => HandsInv'
  <2>1. \A u \in Users : pc'[u] \in {"receive", "wait"} => Waits(u)'
    BY <1>1, <1>3, <1>9, Names DEF HandsInv
  <2> QED BY <1>1, <1>3, <1>4, <1>5, <1>8, <2>1 DEF HandsInv
<1>12. \/ /\ halted' = "response assert"
          /\ QUEUED' = [QUEUED EXCEPT ![b] = FALSE]
          /\ TD_PTR' = [TD_PTR EXCEPT ![b] = S]
          /\ cur' = b /\ UNCHANGED <<blocks, free, FREE, content>>
       \/ \E more \in SUBSET ResponseBlocks :
            /\ more \subseteq ResponseBlocks \ blocks
            /\ \E r \in (free \cup more) \cap ResponseBlocks :
                 /\ blocks' = blocks \cup more
                 /\ free' = ((free \cup more) \ {r}) \cup {b}
                 /\ FREE' = [FREE EXCEPT ![r] = FALSE, ![b] = TRUE]
                 /\ QUEUED' = [QUEUED EXCEPT ![r] = FALSE, ![b] = FALSE]
                 /\ TD_PTR' = [TD_PTR EXCEPT ![r] = S, ![b] = None]
                 /\ content' = [content EXCEPT
                      ![r] = [client |-> content[b].client,
                              qid |-> content[b].qid, result |-> "null"],
                      ![b] = EmptyBody]
                 /\ cur' = r /\ halted' = halted
  BY <1>2 DEF TakeRequest, Grow, Add, Address
<1>13. CASE /\ halted' = "response assert"
            /\ QUEUED' = [QUEUED EXCEPT ![b] = FALSE]
            /\ TD_PTR' = [TD_PTR EXCEPT ![b] = S]
            /\ cur' = b /\ UNCHANGED <<blocks, free, FREE, content>>
  <2>1. /\ QUEUED' \in [Blocks -> BOOLEAN] /\ ~QUEUED'[b]
        /\ TD_PTR' \in [Blocks -> Clients \cup {S, None}] /\ TD_PTR'[b] = S
        /\ \A x \in Blocks : x # b => /\ QUEUED'[x] = QUEUED[x]
                                      /\ TD_PTR'[x] = TD_PTR[x]
    BY <1>1, <1>4, <1>13 DEF TypeOK
  <2>2. TypeOK'
    BY <1>1, <1>3, <1>4, <1>13, <2>1 DEF TypeOK, Halts
  <2>3. HeaderInv'
    <3>1. \A x \in Blocks : QUEUED'[x] <=> \E j \in QueueIds : x \in MessagesIn(j)'
      BY <1>1, <1>4, <2>1 DEF HeaderInv
    <3>2. \A x \in Blocks : QUEUED'[x] => ~FREE'[x]
      BY <1>1, <1>13, <2>1 DEF HeaderInv
    <3>3. \A d \in Clients : held'[d] # None =>
            TD_PTR'[held'[d]] = d /\ ~FREE'[held'[d]] /\ ~QUEUED'[held'[d]]
      BY <1>1, <1>3, <1>7, <1>13, <2>1 DEF HeaderInv, TypeOK
    <3>4. \A t \in Clients \cup {S} : td'[t] # None =>
            TD_PTR'[td'[t]] = t /\ ~FREE'[td'[t]] /\ ~QUEUED'[td'[t]]
      <4>1. ASSUME NEW t \in Clients, td[t] # None
            PROVE  /\ td[t] \in Blocks /\ td[t] # b
                   /\ TD_PTR[td[t]] = t /\ ~FREE[td[t]] /\ ~QUEUED[td[t]]
        BY <1>1, <1>7, <4>1 DEF HeaderInv, TypeOK
      <4>2. td'[S] = None /\ \A t \in Clients : td'[t] = td[t]
        BY <1>4
      <4>3. FREE' = FREE
        BY <1>13
      <4> QED BY <2>1, <4>1, <4>2, <4>3
    <3>5. /\ TD_PTR'[cur'] = S /\ ~FREE'[cur'] /\ ~QUEUED'[cur']
          /\ gmsg' # None =>
               TD_PTR'[gmsg'] = None /\ ~FREE'[gmsg'] /\ ~QUEUED'[gmsg']
      <4>1. cur' = b /\ TD_PTR'[b] = S /\ ~FREE'[b] /\ ~QUEUED'[b]
        BY <1>4, <1>13, <2>1
      <4>2. gmsg # None => /\ gmsg \in Blocks /\ TD_PTR[gmsg] = None
                           /\ ~FREE[gmsg] /\ ~QUEUED[gmsg]
        BY <1>1 DEF HeaderInv, TypeOK
      <4> QED BY <1>3, <1>7, <1>13, <2>1, <4>1, <4>2
    <3> QED BY <1>1, <1>13, <3>1, <3>2, <3>3, <3>4, <3>5 DEF HeaderInv
  <2>4. NoLeak'
    <3>1. ASSUME NEW x \in Blocks, ~FREE'[x], ~QUEUED'[x]
          PROVE  \/ x \in {gmsg', cur'} \/ \E d \in Clients : held'[d] = x
                 \/ \E t \in Clients \cup {S} : td'[t] = x
      <4>1. CASE x = b
        BY <1>13, <4>1
      <4>2. CASE x # b
        <5>1. x # td[S] /\ x # cur
          BY <1>2, <1>5, <4>2, Names
        <5>2. ~FREE[x] /\ ~QUEUED[x]
          BY <1>13, <2>1, <3>1, <4>2
        <5> QED BY <1>1, <1>3, <1>4, <5>1, <5>2 DEF NoLeak
      <4> QED BY <4>1, <4>2
    <3> QED BY <3>1 DEF NoLeak
  <2>5. RequestsInv'
    <3>1. \A x : x \in Requests' <=> x \in Requests
      BY <1>3, <1>4, <1>13 DEF Requests
    <3>2. \A d \in Clients : FilledIn(d)'
      BY <1>1, <1>3, <1>13 DEF FilledIn, RequestsInv
    <3> QED BY <1>3, <1>9, <1>13, <3>1, <3>2, RequestsKept
  <2> QED BY <1>4, <1>10, <1>11, <1>13, <2>2, <2>3, <2>4, <2>5 DEF IInv
<1>14. ASSUME NEW more \in SUBSET ResponseBlocks,
              more \subseteq ResponseBlocks \ blocks,
              NEW r \in (free \cup more) \cap ResponseBlocks,
              blocks' = blocks \cup more,
              free' = ((free \cup more) \ {r}) \cup {b},
              FREE' = [FREE EXCEPT ![r] = FALSE, ![b] = TRUE],
              QUEUED' = [QUEUED EXCEPT ![r] = FALSE, ![b] = FALSE],
              TD_PTR' = [TD_PTR EXCEPT ![r] = S, ![b] = None],
              content' = [content EXCEPT
                   ![r] = [client |-> content[b].client,
                           qid |-> content[b].qid, result |-> "null"],
                   ![b] = EmptyBody],
              cur' = r, halted' = halted
       PROVE  IInv'
  <2>1. r \in Blocks /\ FREE[r] /\ ~QUEUED[r] /\ r # b /\ r # None
    BY <1>1, <1>4, <1>14, Names DEF HeaderInv
  <2>2. b \in blocks /\ b \notin free
    BY <1>1, <1>4 DEF HeaderInv
  <2>3. /\ QUEUED' \in [Blocks -> BOOLEAN] /\ ~QUEUED'[b] /\ ~QUEUED'[r]
        /\ FREE' \in [Blocks -> BOOLEAN] /\ FREE'[b] /\ ~FREE'[r]
        /\ TD_PTR' \in [Blocks -> Clients \cup {S, None}] /\ TD_PTR'[r] = S
        /\ \A x \in Blocks \ {b, r} : /\ QUEUED'[x] = QUEUED[x]
                                      /\ FREE'[x] = FREE[x]
                                      /\ TD_PTR'[x] = TD_PTR[x]
    BY <1>1, <1>4, <1>14, <2>1 DEF TypeOK
  <2>4. IsRequest(b)
    BY <1>1, <1>4 DEF RequestsInv
  <2>5. /\ content' \in [Blocks -> Bodies]
        /\ content'[r].client = content[b].client
        /\ content'[r].qid = content[b].qid
        /\ \A x \in Blocks \ {b, r} : content'[x] = content[x]
    <3>1. /\ EmptyBody \in Bodies
          /\ [client |-> content[b].client, qid |-> content[b].qid,
              result |-> "null"] \in Bodies
      BY <2>4, Names DEF EmptyBody, Bodies, Answers, IsRequest
    <3> QED BY <1>1, <1>4, <1>14, <2>1, <3>1 DEF TypeOK
  <2>6. /\ blocks' \subseteq Blocks /\ free' \subseteq blocks'
        /\ \A x \in Blocks : FREE'[x] <=> x \notin blocks' \ free'
    <3>1. blocks' \subseteq Blocks /\ free' \subseteq blocks'
      BY <1>1, <1>14, <2>2, Names DEF TypeOK, HeaderInv
    <3>2. ASSUME NEW x \in Blocks \ {b, r}
          PROVE  FREE'[x] <=> x \notin blocks' \ free'
      BY <1>1, <1>14, <2>3 DEF HeaderInv
    <3>3. r \in blocks' /\ r \notin free' /\ b \in free'
      BY <1>1, <1>14, <2>1 DEF HeaderInv
    <3> QED BY <2>3, <3>1, <3>2, <3>3
  <2>7. TypeOK'
    BY <1>1, <1>3, <1>4, <1>14, <2>1, <2>3, <2>5, <2>6 DEF TypeOK
  <2>8. /\ r # gmsg /\ \A d \in Clients : held[d] # r /\ td[d] # r
        /\ \A j \in QueueIds : r \notin MessagesIn(j)
    BY <1>1, <2>1 DEF HeaderInv
  <2>9. HeaderInv'
    <3>1. \A x \in Blocks : QUEUED'[x] <=> \E j \in QueueIds : x \in MessagesIn(j)'
      BY <1>1, <1>4, <2>3, <2>8 DEF HeaderInv
    <3>2. \A x \in Blocks : QUEUED'[x] => ~FREE'[x]
      BY <1>1, <2>3 DEF HeaderInv
    <3>3. \A d \in Clients : held'[d] # None =>
            TD_PTR'[held'[d]] = d /\ ~FREE'[held'[d]] /\ ~QUEUED'[held'[d]]
      BY <1>1, <1>3, <1>7, <2>3, <2>8 DEF HeaderInv, TypeOK
    <3>4. \A t \in Clients \cup {S} : td'[t] # None =>
            TD_PTR'[td'[t]] = t /\ ~FREE'[td'[t]] /\ ~QUEUED'[td'[t]]
      BY <1>1, <1>4, <1>7, <2>3, <2>8 DEF HeaderInv, TypeOK
    <3>5. /\ TD_PTR'[cur'] = S /\ ~FREE'[cur'] /\ ~QUEUED'[cur']
          /\ gmsg' # None =>
               TD_PTR'[gmsg'] = None /\ ~FREE'[gmsg'] /\ ~QUEUED'[gmsg']
      BY <1>1, <1>3, <1>7, <1>14, <2>3, <2>8 DEF HeaderInv, TypeOK
    <3> QED BY <2>6, <3>1, <3>2, <3>3, <3>4, <3>5 DEF HeaderInv
  <2>10. NoLeak'
    <3>1. ASSUME NEW x \in Blocks, ~FREE'[x], ~QUEUED'[x]
          PROVE  \/ x \in {gmsg', cur'} \/ \E d \in Clients : held'[d] = x
                 \/ \E t \in Clients \cup {S} : td'[t] = x
      <4>1. CASE x = r
        BY <1>14, <4>1
      <4>2. CASE x # r
        <5>1. x # b /\ ~FREE[x] /\ ~QUEUED[x]
          BY <2>3, <3>1, <4>2
        <5>2. x # td[S] /\ x # cur
          BY <1>2, <1>5, <5>1, Names
        <5> QED BY <1>1, <1>3, <1>4, <5>1, <5>2 DEF NoLeak
      <4> QED BY <4>1, <4>2
    <3> QED BY <3>1 DEF NoLeak
  <2>11. RequestsInv'
    <3>1. \A x : x \in Requests' <=> (x \in Requests /\ x # b) \/ x = r
      <4>1. \A x : x \in Requests' <=> x \in MessagesIn(SQ)' \/ x = r
        BY <1>3, <1>4, <1>14, <2>1 DEF Requests
      <4>2. b \notin MessagesIn(SQ)'
        BY <1>4, Names
      <4> QED BY <1>4, <4>1, <4>2
    <3>2. ASSUME NEW d \in Clients PROVE FilledIn(d)'
      <4>1. pc[d] = "send" => held[d] \in Blocks \ {b, r}
        BY <1>1, <1>7, <2>8 DEF HandsInv, TypeOK
      <4> QED BY <1>1, <1>3, <2>5, <4>1 DEF FilledIn, RequestsInv
    <3>3. ASSUME NEW x \in Requests, x # b
          PROVE  content'[x] = content[x] /\ content[x].client # content[b].client
      <4>1. x \in Blocks \ {b, r}
        BY <2>1, <3>3, RequestInUse
      <4> QED BY <1>1, <1>4, <2>5, <3>3, <4>1 DEF RequestsInv
    <3>4. \A d \in Clients : local_q'[d] = local_q[d]
      BY <1>3
    <3>5. ASSUME NEW x \in Requests' PROVE IsRequest(x)'
      <4>1. PICK y \in Requests : /\ content'[x].client = content[y].client
                                  /\ content'[x].qid = content[y].qid
        BY <1>4, <2>5, <3>1, <3>3
      <4>2. IsRequest(y)
        BY <1>1 DEF RequestsInv
      <4> QED BY <1>9, <3>4, <4>1, <4>2 DEF IsRequest
    <3>6. \A x1, x2 \in Requests' :
            content'[x1].client = content'[x2].client => x1 = x2
      BY <1>1, <2>5, <3>1, <3>3 DEF RequestsInv
    <3>7. ASSUME NEW d \in Clients, Waits(d)'
          PROVE  \E x \in Requests' : content'[x].client = d
      <4>1. PICK y \in Requests : content[y].client = d
        BY <1>1, <1>9, <3>7 DEF RequestsInv
      <4>2. CASE y = b
        BY <2>5, <3>1, <4>1, <4>2
      <4>3. CASE y # b
        BY <3>1, <3>3, <4>1, <4>3
      <4> QED BY <4>2, <4>3
    <3> QED BY <3>2, <3>5, <3>6, <3>7 DEF RequestsInv
  <2> QED BY <1>4, <1>10, <1>11, <1>14, <2>1, <2>7, <2>9, <2>10, <2>11 DEF IInv
<1> QED BY <1>12, <1>13, <1>14

LEMMA ReplyKeeps ==
  ASSUME IInv, Reply
  PROVE  IInv'
<1>1. /\ TypeOK /\ StepInv /\ PoolInv /\ OwnerInv /\ HandsInv /\ RequestsInv
      /\ HeaderInv /\ OnceQueued /\ NoLeak
  BY DEF IInv
<1>2. /\ spc = "reply" /\ spc' = "receive" /\ cur' = None
      /\ UNCHANGED <<halted, pool, slot, blocks, qowner, active, local_q, held,
                     returned, gmsg>>
  BY DEF Reply
<1>3. /\ cur \in Blocks /\ cur # None /\ TD_PTR[cur] = S /\ ~FREE[cur]
      /\ ~QUEUED[cur] /\ td[S] = None /\ S \notin rcv
  BY <1>1, <1>2, Names DEF HandsInv, HeaderInv, TypeOK
<1>4. cur \in Requests
  BY <1>2, <1>3 DEF Requests
<1>5. IsRequest(cur)
  BY <1>1, <1>4 DEF RequestsInv
<1>6. PICK c \in Clients, i \in Queues :
        /\ content[cur].client = c /\ content[cur].qid = i /\ local_q[c] = i
        /\ q[i] = <<>> /\ td[c] = None /\ pc[c] \in {"receive", "wait"}
  BY <1>5 DEF IsRequest, Waits
<1>7. qowner[i] = c /\ i \in QueueIds /\ i # SQ /\ i # GQ /\ c # S /\ c # None
  BY <1>1, <1>6, Names DEF OwnerInv
<1>8. Len(q[i]) = 0
  BY <1>1, <1>6, <1>7, EmptyQueue
<1>9. /\ Deliver(cur, i) /\ UNCHANGED <<free, FREE, content>>
      /\ pc' = IF c \in Users THEN [pc EXCEPT ![c] = "exit"] ELSE pc
  <2>1. HasRoom(i)
    BY <1>7, <1>8 DEF HasRoom
  <2> QED BY <1>6, <1>7, <2>1 DEF Reply
<1>10. /\ c \in rcv <=> pc[c] = "wait"
       /\ WaitsOn(c) = i
  BY <1>1, <1>6, <1>7 DEF HandsInv, WaitsOn
<1>11. /\ q' \in [QueueIds -> Seq(Blocks)] /\ QUEUED' \in [Blocks -> BOOLEAN]
       /\ TD_PTR' \in [Blocks -> Clients \cup {S, None}]
       /\ td' \in [Clients \cup {S} -> Blocks \cup {None}]
       /\ rcv' \subseteq Clients \cup {S}
       /\ OnceQueued' /\ \A j \in QueueIds : j # i => q'[j] = q[j]
       /\ \A x \in Blocks :
            /\ QUEUED'[x] <=> \E j \in QueueIds : x \in MessagesIn(j)'
            /\ x # cur => QUEUED'[x] = QUEUED[x] /\ TD_PTR'[x] = TD_PTR[x]
       /\ \/ /\ c \in rcv /\ WaitsOn(c) = i
             /\ rcv' = rcv \ {c} /\ td'[c] = cur
             /\ \A t \in Clients \cup {S} : t # c => td'[t] = td[t]
             /\ q' = q /\ ~QUEUED'[cur] /\ TD_PTR'[cur] = c
          \/ /\ ~(c \in rcv /\ WaitsOn(c) = i)
             /\ td' = td /\ rcv' = rcv /\ QUEUED'[cur]
             /\ q'[i] # <<>> /\ Len(q'[i]) = Len(q[i]) + 1
             /\ \A j \in QueueIds : \A x :
                  x \in MessagesIn(j)' <=> x \in MessagesIn(j) \/ (j = i /\ x = cur)
  <2>1. c \in Clients \cup {S} /\ Deliver(cur, i) /\ cur \in Blocks
        /\ i \in QueueIds /\ qowner[i] = c /\ ~QUEUED[cur]
    BY <1>3, <1>6, <1>7, <1>9
  <2>2. /\ q' \in [QueueIds -> Seq(Blocks)] /\ QUEUED' \in [Blocks -> BOOLEAN]
        /\ TD_PTR' \in [Blocks -> Clients \cup {S, None}]
        /\ td' \in [Clients \cup {S} -> Blocks \cup {None}]
        /\ rcv' \subseteq Clients \cup {S}
        /\ OnceQueued' /\ \A j \in QueueIds : j # i => q'[j] = q[j]
    BY <2>1, Delivery
  <2>3. \A x \in Blocks :
          /\ QUEUED'[x] <=> \E j \in QueueIds : x \in MessagesIn(j)'
          /\ x # cur => QUEUED'[x] = QUEUED[x] /\ TD_PTR'[x] = TD_PTR[x]
    BY <2>1, Delivery
  <2>4. \/ /\ c \in rcv /\ WaitsOn(c) = i
           /\ rcv' = rcv \ {c} /\ td'[c] = cur
           /\ \A t \in Clients \cup {S} : t # c => td'[t] = td[t]
           /\ q' = q /\ ~QUEUED'[cur] /\ TD_PTR'[cur] = c
        \/ /\ ~(c \in rcv /\ WaitsOn(c) = i)
           /\ td' = td /\ rcv' = rcv /\ QUEUED'[cur]
           /\ q'[i] # <<>> /\ Len(q'[i]) = Len(q[i]) + 1
           /\ \A j \in QueueIds : \A x :
                x \in MessagesIn(j)' <=> x \in MessagesIn(j) \/ (j = i /\ x = cur)
    BY <2>1, Delivery
  <2> QED BY <2>2, <2>3, <2>4
<1>12. \/ /\ c \in rcv /\ rcv' = rcv \ {c} /\ td'[c] = cur
          /\ \A t \in Clients \cup {S} : t # c => td'[t] = td[t]
          /\ q' = q /\ ~QUEUED'[cur] /\ TD_PTR'[cur] = c
       \/ /\ c \notin rcv /\ td' = td /\ rcv' = rcv /\ QUEUED'[cur]
          /\ q'[i] # <<>> /\ Len(q'[i]) = 1
  BY <1>8, <1>10, <1>11
<1>13. /\ pc' \in [Clients -> Steps]
       /\ pc'[c] = IF c \in Users THEN "exit" ELSE pc[c]
       /\ \A d \in Clients : d # c => pc'[d] = pc[d]
  BY <1>1, <1>6, <1>9 DEF TypeOK, Steps
<1>14. \A j \in QueueIds : j # i => q'[j] = q[j]
  BY <1>11
<1>15. TypeOK'
  BY <1>1, <1>2, <1>9, <1>11, <1>13 DEF TypeOK
<1>16. StepInv'
  BY <1>1, <1>2, <1>6, <1>13, Names DEF StepInv
<1>17. OwnerInv'
  <2>1. ASSUME NEW j \in Queues
        PROVE  /\ qowner[j] # S /\ Len(q'[j]) <= 1
               /\ qowner[j] = None => q'[j] = <<>>
    <3>1. CASE j = i
      <4>1. Len(q'[i]) = 0 \/ Len(q'[i]) = 1
        BY <1>8, <1>12
      <4> DEFINE n == Len(q'[i])
      <4>2. n <= 1
        <5>1. n = 0 \/ n = 1
          BY <4>1
        <5> HIDE DEF n
        <5> QED BY <5>1
      <4>3. Len(q'[j]) <= 1
        BY <3>1, <4>2
      <4> QED BY <1>7, <3>1, <4>3
    <3>2. CASE j # i
      BY <1>1, <1>14, <3>2, Names DEF OwnerInv
    <3> QED BY <3>1, <3>2
  <2>2. ASSUME NEW d \in Clients
        PROVE  local_q[d] = None <=> pc'[d] \in
                 {"none", "run", "idle", "delay", "loop", "open", "sweep"}
    <3>1. CASE d = c
      BY <1>1, <1>6, <1>13, <3>1 DEF OwnerInv
    <3>2. CASE d # c
      BY <1>1, <1>13, <3>2 DEF OwnerInv
    <3> QED BY <3>1, <3>2
  <2> QED BY <1>1, <1>2, <2>1, <2>2 DEF OwnerInv
<1>18. PoolInv'
  <2>1. pool
    BY <1>1, <1>2 DEF PoolInv
  <2>2. \A d \in Clients : pc'[d] = "create" => pc[d] = "create"
    BY <1>13
  <2> QED BY <1>1, <1>2, <2>1, <2>2 DEF PoolInv
<1>19. /\ \A d \in Clients : held[d] # cur
       /\ \A t \in Clients \cup {S} : td[t] # cur
       /\ cur # gmsg
  BY <1>1, <1>3, Names DEF HeaderInv
<1>20. HeaderInv'
  <2>1. \A x \in Blocks : QUEUED'[x] => ~FREE'[x]
    BY <1>1, <1>3, <1>9, <1>11 DEF HeaderInv
  <2>2. \A d \in Clients : held'[d] # None =>
          TD_PTR'[held'[d]] = d /\ ~FREE'[held'[d]] /\ ~QUEUED'[held'[d]]
    BY <1>1, <1>2, <1>9, <1>11, <1>19 DEF HeaderInv, TypeOK
  <2>3. \A t \in Clients \cup {S} : td'[t] # None =>
          TD_PTR'[td'[t]] = t /\ ~FREE'[td'[t]] /\ ~QUEUED'[td'[t]]
    <3>1. ASSUME NEW t \in Clients \cup {S}, td[t] # None
          PROVE  TD_PTR'[td[t]] = t /\ ~FREE'[td[t]] /\ ~QUEUED'[td[t]]
      BY <1>1, <1>9, <1>11, <1>19, <3>1 DEF HeaderInv, TypeOK
    <3> QED BY <1>3, <1>9, <1>12, <3>1
  <2>4. gmsg' # None =>
          TD_PTR'[gmsg'] = None /\ ~FREE'[gmsg'] /\ ~QUEUED'[gmsg']
    BY <1>1, <1>2, <1>9, <1>11, <1>19 DEF HeaderInv, TypeOK
  <2>5. \A x \in Blocks : QUEUED'[x] <=> \E j \in QueueIds : x \in MessagesIn(j)'
    BY <1>11
  <2> QED BY <1>1, <1>2, <1>9, <2>1, <2>2, <2>3, <2>4, <2>5 DEF HeaderInv
<1>21. NoLeak'
  <2>1. ASSUME NEW x \in Blocks, ~FREE[x], ~QUEUED'[x]
        PROVE  \/ x = gmsg \/ \E d \in Clients : held[d] = x
               \/ \E t \in Clients \cup {S} : td'[t] = x
    <3>1. CASE x = cur
      BY <1>6, <1>12, <2>1, <3>1
    <3>2. CASE x # cur
      <4>1. \/ x = gmsg \/ \E d \in Clients : held[d] = x
            \/ \E t \in Clients \cup {S} : td[t] = x
        BY <1>1, <1>11, <2>1, <3>2 DEF NoLeak
      <4>2. x # td[c]
        BY <1>6, Names
      <4> QED BY <1>12, <4>1, <4>2
    <3> QED BY <3>1, <3>2
  <2> QED BY <1>2, <1>9, <2>1 DEF NoLeak
<1>22. ~Waits(c)'
  BY <1>2, <1>3, <1>6, <1>12 DEF Waits
<1>23. ASSUME NEW d \in Clients, d # c PROVE Waits(d)' <=> Waits(d)
  <2>1. pc[d] \in {"receive", "wait"} => local_q[d] \in QueueIds /\ local_q[d] # i
    <3>1. pc[d] \in {"receive", "wait"} => local_q[d] # None
      BY <1>1 DEF OwnerInv
    <3>2. local_q[d] # i
      BY <1>1, <1>6, <1>7, <1>23 DEF OwnerInv
    <3> QED BY <1>1, <3>1, <3>2, Names DEF TypeOK
  <2>2. td'[d] = td[d]
    BY <1>12, <1>23
  <2> QED BY <1>2, <1>13, <1>14, <1>23, <2>1, <2>2 DEF Waits
<1>24. HandsInv'
  <2>1. ASSUME NEW d \in Clients
        PROVE  /\ held[d] # None <=> pc'[d] \in {"send", "read"}
               /\ returned[d] # None <=> pc'[d] = "close"
               /\ d \in rcv' => pc'[d] = "wait"
               /\ pc'[d] = "wait" => (d \in rcv' <=> td'[d] = None)
               /\ td'[d] # None => pc'[d] \in {"wait", "exit", "sweep"}
    <3>1. CASE d = c
      BY <1>1, <1>3, <1>6, <1>10, <1>12, <1>13, <3>1 DEF HandsInv
    <3>2. CASE d # c
      <4>1. td'[d] = td[d] /\ (d \in rcv' <=> d \in rcv)
        BY <1>12, <3>2
      <4> QED BY <1>1, <1>13, <3>2, <4>1 DEF HandsInv
    <3> QED BY <3>1, <3>2
  <2>2. ASSUME NEW d \in Clients, NEW j \in Queues, local_q[d] = j, q'[j] # <<>>
        PROVE  td'[d] = None /\ pc'[d] \in {"receive", "exit"}
    <3>1. CASE j = i
      <4>1. d = c
        BY <1>1, <1>7, <2>2, <3>1 DEF OwnerInv
      <4> QED BY <1>6, <1>10, <1>12, <1>13, <2>2, <3>1, <4>1
    <3>2. CASE j # i
      <4>1. d # c /\ q[j] # <<>>
        BY <1>6, <1>14, <2>2, <3>2, Names
      <4>2. td'[d] = td[d]
        BY <1>12, <4>1
      <4> QED BY <1>1, <1>13, <2>2, <4>1, <4>2 DEF HandsInv
    <3> QED BY <3>1, <3>2
  <2>3. \A u \in Users : pc'[u] \in {"receive", "wait"} => Waits(u)'
    BY <1>1, <1>13, <1>23, Names DEF HandsInv
  <2>4. td'[S] = None /\ S \notin rcv'
    BY <1>3, <1>7, <1>12
  <2> QED BY <1>2, <2>1, <2>2, <2>3, <2>4 DEF HandsInv
<1>25. RequestsInv'
  <2>1. \A x : x \in Requests' <=> x \in Requests /\ x # cur
    <3>1. \A x : x \in MessagesIn(SQ)' <=> x \in MessagesIn(SQ)
      BY <1>7, <1>14, Names DEF MessagesIn
    <3>2. td'[S] = td[S] /\ td[S] = None
      BY <1>3, <1>7, <1>12
    <3>3. \A x : x \in Requests <=> x \in MessagesIn(SQ) \/ x = cur
      BY <1>2, <1>3, RequestPlaces
    <3>4. \A x : x \in Requests' <=> x \in MessagesIn(SQ)'
      BY <1>2, <3>2 DEF Requests
    <3>5. cur \notin MessagesIn(SQ)
      BY <1>1, <1>3, Names DEF HeaderInv
    <3> QED BY <3>1, <3>3, <3>4, <3>5
  <2>2. \A x \in Requests : x # cur => content[x].client # c
    BY <1>1, <1>4, <1>6 DEF RequestsInv
  <2>3. \A d \in Clients : FilledIn(d)'
    BY <1>1, <1>2, <1>9, <1>13 DEF FilledIn, RequestsInv
  <2>4. \A x \in Requests' : IsRequest(x)'
    BY <1>1, <1>2, <1>9, <1>23, <2>1, <2>2 DEF RequestsInv, IsRequest
  <2>5. \A x1, x2 \in Requests' :
          content'[x1].client = content'[x2].client => x1 = x2
    BY <1>1, <1>9, <2>1 DEF RequestsInv
  <2>6. ASSUME NEW d \in Clients, Waits(d)'
        PROVE  \E x \in Requests' : content'[x].client = d
    <3>1. d # c /\ Waits(d)
      BY <1>22, <1>23, <2>6
    <3>2. PICK x \in Requests : content[x].client = d
      BY <1>1, <3>1 DEF RequestsInv
    <3>3. x # cur
      BY <1>6, <3>1, <3>2
    <3> QED BY <1>9, <2>1, <3>2, <3>3
  <2> QED BY <2>3, <2>4, <2>5, <2>6 DEF RequestsInv
<1> QED BY <1>11, <1>15, <1>16, <1>17, <1>18, <1>20, <1>21, <1>24, <1>25 DEF IInv

-----------------------------------------------------------------------------
(***************************************************************************)
(* The invariant, and the properties it implies.                           *)
(***************************************************************************)
LEMMA InitInv == Init => IInv
<1> SUFFICES ASSUME Init PROVE IInv
  OBVIOUS
<1>1. /\ \A i \in QueueIds : q[i] = <<>>
      /\ q \in [QueueIds -> Seq(Blocks)]
      /\ \A i \in QueueIds : MessagesIn(i) = {}
  BY DEF Init, MessagesIn
<1>2. TypeOK
  <2>1. /\ qowner \in [QueueIds -> Clients \cup {S, None}]
        /\ pc \in [Clients -> Steps]
    BY Names DEF Init, Steps
  <2>2. content \in [Blocks -> Bodies]
    BY Names DEF Init, EmptyBody, Bodies, Answers
  <2>3. blocks \subseteq Blocks
    BY Names DEF Init
  <2> QED BY <1>1, <2>1, <2>2, <2>3 DEF Init, TypeOK, Halts
<1>3. StepInv /\ PoolInv
  BY <1>1, Names DEF Init, StepInv, PoolInv
<1>4. OwnerInv
  <2>1. \A i \in Queues : qowner[i] = None /\ q[i] = <<>> /\ i # SQ /\ i # GQ
    BY <1>1, Names DEF Init
  <2>2. \A i \in Queues : Len(q[i]) <= 1
    <3> TAKE i \in Queues
    <3>1. Len(q[i]) = 0
      BY <2>1
    <3> QED BY <3>1
  <2> QED BY <2>1, <2>2, Names DEF Init, OwnerInv, Queues
<1>5. HeaderInv /\ OnceQueued /\ NoLeak
  BY <1>1 DEF Init, HeaderInv, OnceQueued, NoLeak
<1>6. HandsInv
  BY <1>1, Names DEF Init, HandsInv, Waits
<1>7. RequestsInv
  <2>1. Requests = {}
    BY <1>1, Names DEF Init, Requests
  <2> QED BY <2>1, Names DEF Init, RequestsInv, FilledIn, Waits
<1> QED BY <1>2, <1>3, <1>4, <1>5, <1>6, <1>7 DEF IInv

LEMMA StutterKeeps == IInv /\ UNCHANGED vars => IInv'
<1> SUFFICES ASSUME IInv, UNCHANGED vars PROVE IInv'
  OBVIOUS
<1> USE DEF vars, pools, kernel, callers, server
<1>1. TypeOK' /\ StepInv' /\ PoolInv' /\ OwnerInv'
  BY DEF IInv, TypeOK, StepInv, PoolInv, OwnerInv
<1>2. HeaderInv' /\ OnceQueued' /\ NoLeak'
  BY BlocksKept DEF IInv, HeaderInv
<1>3. HandsInv'
  BY DEF IInv, HandsInv, Waits
<1>4. RequestsInv'
  BY RequestsKept, RequestsSame DEF IInv, RequestsInv, Waits, FilledIn
<1> QED BY <1>1, <1>2, <1>3, <1>4 DEF IInv

LEMMA ClientKeeps ==
  ASSUME IInv, NEW c \in Clients, ClientStep(c)
  PROVE  IInv'
BY OpenKeeps, CreatePoolKeeps, TestSizeKeeps, GrowPoolKeeps, TakeMessageKeeps,
   SendRequestKeeps, ReceiveReplyKeeps, WakeKeeps, ReadAnswerKeeps, CloseKeeps,
   ExitKeeps, SweepKeeps DEF ClientStep

LEMMA NextKeeps == IInv /\ [Next]_vars => IInv'
<1> SUFFICES ASSUME IInv, [Next]_vars PROVE IInv'
  OBVIOUS
<1>1. CASE ServerStep \/ Unblock
  BY <1>1, SleepForRequestKeeps, TakeRequestKeeps, WorkKeeps, ReplyKeeps,
     UnblockKeeps DEF ServerStep
<1>2. CASE GeneratorStep
  BY <1>2, PollKeeps, ReleaseOrDelayKeeps, ClientKeeps, Names DEF GeneratorStep
<1>3. CASE ClientStep(T)
  BY <1>3, ClientKeeps, Names
<1>4. ASSUME NEW u \in Users, ClientStep(u) PROVE IInv'
  BY <1>4, ClientKeeps, Names
<1>5. CASE ButtonPress
  BY <1>5, ButtonPressKeeps
<1>6. CASE Stopped \/ UNCHANGED vars
  BY <1>6, StutterKeeps DEF Stopped
<1> QED BY <1>1, <1>2, <1>3, <1>4, <1>5, <1>6 DEF Next

THEOREM AlwaysInv == Spec => []IInv
BY InitInv, NextKeeps, PTL DEF Spec

(* Every variable of the message machinery keeps its type.                 *)
THEOREM TypeCorrect == Spec => []TypeOK
<1>1. IInv => TypeOK
  BY DEF IInv
<1> QED BY <1>1, AlwaysInv, PTL

(* FREE, QUEUED and TD_PTR of every block say where the block is, whatever *)
(* the interleaving of callers, scheduler, button and task ends: what      *)
(* _msg_free and _msg_cleanup rely on.                                     *)
THEOREM HeadersCorrect == Spec => []HeadersTell
<1>1. IInv => HeadersTell
  BY DEF IInv, TypeOK, HeaderInv, HeadersTell
<1> QED BY <1>1, AlwaysInv, PTL

(* The response to a request finds its caller's queue open and empty, so   *)
(* that the result of _msgq_send, which Scheduler_task does not test, is   *)
(* never a failure.                                                        *)
THEOREM AnswersHaveRoom == Spec => []AnswerHasRoom
<1>1. IInv => AnswerHasRoom
  <2> SUFFICES ASSUME IInv, NEW b \in Requests
               PROVE  /\ qowner[content[b].qid] = content[b].client
                      /\ HasRoom(content[b].qid)
    BY DEF AnswerHasRoom
  <2>1. PICK c \in Clients, i \in Queues :
          /\ content[b].client = c /\ content[b].qid = i
          /\ local_q[c] = i /\ q[i] = <<>>
    BY DEF IInv, RequestsInv, IsRequest, Waits
  <2>2. qowner[i] = c
    BY <2>1 DEF IInv, OwnerInv
  <2>3. HasRoom(i)
    <3>1. Len(q[i]) = 0
      BY <2>1
    <3> QED BY <2>1, <3>1, Names DEF HasRoom
  <2> QED BY <2>1, <2>2, <2>3
<1> QED BY <1>1, AlwaysInv, PTL

(* No wakeup is lost: the scheduler sleeps in _msgq_receive only when its  *)
(* queue is empty, a caller only while its own request is on its way.      *)
THEOREM NobodySleepsInVain == Spec => []SleepersAwaited
<1>1. IInv => SleepersAwaited
  <2> SUFFICES ASSUME IInv, NEW t \in rcv
               PROVE  /\ q[WaitsOn(t)] = <<>>
                      /\ t # S => \E b \in Requests : content[b].client = t
    BY DEF SleepersAwaited
  <2>1. CASE t = S
    BY <2>1 DEF IInv, HandsInv, WaitsOn
  <2>2. CASE t # S
    <3>1. t \in Clients
      BY <2>2 DEF IInv, TypeOK
    <3>2. pc[t] = "wait" /\ td[t] = None
      BY <3>1 DEF IInv, HandsInv
    <3>3. local_q[t] \in Queues
      <4>1. local_q[t] # None
        BY <3>1, <3>2 DEF IInv, OwnerInv
      <4> QED BY <3>1, <4>1 DEF IInv, TypeOK
    <3>4. q[local_q[t]] = <<>>
      BY <3>1, <3>2, <3>3 DEF IInv, HandsInv
    <3>5. Waits(t)
      BY <3>2, <3>4 DEF Waits
    <3> QED BY <2>2, <3>1, <3>4, <3>5 DEF IInv, RequestsInv, WaitsOn
  <2> QED BY <2>1, <2>2
<1> QED BY <1>1, AlwaysInv, PTL

(* Every block of the pools is free, or in one place and there once: none  *)
(* is leaked, freed while somebody uses it, or handed out twice, however   *)
(* calls, presses and the ends of tasks interleave.                        *)
THEOREM BlocksAlwaysAccounted == Spec => []BlocksAccounted
<1>1. ASSUME IInv PROVE BlocksAccounted
  <2> USE <1>1
  <2>1. HeaderInv /\ OnceQueued /\ NoLeak /\ HandsInv /\ TypeOK
    BY DEF IInv
  <2> DEFINE Q == UNION {MessagesIn(i) : i \in QueueIds}
             D == {td[t] : t \in Clients \cup {S}} \ {None}
             H == {held[c] : c \in Clients} \ {None}
             M == {gmsg} \ {None}
             C == {cur} \ {None}
  <2>2. /\ \A x : x \in Q <=> x \in Blocks /\ QUEUED[x]
        /\ \A x : x \in D <=> x # None /\ \E t \in Clients \cup {S} : td[t] = x
        /\ \A x : x \in H <=> x # None /\ \E c \in Clients : held[c] = x
        /\ \A x : x \in M <=> x # None /\ x = gmsg
        /\ \A x : x \in C <=> x # None /\ x = cur
    <3>1. ASSUME NEW i \in QueueIds, NEW x \in MessagesIn(i) PROVE x \in Blocks
      BY <2>1 DEF MessagesIn, TypeOK
    <3>2. \A x : x \in Q <=> x \in Blocks /\ QUEUED[x]
      BY <2>1, <3>1 DEF HeaderInv
    <3> QED BY <3>2
  <2>3. /\ \A x \in Q : x \in Blocks /\ ~FREE[x] /\ QUEUED[x]
        /\ \A x \in D : x \in Blocks /\ ~FREE[x] /\ ~QUEUED[x]
                        /\ \E t \in Clients \cup {S} : TD_PTR[x] = t /\ td[t] = x
        /\ \A x \in H : x \in Blocks /\ ~FREE[x] /\ ~QUEUED[x]
                        /\ \E c \in Clients : TD_PTR[x] = c /\ held[c] = x
        /\ \A x \in M : x \in Blocks /\ ~FREE[x] /\ ~QUEUED[x] /\ TD_PTR[x] = None
        /\ \A x \in C : x \in Blocks /\ ~FREE[x] /\ ~QUEUED[x] /\ TD_PTR[x] = S
                        /\ spc # "receive"
    <3>1. \A x \in Q : x \in Blocks /\ ~FREE[x] /\ QUEUED[x]
      BY <2>1, <2>2 DEF HeaderInv
    <3>2. \A x \in D : x \in Blocks /\ ~FREE[x] /\ ~QUEUED[x]
                       /\ \E t \in Clients \cup {S} : TD_PTR[x] = t /\ td[t] = x
      BY <2>1, <2>2 DEF HeaderInv, TypeOK
    <3>3. \A x \in H : x \in Blocks /\ ~FREE[x] /\ ~QUEUED[x]
                       /\ \E c \in Clients : TD_PTR[x] = c /\ held[c] = x
      BY <2>1, <2>2 DEF HeaderInv, TypeOK
    <3>4. /\ \A x \in M : x \in Blocks /\ ~FREE[x] /\ ~QUEUED[x] /\ TD_PTR[x] = None
          /\ \A x \in C : x \in Blocks /\ ~FREE[x] /\ ~QUEUED[x] /\ TD_PTR[x] = S
                          /\ spc # "receive"
      BY <2>1, <2>2 DEF HeaderInv, HandsInv, TypeOK
    <3> QED BY <3>1, <3>2, <3>3, <3>4
  <2>4. \A x \in blocks \ free : x \in Q \/ x \in D \/ x \in H \/ x \in M \/ x \in C
    <3> SUFFICES ASSUME NEW x \in blocks \ free, ~QUEUED[x]
                 PROVE  x \in D \/ x \in H \/ x \in M \/ x \in C
      BY <2>1, <2>2 DEF TypeOK
    <3>1. x \in Blocks /\ ~FREE[x] /\ x # None
      BY <2>1, Names DEF HeaderInv, TypeOK
    <3>2. \/ x \in {gmsg, cur} \/ \E c \in Clients : held[c] = x
          \/ \E t \in Clients \cup {S} : td[t] = x
      BY <2>1, <3>1 DEF NoLeak
    <3> QED BY <2>2, <3>1, <3>2
  <2>5. \A x : x \in Q \/ x \in D \/ x \in H \/ x \in M \/ x \in C
               => x \in blocks \ free
    BY <2>1, <2>3 DEF HeaderInv
  <2>6. /\ \A x \in Q : x \notin D /\ x \notin H /\ x \notin M /\ x \notin C
        /\ \A x \in D : x \notin H /\ x \notin M /\ x \notin C
        /\ \A x \in H : x \notin M /\ x \notin C
        /\ \A x \in M : x \notin C
    <3>1. \A x \in D : x \notin H
      <4> SUFFICES ASSUME NEW x \in D, x \in H PROVE FALSE
        OBVIOUS
      <4>1. PICK t \in Clients \cup {S} : TD_PTR[x] = t /\ td[t] = x
        BY <2>3
      <4>2. PICK c \in Clients : TD_PTR[x] = c /\ held[c] = x
        BY <2>3
      <4>3. x # None /\ td[c] = x /\ held[c] = x
        BY <2>2, <4>1, <4>2
      <4> QED BY <2>1, <4>2, <4>3 DEF HandsInv
    <3>2. \A x \in D : x \notin C
      <4> SUFFICES ASSUME NEW x \in D, x \in C PROVE FALSE
        OBVIOUS
      <4>1. td[S] = x /\ x # None /\ spc # "receive"
        BY <2>2, <2>3
      <4> QED BY <2>1, <4>1 DEF HandsInv
    <3> QED BY <2>3, <3>1, <3>2, Names
  <2> HIDE DEF Q, D, H, M, C
  <2>7. Places = <<Q, D, H, M, C>>
    BY DEF Places, Q, D, H, M, C
  <2>8. DOMAIN Places = 1 .. 5 /\ Places[1] = Q /\ Places[2] = D
        /\ Places[3] = H /\ Places[4] = M /\ Places[5] = C
    BY <2>7
  <2>9. UNION Range(Places) = Q \cup D \cup H \cup M \cup C
    <3>1. Range(Places) = {Q, D, H, M, C}
      <4>1. \A m : m \in 1 .. 5 <=> m \in {1, 2, 3, 4, 5}
        OBVIOUS
      <4> QED BY <2>8, <4>1 DEF Range
    <3> QED BY <3>1
  <2>10. UNION Range(Places) = blocks \ free
    BY <2>4, <2>5, <2>9
  <2>11. \A m, n \in DOMAIN Places : m # n => Places[m] \cap Places[n] = {}
    <3> SUFFICES ASSUME NEW m \in 1 .. 5, NEW n \in 1 .. 5, m < n
                 PROVE  Places[m] \cap Places[n] = {}
      BY <2>8
    <3> QED BY <2>6, <2>8
  <2>12. \A t, u \in Clients \cup {S} : td[t] = td[u] => t = u \/ td[t] = None
    BY <2>1 DEF HeaderInv
  <2>13. \A c, d \in Clients : held[c] = held[d] => c = d \/ held[c] = None
    BY <2>1 DEF HeaderInv
  <2> QED BY <2>1, <2>10, <2>11, <2>12, <2>13 DEF BlocksAccounted, UsedOnce, HeaderInv
<1> QED BY <1>1, AlwaysInv, PTL

(* Once scheduler_msg_pool is set it stays, though it is tested and set    *)
(* with preemption possible in between: before there is a pool, nobody     *)
(* preempts the task that creates it and asks for one too.                 *)
THEOREM PoolNeverReset == Spec => PoolStays
<1>1. IInv /\ [Next]_vars => [pool => pool']_vars
  <2> SUFFICES ASSUME IInv, [Next]_vars, ~UNCHANGED vars, pool PROVE pool'
    OBVIOUS
  <2>1. ASSUME NEW c \in Clients, ClientStep(c) PROVE pool'
    <3>1. ~CreatePool(c)
      BY DEF CreatePool, At, IInv, PoolInv
    <3> QED
      BY <2>1, <3>1 DEF ClientStep, Open, TestSize, GrowPool, TakeMessage,
         SendRequest, ReceiveReply, Wake, ReadAnswer, Close, Exit, Sweep, pools
  <2>2. CASE ServerStep \/ Unblock \/ ButtonPress \/ Poll \/ ReleaseOrDelay
    BY <2>2 DEF ServerStep, SleepForRequest, TakeRequest, Work, Reply, Unblock,
       ButtonPress, Poll, ReleaseOrDelay, pools
  <2> QED BY <2>1, <2>2, Names DEF Next, GeneratorStep, Stopped
<1> QED BY <1>1, AlwaysInv, PTL DEF Spec, PoolStays

-----------------------------------------------------------------------------
(***************************************************************************)
(* The state of the calls: what AbstractCalls is given for its variables.  *)
(***************************************************************************)
ClientsOf(R, body) == [k \in DOMAIN R |-> body[R[k]].client]
Pending == ClientsOf(RequestsInOrder, content)
Serving == IF spc = "receive" THEN None ELSE content[cur].client
AnswerOf(c) == IF AnswerBlock(c) = None THEN None ELSE content[AnswerBlock(c)].result
Answer == [c \in Clients |-> AnswerOf(c)]

LEMMA ClientsOfSequence ==
  ASSUME NEW R \in Seq(Blocks), NEW body \in [Blocks -> Bodies]
  PROVE  /\ ClientsOf(R, body) \in Seq(Clients \cup {None})
         /\ Len(ClientsOf(R, body)) = Len(R)
         /\ \A k \in 1 .. Len(R) : ClientsOf(R, body)[k] = body[R[k]].client
<1>1. DOMAIN R = 1 .. Len(R) /\ Len(R) \in Nat
      /\ \A k \in 1 .. Len(R) : R[k] \in Blocks
  BY LenProperties, ElementOfSeq
<1>2. \A k \in 1 .. Len(R) : body[R[k]].client \in Clients \cup {None}
  BY <1>1 DEF Bodies
<1>3. ClientsOf(R, body) \in [1 .. Len(R) -> Clients \cup {None}]
  BY <1>1, <1>2 DEF ClientsOf
<1>4. ClientsOf(R, body) \in Seq(Clients \cup {None})
  BY <1>1, <1>3, SeqDef
<1>5. Len(ClientsOf(R, body)) = Len(R)
  BY <1>1, <1>3, <1>4, LenProperties
<1>6. \A k \in 1 .. Len(R) : ClientsOf(R, body)[k] = body[R[k]].client
  BY <1>1 DEF ClientsOf
<1> QED BY <1>4, <1>5, <1>6

LEMMA ClientsOfSame ==
  ASSUME NEW R \in Seq(Blocks), NEW b1, NEW b2,
         \A k \in 1 .. Len(R) : b2[R[k]].client = b1[R[k]].client
  PROVE  ClientsOf(R, b2) = ClientsOf(R, b1)
<1>1. DOMAIN R = 1 .. Len(R)
  BY LenProperties
<1> QED BY <1>1 DEF ClientsOf

LEMMA ClientsOfAppend ==
  ASSUME NEW R \in Seq(Blocks), NEW b \in Blocks, NEW body \in [Blocks -> Bodies]
  PROVE  ClientsOf(Append(R, b), body) = Append(ClientsOf(R, body), body[b].client)
<1> DEFINE X == Clients \cup {None}
           L == ClientsOf(Append(R, b), body)
           M == Append(ClientsOf(R, body), body[b].client)
<1>1. /\ Append(R, b) \in Seq(Blocks) /\ Len(Append(R, b)) = Len(R) + 1
      /\ \A k \in 1 .. Len(R) : Append(R, b)[k] = R[k]
      /\ Append(R, b)[Len(R) + 1] = b /\ Len(R) \in Nat
  BY AppendProperties, LenProperties
<1>2. body[b].client \in X
  BY DEF Bodies
<1>3. /\ ClientsOf(R, body) \in Seq(X) /\ Len(ClientsOf(R, body)) = Len(R)
      /\ \A k \in 1 .. Len(R) : ClientsOf(R, body)[k] = body[R[k]].client
  BY ClientsOfSequence
<1>4. /\ M \in Seq(X) /\ Len(M) = Len(R) + 1 /\ M[Len(R) + 1] = body[b].client
      /\ \A k \in 1 .. Len(R) : M[k] = ClientsOf(R, body)[k]
  BY <1>2, <1>3, AppendProperties
<1>5. /\ L \in Seq(X) /\ Len(L) = Len(R) + 1
      /\ \A k \in 1 .. Len(R) + 1 : L[k] = body[Append(R, b)[k]].client
  BY <1>1, ClientsOfSequence
<1>6. \A k \in 1 .. Len(R) + 1 : k \in 1 .. Len(R) \/ k = Len(R) + 1
  BY <1>1
<1>7. \A k \in 1 .. Len(R) + 1 : L[k] = M[k]
  BY <1>1, <1>3, <1>4, <1>5, <1>6
<1> HIDE DEF L, M, X
<1>8. L = M
  BY <1>4, <1>5, <1>7, SeqEqual
<1> QED BY <1>8 DEF L, M

LEMMA ClientsOfTail ==
  ASSUME NEW R \in Seq(Blocks), R # <<>>, NEW b1 \in [Blocks -> Bodies],
         NEW b2 \in [Blocks -> Bodies],
         \A k \in 2 .. Len(R) : b2[R[k]].client = b1[R[k]].client
  PROVE  /\ ClientsOf(R, b1) # <<>>
         /\ Head(ClientsOf(R, b1)) = b1[Head(R)].client
         /\ ClientsOf(Tail(R), b2) = Tail(ClientsOf(R, b1))
<1> DEFINE X == Clients \cup {None}
           L == ClientsOf(Tail(R), b2)
           M == ClientsOf(R, b1)
<1>1. /\ Tail(R) \in Seq(Blocks) /\ Len(Tail(R)) = Len(R) - 1
      /\ \A k \in 1 .. Len(R) - 1 : Tail(R)[k] = R[k + 1]
      /\ Len(R) \in Nat /\ Len(R) # 0 /\ Head(R) = R[1]
  BY HeadTailProperties, LenProperties, EmptySeq
<1>2. /\ M \in Seq(X) /\ Len(M) = Len(R)
      /\ \A k \in 1 .. Len(R) : M[k] = b1[R[k]].client
  BY ClientsOfSequence
<1>3. M # <<>> /\ Head(M) = M[1] /\ 1 \in 1 .. Len(R)
  BY <1>1, <1>2, EmptySeq
<1>4. /\ Tail(M) \in Seq(X) /\ Len(Tail(M)) = Len(R) - 1
      /\ \A k \in 1 .. Len(R) - 1 : Tail(M)[k] = M[k + 1]
  BY <1>2, <1>3, HeadTailProperties
<1>5. /\ L \in Seq(X) /\ Len(L) = Len(R) - 1
      /\ \A k \in 1 .. Len(R) - 1 : L[k] = b2[Tail(R)[k]].client
  BY <1>1, ClientsOfSequence
<1>6. \A k \in 1 .. Len(R) - 1 : k + 1 \in 2 .. Len(R) /\ k + 1 \in 1 .. Len(R)
  BY <1>1
<1>7. \A k \in 1 .. Len(R) - 1 : L[k] = Tail(M)[k]
  BY <1>1, <1>2, <1>4, <1>5, <1>6
<1> HIDE DEF L, M, X
<1>8. L = Tail(M)
  BY <1>4, <1>5, <1>7, SeqEqual
<1> QED BY <1>1, <1>2, <1>3, <1>8 DEF L, M

(* The requests in order, by where the first of them is.                   *)
LEMMA InOrder ==
  ASSUME TypeOK
  PROVE  /\ RequestsInOrder \in Seq(Blocks)
         /\ td[S] = None => RequestsInOrder = q[SQ]
         /\ td[S] # None => /\ RequestsInOrder # <<>>
                            /\ Head(RequestsInOrder) = td[S]
                            /\ Tail(RequestsInOrder) = q[SQ]
         /\ \A k \in 1 .. Len(RequestsInOrder) :
              \/ RequestsInOrder[k] \in MessagesIn(SQ)
              \/ td[S] # None /\ RequestsInOrder[k] = td[S]
<1>1. q[SQ] \in Seq(Blocks) /\ DOMAIN q[SQ] = 1 .. Len(q[SQ]) /\ Len(q[SQ]) \in Nat
  BY Names DEF TypeOK
<1>2. CASE td[S] = None
  <2>1. RequestsInOrder = q[SQ]
    BY <1>1, <1>2, ConcatEmptySeq DEF RequestsInOrder
  <2> QED BY <1>1, <1>2, <2>1 DEF MessagesIn
<1>3. CASE td[S] # None
  <2> DEFINE s == <<td[S]>>
  <2>1. td[S] \in Blocks
    BY <1>3 DEF TypeOK
  <2>2. s \in Seq(Blocks) /\ Len(s) = 1 /\ s[1] = td[S]
    BY <2>1
  <2>3. RequestsInOrder = s \o q[SQ]
    BY <1>3 DEF RequestsInOrder
  <2> HIDE DEF s
  <2>4. /\ s \o q[SQ] \in Seq(Blocks) /\ Len(s \o q[SQ]) = 1 + Len(q[SQ])
        /\ \A k \in 1 .. 1 + Len(q[SQ]) :
             (s \o q[SQ])[k] = IF k <= 1 THEN s[k] ELSE q[SQ][k - 1]
    <3>1. /\ s \o q[SQ] \in Seq(Blocks)
          /\ Len(s \o q[SQ]) = Len(s) + Len(q[SQ])
          /\ \A k \in 1 .. Len(s) + Len(q[SQ]) :
               (s \o q[SQ])[k] = IF k <= Len(s) THEN s[k] ELSE q[SQ][k - Len(s)]
      BY <1>1, <2>2, ConcatProperties
    <3> QED BY <2>2, <3>1
  <2> DEFINE R == RequestsInOrder
  <2>5. /\ R \in Seq(Blocks) /\ Len(R) = 1 + Len(q[SQ]) /\ R[1] = td[S]
        /\ \A k \in 1 .. Len(q[SQ]) : R[k + 1] = q[SQ][k]
    BY <1>1, <2>2, <2>3, <2>4
  <2> HIDE DEF R
  <2>6. R # <<>> /\ Head(R) = td[S]
    BY <1>1, <2>5, EmptySeq
  <2>7. /\ Tail(R) \in Seq(Blocks) /\ Len(Tail(R)) = Len(q[SQ])
        /\ \A k \in 1 .. Len(q[SQ]) : Tail(R)[k] = q[SQ][k]
    BY <1>1, <2>5, <2>6, HeadTailProperties
  <2>8. Tail(R) = q[SQ]
    BY <1>1, <2>7, SeqEqual
  <2>9. \A k \in 1 .. Len(R) : R[k] = td[S] \/ R[k] \in MessagesIn(SQ)
    <3>1. ASSUME NEW k \in 1 .. Len(R), k # 1 PROVE R[k] \in MessagesIn(SQ)
      <4>1. k - 1 \in 1 .. Len(q[SQ]) /\ k = (k - 1) + 1
        BY <1>1, <2>5, <3>1
      <4>2. R[k] = q[SQ][k - 1]
        BY <2>5, <4>1
      <4> QED BY <1>1, <4>1, <4>2 DEF MessagesIn
    <3> QED BY <2>5, <3>1
  <2> QED BY <1>3, <2>5, <2>6, <2>8, <2>9 DEF R
<1> QED BY <1>2, <1>3

(***************************************************************************)
(* The steps of Calls, in these terms.                                     *)
(***************************************************************************)
Same == UNCHANGED <<Pending, Serving, Answer, returned>>

LEMMA RequestCalled ==
  ASSUME NEW c \in Clients, Serving # c, AnswerOf(c) = None, returned[c] = None,
         \A k \in DOMAIN Pending : Pending[k] # c, Pending' = Append(Pending, c),
         UNCHANGED <<Serving, Answer, returned>>
  PROVE  AbstractCalls!Next
<1>1. Answer[c] = None
  BY DEF Answer
<1> QED BY <1>1 DEF AbstractCalls!Next, AbstractCalls!Request, AbstractCalls!Idle,
          Pending, ClientsOf, Serving, Answer, AnswerOf

LEMMA AcceptCalled ==
  ASSUME Serving = None, Pending # <<>>, Serving' = Head(Pending),
         Pending' = Tail(Pending), UNCHANGED <<Answer, returned>>
  PROVE  AbstractCalls!Next
BY DEF AbstractCalls!Next, AbstractCalls!Accept, Pending, ClientsOf, Serving, Answer,
   AnswerOf

LEMMA GiveCalled ==
  ASSUME NEW a \in Answers, Serving # None, Serving' = None,
         Answer' = [Answer EXCEPT ![Serving] = a], UNCHANGED <<Pending, returned>>
  PROVE  AbstractCalls!Next
BY DEF AbstractCalls!Next, AbstractCalls!Give, Pending, ClientsOf, Serving, Answer,
   AnswerOf

LEMMA FetchCalled ==
  ASSUME NEW c \in Clients, Answer[c] # None,
         returned' = [returned EXCEPT ![c] = Answer[c]],
         Answer' = [Answer EXCEPT ![c] = None], UNCHANGED <<Pending, Serving>>
  PROVE  AbstractCalls!Next
BY DEF AbstractCalls!Next, AbstractCalls!Fetch, Pending, ClientsOf, Serving, Answer,
   AnswerOf

LEMMA ReturnCalled ==
  ASSUME NEW c \in Clients, returned[c] # None,
         returned' = [returned EXCEPT ![c] = None],
         UNCHANGED <<Pending, Serving, Answer>>
  PROVE  AbstractCalls!Next
BY DEF AbstractCalls!Next, AbstractCalls!Return, Pending, ClientsOf, Serving, Answer,
   AnswerOf

LEMMA DropCalled ==
  ASSUME NEW c \in Clients, Answer[c] # None, Answer' = [Answer EXCEPT ![c] = None],
         UNCHANGED <<Pending, Serving, returned>>
  PROVE  AbstractCalls!Next
BY DEF AbstractCalls!Next, AbstractCalls!Drop, Pending, ClientsOf, Serving, Answer,
   AnswerOf

(***************************************************************************)
(* What leaves the calls alone.                                            *)
(***************************************************************************)
LEMMA RequestsUnmoved ==
  ASSUME IInv, q'[SQ] = q[SQ], td'[S] = td[S],
         \A x \in Requests : content'[x].client = content[x].client
  PROVE  Pending' = Pending
<1>1. RequestsInOrder' = RequestsInOrder
  BY DEF RequestsInOrder
<1>2. /\ RequestsInOrder \in Seq(Blocks)
      /\ \A k \in 1 .. Len(RequestsInOrder) : RequestsInOrder[k] \in Requests
  BY InOrder, RequestPlaces DEF IInv
<1> DEFINE R == RequestsInOrder
<1>3. \A k \in 1 .. Len(R) : content'[R[k]].client = content[R[k]].client
  BY <1>2
<1>4. ClientsOf(R, content') = ClientsOf(R, content)
  <2> HIDE DEF R
  <2> QED BY <1>2, <1>3, ClientsOfSame DEF R
<1>5. Pending' = ClientsOf(R, content')
  BY <1>1 DEF Pending, ClientsOf
<1> QED BY <1>4, <1>5 DEF Pending

LEMMA ServingKept ==
  ASSUME IInv, cur' = cur, spc' = "receive" <=> spc = "receive",
         \A x \in Requests : content'[x].client = content[x].client
  PROVE  Serving' = Serving
<1>1. spc # "receive" => cur \in Requests
  BY RequestPlaces DEF IInv, HandsInv
<1> QED BY <1>1 DEF Serving

LEMMA AnswerKept ==
  ASSUME NEW c \in Clients, td'[c] = td[c], local_q'[c] = local_q[c],
         local_q[c] # None => q'[local_q[c]] = q[local_q[c]],
         pc'[c] = "read" <=> pc[c] = "read",
         held'[c] = held[c] \/ pc[c] # "read",
         AnswerBlock(c) # None =>
           content'[AnswerBlock(c)].result = content[AnswerBlock(c)].result
  PROVE  AnswerOf(c)' = AnswerOf(c)
<1>1. AnswerBlock(c)' = AnswerBlock(c)
  BY DEF AnswerBlock
<1> QED BY <1>1 DEF AnswerOf

LEMMA AllAnswersKept ==
  ASSUME \A c \in Clients : AnswerOf(c)' = AnswerOf(c)
  PROVE  Answer' = Answer
BY DEF Answer

LEMMA OneAnswer ==
  ASSUME NEW c \in Clients, NEW a, AnswerOf(c)' = a,
         \A d \in Clients : d # c => AnswerOf(d)' = AnswerOf(d)
  PROVE  Answer' = [Answer EXCEPT ![c] = a]
BY DEF Answer

(* Where an answer is: in its caller's queue, or with its caller's mark.   *)
LEMMA AnswerPlace ==
  ASSUME IInv, NEW c \in Clients, AnswerBlock(c) # None
  PROVE  /\ AnswerBlock(c) \in Blocks /\ ~FREE[AnswerBlock(c)]
         /\ AnswerBlock(c) \notin Requests /\ AnswerBlock(c) # gmsg
         /\ AnswerBlock(c) \notin MessagesIn(GQ)
         /\ \/ ~QUEUED[AnswerBlock(c)] /\ TD_PTR[AnswerBlock(c)] = c
            \/ /\ local_q[c] \in Queues /\ AnswerBlock(c) \in MessagesIn(local_q[c])
               /\ QUEUED[AnswerBlock(c)]
         /\ \A d \in Clients : d # c => AnswerBlock(d) # AnswerBlock(c)
<1>1. TypeOK /\ HeaderInv /\ OwnerInv /\ OnceQueued /\ HandsInv
  BY DEF IInv
<1>2. ASSUME NEW d \in Clients, AnswerBlock(d) # None
      PROVE  /\ AnswerBlock(d) \in Blocks /\ ~FREE[AnswerBlock(d)]
             /\ \/ ~QUEUED[AnswerBlock(d)] /\ TD_PTR[AnswerBlock(d)] = d
                \/ /\ local_q[d] \in Queues /\ QUEUED[AnswerBlock(d)]
                   /\ AnswerBlock(d) \in MessagesIn(local_q[d])
  <2>1. CASE local_q[d] # None /\ q[local_q[d]] # <<>>
    <3>1. local_q[d] \in Queues /\ local_q[d] \in QueueIds
      BY <1>1, <2>1, Names DEF TypeOK
    <3>2. AnswerBlock(d) = Head(q[local_q[d]])
      BY <2>1 DEF AnswerBlock
    <3>3. AnswerBlock(d) \in MessagesIn(local_q[d]) /\ AnswerBlock(d) \in Blocks
      BY <1>1, <2>1, <3>1, <3>2, EmptyQueue
    <3> QED BY <1>1, <3>1, <3>3 DEF HeaderInv
  <2>2. CASE ~(local_q[d] # None /\ q[local_q[d]] # <<>>)
    <3>1. \/ AnswerBlock(d) = td[d] /\ td[d] # None
          \/ AnswerBlock(d) = held[d] /\ held[d] # None
      BY <1>2, <2>2 DEF AnswerBlock
    <3> QED BY <1>1, <3>1 DEF HeaderInv, TypeOK
  <2> QED BY <2>1, <2>2
<1>3. AnswerBlock(c) \notin Requests
  <2>1. SUFFICES ASSUME AnswerBlock(c) \in Requests PROVE FALSE
    OBVIOUS
  <2>2. \A d \in Clients : held[d] # AnswerBlock(c) /\ td[d] # AnswerBlock(c)
    BY <2>1, RequestInUse
  <2>3. local_q[c] # None /\ q[local_q[c]] # <<>>
    BY <1>2, <2>2 DEF AnswerBlock
  <2>4. /\ local_q[c] \in QueueIds /\ local_q[c] # SQ
        /\ AnswerBlock(c) = Head(q[local_q[c]])
    BY <1>1, <2>3, Names DEF TypeOK, AnswerBlock
  <2>5. AnswerBlock(c) \in MessagesIn(local_q[c])
    BY <1>1, <2>3, <2>4, EmptyQueue
  <2> QED BY <2>1, <2>4, <2>5, RequestInUse
<1>4. \A i, j \in QueueIds : \A x : x \in MessagesIn(i) /\ x \in MessagesIn(j) => i = j
  BY <1>1 DEF OnceQueued, MessagesIn
<1>5. AnswerBlock(c) \notin MessagesIn(GQ)
  BY <1>1, <1>2, <1>4, Names DEF HeaderInv
<1>6. AnswerBlock(c) # gmsg
  BY <1>1, <1>2, Names DEF HeaderInv
<1>7. \A d \in Clients : d # c => AnswerBlock(d) # AnswerBlock(c)
  <2>1. SUFFICES ASSUME NEW d \in Clients, d # c, AnswerBlock(d) = AnswerBlock(c)
                 PROVE  FALSE
    OBVIOUS
  <2>2. CASE QUEUED[AnswerBlock(c)]
    <3>1. local_q[c] = local_q[d] /\ local_q[c] \in Queues
      BY <1>2, <1>4, <2>1, <2>2, Names
    <3> QED BY <1>1, <2>1, <3>1 DEF OwnerInv
  <2>3. CASE ~QUEUED[AnswerBlock(c)]
    BY <1>2, <2>1, <2>3
  <2> QED BY <2>2, <2>3
<1> QED BY <1>2, <1>3, <1>5, <1>6, <1>7

(* The usual stutter: a step that moves neither requests nor answers and   *)
(* writes no body of theirs.                                               *)
LEMMA CallsKept ==
  ASSUME IInv, UNCHANGED <<td, local_q, returned, cur>>,
         spc' = "receive" <=> spc = "receive",
         \A i \in QueueIds : i # GQ => q'[i] = q[i],
         \A c \in Clients : /\ pc'[c] = "read" <=> pc[c] = "read"
                            /\ held'[c] = held[c] \/ pc[c] # "read",
         \A x \in Blocks : ~FREE[x] /\ x # gmsg /\ x \notin MessagesIn(GQ) =>
           /\ content'[x].client = content[x].client
           /\ content'[x].result = content[x].result
              \/ x \in Requests
  PROVE  Same
<1>1. \A x \in Requests : content'[x].client = content[x].client
  BY RequestInUse, Names
<1>2. ASSUME NEW c \in Clients PROVE AnswerOf(c)' = AnswerOf(c)
  <2>1. AnswerBlock(c) # None =>
          content'[AnswerBlock(c)].result = content[AnswerBlock(c)].result
    BY AnswerPlace
  <2>2. local_q[c] # None => local_q[c] \in QueueIds /\ local_q[c] # GQ
    BY Names DEF IInv, TypeOK
  <2> QED BY <2>1, <2>2, AnswerKept
<1>3. q'[SQ] = q[SQ]
  BY Names
<1> QED BY <1>1, <1>2, <1>3, RequestsUnmoved, ServingKept, AllAnswersKept DEF Same

(***************************************************************************)
(* What each step of the messages does to the calls.                       *)
(***************************************************************************)
LEMMA OpenCalls ==
  ASSUME IInv, NEW c \in Clients, Open(c)
  PROVE  Same
<1>1. /\ pc[c] \in {"idle", "open", "run"} /\ UNCHANGED <<pools, q, td, held, returned,
                                                         server>>
      /\ \/ UNCHANGED <<local_q, pc>>
         \/ \E i \in Queues :
              /\ qowner[i] = None /\ local_q' = [local_q EXCEPT ![c] = i]
              /\ \/ pc' = [pc EXCEPT ![c] = "size"]
                 \/ pc' = [pc EXCEPT ![c] = "create"]
  BY DEF Open, At, Goto, FreeQueue
<1> USE DEF pools, server
<1>2. TypeOK /\ OwnerInv /\ HandsInv
  BY DEF IInv
<1>3. local_q[c] = None /\ td[c] = None
  BY <1>1, <1>2 DEF OwnerInv, HandsInv
<1>4. ASSUME NEW d \in Clients PROVE AnswerOf(d)' = AnswerOf(d)
  <2>1. CASE d = c
    <3>1. AnswerBlock(c) = None
      BY <1>1, <1>3 DEF AnswerBlock
    <3>2. pc'[c] # "read"
      BY <1>1, <1>2 DEF TypeOK
    <3>3. local_q'[c] = None \/ q'[local_q'[c]] = <<>>
      <4>1. CASE UNCHANGED <<local_q, pc>>
        BY <1>3, <4>1
      <4>2. ASSUME NEW i \in Queues, qowner[i] = None,
                   local_q' = [local_q EXCEPT ![c] = i]
            PROVE  q'[local_q'[c]] = <<>>
        <5>1. q[i] = <<>> /\ local_q'[c] = i
          BY <1>2, <4>2 DEF OwnerInv, TypeOK
        <5> QED BY <1>1, <5>1
      <4> QED BY <1>1, <4>1, <4>2
    <3>4. AnswerBlock(c)' = None
      BY <1>1, <1>3, <3>2, <3>3 DEF AnswerBlock
    <3> QED BY <2>1, <3>1, <3>4 DEF AnswerOf
  <2>2. CASE d # c
    <3>1. local_q'[d] = local_q[d] /\ pc'[d] = pc[d]
      BY <1>1, <1>2, <2>2 DEF TypeOK
    <3> QED BY <1>1, <3>1, AnswerKept
  <2> QED BY <2>1, <2>2
<1> QED BY <1>1, <1>4, RequestsUnmoved, ServingKept, AllAnswersKept DEF Same

(* Up to its request, a caller only handles free blocks.                   *)
LEMMA AllocationCalls ==
  ASSUME IInv, NEW c \in Clients,
         CreatePool(c) \/ TestSize(c) \/ GrowPool(c) \/ TakeMessage(c)
  PROVE  Same
<1> USE DEF pools, server, At, Goto
<1>1. TypeOK /\ HeaderInv
  BY DEF IInv
<1>2. pc[c] # "read" /\ UNCHANGED <<td, local_q, returned, q, cur, spc>>
  BY DEF CreatePool, TestSize, GrowPool, TakeMessage
<1>3. /\ \A d \in Clients : pc'[d] = "read" <=> pc[d] = "read"
      /\ \A d \in Clients : held'[d] = held[d] \/ pc[d] # "read"
  BY <1>1 DEF TypeOK, CreatePool, TestSize, GrowPool, TakeMessage
<1>4. \A x \in Blocks : ~FREE[x] => content'[x] = content[x]
  <2>1. CASE CreatePool(c) \/ TestSize(c) \/ GrowPool(c)
    BY <2>1 DEF CreatePool, TestSize, GrowPool
  <2>2. CASE TakeMessage(c)
    <3>1. \A b \in free : b \in Blocks => FREE[b]
      BY <1>1 DEF HeaderInv
    <3>2. CASE UNCHANGED content
      BY <3>2
    <3>3. ASSUME NEW b \in free \cap RequestBlocks, NEW v,
                 content' = [content EXCEPT ![b] = v]
          PROVE  \A x \in Blocks : ~FREE[x] => content'[x] = content[x]
      <4>1. b \in Blocks /\ FREE[b]
        BY <3>1, Names
      <4>2. content \in [Blocks -> Bodies]
        BY <1>1 DEF TypeOK
      <4> QED BY <3>3, <4>1, <4>2
    <3>4. \/ UNCHANGED content
          \/ \E b \in free \cap RequestBlocks :
               \E v : content' = [content EXCEPT ![b] = v]
      BY <2>2 DEF TakeMessage
    <3> QED BY <3>2, <3>3, <3>4
  <2> QED BY <2>1, <2>2
<1> QED BY <1>2, <1>3, <1>4, CallsKept

LEMMA GeneratorCalls ==
  ASSUME IInv, Poll \/ ReleaseOrDelay
  PROVE  Same
<1> USE DEF pools, server, At, Goto
<1>1. TypeOK /\ G \in Clients
  BY Names DEF IInv
<1>2. UNCHANGED <<td, local_q, returned, cur, spc, content, held>>
  BY DEF Poll, ReleaseOrDelay
<1>3. \A i \in QueueIds : i # GQ => q'[i] = q[i]
  BY <1>1 DEF TypeOK, Poll, ReleaseOrDelay, Dequeue
<1>4. pc[G] # "read" /\ \A d \in Clients : pc'[d] = "read" <=> pc[d] = "read"
  BY <1>1 DEF TypeOK, Poll, ReleaseOrDelay
<1> QED BY <1>2, <1>3, <1>4, CallsKept

LEMMA ButtonCalls ==
  ASSUME IInv, ButtonPress
  PROVE  Same
<1>1. TypeOK /\ HeaderInv
  BY DEF IInv
<1>2. UNCHANGED <<td, local_q, returned, cur, spc, pc, held>>
  BY DEF ButtonPress, callers, server
<1>3. \A i \in QueueIds : i # GQ => q'[i] = q[i]
  BY <1>1 DEF TypeOK, ButtonPress
<1>4. \A x \in Blocks : ~FREE[x] => content'[x] = content[x]
  <2>1. CASE content' = content
    BY <2>1
  <2>2. ASSUME NEW more \in SUBSET RequestBlocks,
               IF pool THEN Grow(RequestBlocks, more) ELSE more = {},
               NEW b \in (free \cup more) \cap RequestBlocks,
               content' = [content EXCEPT ![b] = EmptyBody]
        PROVE  \A x \in Blocks : ~FREE[x] => content'[x] = content[x]
    <3>1. \A y \in more : y \notin blocks
      BY <2>2 DEF Grow, Add
    <3>2. b \in Blocks /\ FREE[b]
      BY <1>1, <2>2, <3>1, Names DEF HeaderInv
    <3> QED BY <1>1, <2>2, <3>2 DEF TypeOK
  <2> QED BY <2>1, <2>2 DEF ButtonPress, pools
<1> QED BY <1>2, <1>3, <1>4, CallsKept

(* So do the scheduler's sleep, its work on a request and the end of its   *)
(* wait for a lock.                                                        *)
LEMMA ServerStutters ==
  ASSUME IInv, SleepForRequest \/ Work \/ Unblock
  PROVE  Same
<1> USE DEF pools, kernel, callers, server
<1>1. TypeOK /\ HandsInv
  BY DEF IInv
<1>2. UNCHANGED <<td, local_q, returned, cur, q, held>>
  BY DEF SleepForRequest, Work, Unblock
<1>3. spc' = "receive" <=> spc = "receive"
  BY DEF SleepForRequest, Work, Unblock
<1>4. \A d \in Clients : pc'[d] = "read" <=> pc[d] = "read"
  BY <1>1, Names DEF TypeOK, SleepForRequest, Work, Unblock
<1>5. \A x \in Blocks : /\ content'[x].client = content[x].client
                        /\ content'[x].result = content[x].result \/ x \in Requests
  <2>1. CASE SleepForRequest \/ Unblock
    BY <2>1 DEF SleepForRequest, Unblock
  <2>2. CASE Work
    <3>1. cur \in Requests
      BY <1>1, <2>2, RequestPlaces DEF Work, HandsInv
    <3> QED BY <1>1, <2>2, <3>1 DEF Work, TypeOK, Bodies
  <2> QED BY <2>1, <2>2
<1> QED BY <1>2, <1>3, <1>4, <1>5, CallsKept

(* Who has no answer: before its request, and after it has read.           *)
LEMMA NoAnswer ==
  ASSUME IInv, NEW c \in Clients, pc[c] \in {"send", "close"}
  PROVE  /\ AnswerBlock(c) = None /\ local_q[c] \in Queues
         /\ q[local_q[c]] = <<>> /\ td[c] = None
<1>1. local_q[c] \in Queues
  <2>1. local_q[c] # None
    BY DEF IInv, OwnerInv
  <2> QED BY <2>1 DEF IInv, TypeOK
<1>2. q[local_q[c]] = <<>> /\ td[c] = None
  BY <1>1 DEF IInv, HandsInv
<1> QED BY <1>1, <1>2 DEF AnswerBlock

LEMMA SendRequestCalls ==
  ASSUME IInv, NEW c \in Clients, SendRequest(c)
  PROVE  AbstractCalls!Next
<1>1. TypeOK /\ HeaderInv /\ OwnerInv /\ HandsInv /\ RequestsInv
  BY DEF IInv
<1>2. /\ pc[c] = "send" /\ Deliver(held[c], SQ)
      /\ held' = [held EXCEPT ![c] = None] /\ pc' = [pc EXCEPT ![c] = "receive"]
      /\ UNCHANGED <<content, local_q, returned, spc, cur>>
  BY DEF SendRequest, At, Goto, server
<1>3. PICK b \in Blocks : b = held[c]
  BY <1>1, <1>2 DEF HandsInv, TypeOK
<1>4. content[b].client = c
  BY <1>1, <1>2, <1>3 DEF RequestsInv, FilledIn
<1>5. qowner[SQ] = S /\ S \notin Clients /\ SQ \in QueueIds /\ b # None
  BY <1>1, Names DEF OwnerInv
<1>6. \/ /\ S \in rcv /\ td' = [td EXCEPT ![S] = b] /\ q' = q
         /\ td[S] = None /\ q[SQ] = <<>>
      \/ td' = td /\ q' = [q EXCEPT ![SQ] = Append(@, b)]
  BY <1>1, <1>2, <1>3, <1>5 DEF Deliver, HandOver, WaitsOn, HandsInv
<1> DEFINE R == RequestsInOrder
           s == IF td[S] = None THEN <<>> ELSE <<td[S]>>
<1>7. R \in Seq(Blocks) /\ \A k \in 1 .. Len(R) : R[k] \in Requests
  BY <1>1, InOrder, RequestPlaces
<1>8. R' = Append(R, b)
  <2>1. CASE S \in rcv /\ td' = [td EXCEPT ![S] = b] /\ q' = q
             /\ td[S] = None /\ q[SQ] = <<>>
    <3>1. R = <<>>
      BY <1>1, <2>1, InOrder
    <3>2. td'[S] = b /\ q'[SQ] = <<>>
      BY <1>1, <2>1 DEF TypeOK
    <3>3. <<b>> \in Seq(Blocks)
      OBVIOUS
    <3>4. R' = <<b>> \o <<>>
      BY <1>5, <3>2 DEF RequestsInOrder
    <3>5. R' = <<b>>
      BY <3>3, <3>4, ConcatEmptySeq
    <3>6. Append(<<>>, b) = <<b>>
      OBVIOUS
    <3> QED BY <3>1, <3>5, <3>6
  <2>2. CASE td' = td /\ q' = [q EXCEPT ![SQ] = Append(@, b)]
    <3>1. q[SQ] \in Seq(Blocks) /\ q'[SQ] = Append(q[SQ], b)
      BY <1>1, <1>5, <2>2 DEF TypeOK
    <3>2. s \in Seq(Blocks) /\ s' = s
      <4>1. td[S] # None => td[S] \in Blocks
        BY <1>1 DEF TypeOK
      <4> QED BY <2>2, <4>1
    <3>3. R = s \o q[SQ] /\ R' = s \o Append(q[SQ], b)
      BY <2>2, <3>1 DEF RequestsInOrder
    <3> HIDE DEF s, R
    <3>4. <<b>> \in Seq(Blocks)
      OBVIOUS
    <3>5. Append(q[SQ], b) = q[SQ] \o <<b>>
      BY <3>1, AppendIsConcat
    <3>6. s \o (q[SQ] \o <<b>>) = (s \o q[SQ]) \o <<b>>
      <4>1. \A r, m, l \in Seq(Blocks) : r \o (m \o l) = (r \o m) \o l
        <5>1. SUFFICES ASSUME NEW r \in Seq(Blocks), NEW m \in Seq(Blocks),
                              NEW l \in Seq(Blocks)
                       PROVE  r \o (m \o l) = (r \o m) \o l
          OBVIOUS
        <5> QED BY ONLY ConcatAssociative
      <4> QED BY <3>1, <3>2, <3>4, <4>1
    <3>7. R \in Seq(Blocks)
      BY <1>7 DEF R
    <3>8. Append(R, b) = R \o <<b>>
      BY <3>7, AppendIsConcat
    <3> QED BY <3>3, <3>5, <3>6, <3>8
  <2> QED BY <1>6, <2>1, <2>2
<1>9. Pending' = Append(Pending, c)
  <2>1. Pending' = ClientsOf(Append(R, b), content)
    BY <1>2, <1>8 DEF Pending, ClientsOf
  <2>2. content \in [Blocks -> Bodies]
    BY <1>1 DEF TypeOK
  <2> HIDE DEF R
  <2>3. R \in Seq(Blocks)
    BY <1>7 DEF R
  <2>4. ClientsOf(Append(R, b), content) = Append(ClientsOf(R, content), content[b].client)
    BY <2>2, <2>3, ClientsOfAppend
  <2> QED BY <1>4, <2>1, <2>4 DEF Pending, R
<1>10. \A x \in Requests : content[x].client # c
  BY <1>1, <1>2 DEF RequestsInv, IsRequest, Waits
<1>11. \A k \in DOMAIN Pending : Pending[k] # c
  <2>1. DOMAIN R = 1 .. Len(R)
    BY <1>7, LenProperties
  <2> QED BY <1>7, <1>10, <2>1 DEF Pending, ClientsOf
<1>12. Serving # c
  <2>1. spc # "receive" => cur \in Requests
    BY <1>1, RequestPlaces DEF HandsInv
  <2> QED BY <1>10, <2>1, Names DEF Serving
<1>13. AnswerOf(c) = None /\ returned[c] = None
  BY <1>1, <1>2, NoAnswer DEF AnswerOf, HandsInv
<1>14. ASSUME NEW d \in Clients PROVE AnswerOf(d)' = AnswerOf(d)
  <2>1. td'[d] = td[d] /\ \A i \in QueueIds : i # SQ => q'[i] = q[i]
    BY <1>1, <1>5, <1>6 DEF TypeOK
  <2>2. local_q[d] # None => local_q[d] \in QueueIds /\ local_q[d] # SQ
    BY <1>1, Names DEF TypeOK
  <2>3. (pc'[d] = "read" <=> pc[d] = "read") /\ (held'[d] = held[d] \/ pc[d] # "read")
    BY <1>1, <1>2 DEF TypeOK
  <2> QED BY <1>2, <2>1, <2>2, <2>3, AnswerKept
<1>15. UNCHANGED <<Serving, Answer, returned>>
  BY <1>2, <1>14, AllAnswersKept DEF Serving
<1> QED BY <1>9, <1>11, <1>12, <1>13, <1>15, RequestCalled

(* An answer passes from the queue or the descriptor into its caller's     *)
(* hands.                                                                  *)
LEMMA ReceiveCalls ==
  ASSUME IInv, NEW c \in Clients, ReceiveReply(c) \/ Wake(c)
  PROVE  Same
<1> USE DEF pools, server, At, Goto
<1>1. TypeOK /\ OwnerInv /\ HandsInv
  BY DEF IInv
<1>2. pc[c] \in {"receive", "wait"}
      /\ UNCHANGED <<content, local_q, returned, spc, cur>>
  BY DEF ReceiveReply, Wake
<1>3. local_q[c] \in Queues /\ local_q[c] \in QueueIds /\ local_q[c] # SQ
  <2>1. local_q[c] # None
    BY <1>1, <1>2 DEF OwnerInv
  <2> QED BY <1>1, <2>1, Names DEF TypeOK
<1>4. \A d \in Clients : d # c => pc'[d] = pc[d] /\ held'[d] = held[d] /\ td'[d] = td[d]
  BY <1>1 DEF ReceiveReply, Wake, Dequeue, TypeOK
<1>5. \A i \in QueueIds : i # local_q[c] => q'[i] = q[i]
  BY <1>1, <1>3 DEF ReceiveReply, Wake, Dequeue, TypeOK
<1>6. td'[S] = td[S]
  BY <1>1, Names DEF ReceiveReply, Wake, TypeOK
<1>7. AnswerBlock(c)' = AnswerBlock(c)
  <2>1. CASE ReceiveReply(c) /\ q[local_q[c]] # <<>>
    <3>1. /\ q' = [q EXCEPT ![local_q[c]] = Tail(@)] /\ td' = td
          /\ pc' = [pc EXCEPT ![c] = "read"]
          /\ held' = [held EXCEPT ![c] = Head(q[local_q[c]])]
      BY <2>1 DEF ReceiveReply, Dequeue
    <3>2. td[c] = None
      BY <1>1, <1>3, <2>1 DEF HandsInv
    <3>3. q'[local_q[c]] = <<>>
      <4>1. Len(q[local_q[c]]) = 1
        <5>1. Len(q[local_q[c]]) <= 1
          BY <1>1, <1>3 DEF OwnerInv
        <5>2. Len(q[local_q[c]]) \in Nat /\ Len(q[local_q[c]]) # 0
          BY <1>1, <1>3, <2>1, EmptyQueue
        <5>3. \A n \in Nat : n <= 1 /\ n # 0 => n = 1
          OBVIOUS
        <5> QED BY <5>1, <5>2, <5>3
      <4>2. OnceQueued
        BY DEF IInv
      <4> QED BY <1>1, <1>3, <2>1, <3>1, <4>1, <4>2, QueueTail
    <3>4. pc'[c] = "read" /\ held'[c] = Head(q[local_q[c]])
      BY <1>1, <3>1 DEF TypeOK
    <3>5. local_q[c] # None
      BY <1>1, <1>2 DEF OwnerInv
    <3>6. AnswerBlock(c) = Head(q[local_q[c]])
      BY <2>1, <3>5 DEF AnswerBlock
    <3>7. AnswerBlock(c)' = held'[c]
      BY <1>2, <3>1, <3>2, <3>3, <3>4 DEF AnswerBlock
    <3> QED BY <3>4, <3>6, <3>7
  <2>2. CASE ReceiveReply(c) /\ q[local_q[c]] = <<>>
    <3>1. td' = td /\ q' = q /\ pc[c] = "receive" /\ pc'[c] = "wait"
      BY <1>1, <2>2 DEF ReceiveReply, TypeOK
    <3> QED BY <1>2, <3>1 DEF AnswerBlock
  <2>3. CASE Wake(c)
    <3>1. /\ pc[c] = "wait" /\ c \notin rcv /\ q' = q
          /\ held'[c] = td[c] /\ td'[c] = None /\ pc'[c] = "read"
      BY <1>1, <2>3 DEF Wake, TypeOK
    <3>2. td[c] # None /\ q[local_q[c]] = <<>>
      BY <1>1, <1>3, <3>1 DEF HandsInv
    <3> QED BY <1>2, <3>1, <3>2 DEF AnswerBlock
  <2> QED BY <2>1, <2>2, <2>3
<1>8. ASSUME NEW d \in Clients PROVE AnswerOf(d)' = AnswerOf(d)
  <2>1. CASE d = c
    BY <1>2, <1>7, <2>1 DEF AnswerOf
  <2>2. CASE d # c
    <3>1. local_q[d] # None => local_q[d] \in QueueIds /\ local_q[d] # local_q[c]
      BY <1>1, <1>3, <2>2, Names DEF TypeOK, OwnerInv
    <3> QED BY <1>2, <1>4, <1>5, <2>2, <3>1, AnswerKept
  <2> QED BY <2>1, <2>2
<1>9. q'[SQ] = q[SQ]
  BY <1>3, <1>5, Names
<1> QED BY <1>2, <1>6, <1>8, <1>9, RequestsUnmoved, ServingKept, AllAnswersKept
        DEF Same

LEMMA AnswerGiven ==
  ASSUME IInv, NEW c \in Clients, AnswerBlock(c) # None
  PROVE  AnswerOf(c) \in Answers /\ AnswerOf(c) # None
<1>1. AnswerBlock(c) \in Blocks
  BY AnswerPlace
<1> QED BY <1>1, Names DEF IInv, TypeOK, Bodies, AnswerOf

(* The caller fetches its answer; whatever else waits is not freed.        *)
LEMMA ReadAnswerCalls ==
  ASSUME IInv, NEW c \in Clients, ReadAnswer(c)
  PROVE  AbstractCalls!Next
<1>1. TypeOK /\ OwnerInv /\ HandsInv
  BY DEF IInv
<1>2. /\ pc[c] = "read" /\ pc' = [pc EXCEPT ![c] = "close"]
      /\ returned' = [returned EXCEPT ![c] = content[held[c]].result]
      /\ Free({held[c]}) /\ held' = [held EXCEPT ![c] = None]
      /\ UNCHANGED <<q, td, local_q, spc, cur>>
  BY DEF ReadAnswer, At, Goto, server
<1>3. PICK b \in Blocks : b = held[c]
  BY <1>1, <1>2 DEF HandsInv, TypeOK
<1>4. local_q[c] \in Queues /\ q[local_q[c]] = <<>> /\ td[c] = None
  <2>1. local_q[c] \in Queues
    <3>1. local_q[c] # None
      BY <1>1, <1>2 DEF OwnerInv
    <3> QED BY <1>1, <3>1 DEF TypeOK
  <2> QED BY <1>1, <1>2, <2>1 DEF HandsInv
<1>5. AnswerBlock(c) = b /\ AnswerBlock(c) # None
  BY <1>2, <1>3, <1>4, Names DEF AnswerBlock
<1>6. AnswerOf(c) = content[b].result /\ AnswerOf(c) # None
  BY <1>5, AnswerGiven DEF AnswerOf
<1>7. \A x \in Blocks : x # b => content'[x] = content[x]
  BY <1>2, <1>3 DEF Free
<1>8. pc'[c] = "close" /\ \A d \in Clients : d # c => pc'[d] = pc[d] /\ held'[d] = held[d]
  BY <1>1, <1>2 DEF TypeOK
<1>9. AnswerOf(c)' = None
  <2>1. AnswerBlock(c)' = None
    BY <1>2, <1>4, <1>8 DEF AnswerBlock
  <2> QED BY <2>1 DEF AnswerOf
<1>10. ASSUME NEW d \in Clients, d # c PROVE AnswerOf(d)' = AnswerOf(d)
  <2>1. AnswerBlock(d) # None => AnswerBlock(d) \in Blocks /\ AnswerBlock(d) # b
    BY <1>5, <1>10, AnswerPlace
  <2> QED BY <1>2, <1>7, <1>8, <1>10, <2>1, AnswerKept
<1>11. \A x \in Requests : content'[x].client = content[x].client
  BY <1>3, <1>7, RequestInUse
<1>12. Answer[c] = content[b].result
  BY <1>6 DEF Answer
<1>13. Answer' = [Answer EXCEPT ![c] = None]
  BY <1>9, <1>10, OneAnswer
<1>14. Pending' = Pending /\ Serving' = Serving
  BY <1>2, <1>11, RequestsUnmoved, ServingKept
<1> QED BY <1>2, <1>3, <1>6, <1>12, <1>13, <1>14, FetchCalled

LEMMA CloseCalls ==
  ASSUME IInv, NEW c \in Clients, Close(c)
  PROVE  AbstractCalls!Next
<1>1. TypeOK /\ OwnerInv /\ HandsInv
  BY DEF IInv
<1>2. /\ pc[c] = "close"
      /\ CloseQueue(local_q[c], IF c = G THEN {gmsg} \ {None} ELSE {})
      /\ local_q' = [local_q EXCEPT ![c] = None]
      /\ returned' = [returned EXCEPT ![c] = None]
      /\ pc' = [pc EXCEPT ![c] = IF c = G THEN "loop" ELSE "idle"]
      /\ UNCHANGED <<td, held, spc, cur>>
  BY DEF Close, At, Goto, server
<1>3. local_q[c] \in Queues /\ q[local_q[c]] = <<>> /\ td[c] = None
      /\ AnswerBlock(c) = None
  BY <1>2, NoAnswer
<1>4. q' = q
  <2>1. q' = [q EXCEPT ![local_q[c]] = <<>>]
    BY <1>2 DEF CloseQueue
  <2> QED BY <1>1, <1>3, <2>1 DEF TypeOK
<1>5. \A x \in Blocks : x # gmsg => content'[x] = content[x]
  <2>1. {q[local_q[c]][k] : k \in DOMAIN q[local_q[c]]} = {}
    BY <1>3
  <2> QED BY <1>2, <2>1 DEF CloseQueue, Free
<1>6. /\ local_q'[c] = None /\ pc'[c] # "read"
      /\ \A d \in Clients : d # c => pc'[d] = pc[d] /\ local_q'[d] = local_q[d]
  BY <1>1, <1>2 DEF TypeOK
<1>7. ASSUME NEW d \in Clients PROVE AnswerOf(d)' = AnswerOf(d)
  <2>1. CASE d = c
    <3>1. AnswerBlock(c)' = None
      BY <1>2, <1>3, <1>6 DEF AnswerBlock
    <3> QED BY <1>3, <2>1, <3>1 DEF AnswerOf
  <2>2. CASE d # c
    <3>1. AnswerBlock(d) # None => AnswerBlock(d) \in Blocks /\ AnswerBlock(d) # gmsg
      BY AnswerPlace
    <3> QED BY <1>2, <1>4, <1>5, <1>6, <2>2, <3>1, AnswerKept
  <2> QED BY <2>1, <2>2
<1>8. \A x \in Requests : content'[x].client = content[x].client
  BY <1>5, RequestInUse
<1>9. UNCHANGED <<Pending, Serving, Answer>>
  BY <1>2, <1>4, <1>7, <1>8, RequestsUnmoved, ServingKept, AllAnswersKept
<1>10. returned[c] # None
  BY <1>1, <1>2 DEF HandsInv
<1> QED BY <1>2, <1>9, <1>10, ReturnCalled

(* The answer of an aborted task is dropped, in its queue or descriptor.   *)
LEMMA ExitCalls ==
  ASSUME IInv, NEW u \in Clients, Exit(u)
  PROVE  AbstractCalls!Next \/ Same
<1>1. TypeOK /\ OwnerInv /\ HandsInv /\ HeaderInv /\ OnceQueued
  BY DEF IInv
<1>2. /\ pc[u] = "exit" /\ CloseQueue(local_q[u], {})
      /\ local_q' = [local_q EXCEPT ![u] = None]
      /\ pc' = [pc EXCEPT ![u] = "sweep"]
      /\ UNCHANGED <<td, held, returned, spc, cur>>
  BY DEF Exit, At, Goto, server
<1>3. PICK i \in Queues : local_q[u] = i
  <2>1. local_q[u] # None
    BY <1>1, <1>2 DEF OwnerInv
  <2> QED BY <1>1, <2>1 DEF TypeOK
<1>4. i \in QueueIds /\ i # SQ /\ i # None
  BY Names
<1>5. /\ q' = [q EXCEPT ![i] = <<>>]
      /\ \A x \in Blocks : x \notin MessagesIn(i) => content'[x] = content[x]
  BY <1>2, <1>3 DEF CloseQueue, Free, MessagesIn
<1>6. q'[SQ] = q[SQ] /\ \A j \in QueueIds : j # i => q'[j] = q[j]
  BY <1>1, <1>4, <1>5, Names DEF TypeOK
<1>7. /\ local_q'[u] = None /\ pc'[u] = "sweep"
      /\ \A d \in Clients : d # u => pc'[d] = pc[d] /\ local_q'[d] = local_q[d]
  BY <1>1, <1>2 DEF TypeOK
<1>8. ASSUME NEW d \in Clients, d # u PROVE AnswerOf(d)' = AnswerOf(d)
  <2>1. local_q[d] # None => local_q[d] \in QueueIds /\ local_q[d] # i
    BY <1>1, <1>3, <1>8, Names DEF TypeOK, OwnerInv
  <2>2. AnswerBlock(d) # None =>
          AnswerBlock(d) \in Blocks /\ AnswerBlock(d) \notin MessagesIn(i)
    <3>1. \A j \in QueueIds : \A x : x \in MessagesIn(i) /\ x \in MessagesIn(j) => j = i
      BY <1>1, <1>4 DEF OnceQueued, MessagesIn
    <3>2. \A x \in MessagesIn(i) : x \in Blocks => QUEUED[x]
      BY <1>1, <1>4 DEF HeaderInv
    <3> QED BY <2>1, <3>1, <3>2, AnswerPlace, Names
  <2> QED BY <1>2, <1>5, <1>6, <1>7, <1>8, <2>1, <2>2, AnswerKept
<1>9. \A x \in Requests : content'[x].client = content[x].client
  BY <1>4, <1>5, RequestInUse
<1>10. Pending' = Pending /\ Serving' = Serving
  BY <1>2, <1>6, <1>9, RequestsUnmoved, ServingKept
<1>11. CASE q[i] = <<>>
  <2>1. AnswerBlock(u)' = AnswerBlock(u) /\ AnswerBlock(u) \in {td[u], None}
    BY <1>2, <1>3, <1>7, <1>11 DEF AnswerBlock
  <2>2. AnswerBlock(u) # None => content'[AnswerBlock(u)] = content[AnswerBlock(u)]
    <3>1. MessagesIn(i) = {}
      BY <1>11 DEF MessagesIn
    <3> QED BY <1>5, <3>1, AnswerPlace
  <2>3. AnswerOf(u)' = AnswerOf(u)
    BY <2>1, <2>2 DEF AnswerOf
  <2>4. Answer' = Answer
    BY <1>8, <2>3, AllAnswersKept
  <2> QED BY <1>2, <1>10, <2>4 DEF Same
<1>12. CASE q[i] # <<>>
  <2>1. AnswerBlock(u) = Head(q[i]) /\ td[u] = None
    BY <1>1, <1>3, <1>4, <1>12 DEF AnswerBlock, HandsInv
  <2>2. AnswerBlock(u) # None
    BY <1>1, <1>4, <1>12, <2>1, EmptyQueue, Names
  <2>3. AnswerBlock(u)' = None
    BY <1>2, <1>7, <2>1 DEF AnswerBlock
  <2>4. AnswerOf(u)' = None
    BY <2>3 DEF AnswerOf
  <2>5. Answer' = [Answer EXCEPT ![u] = None]
    BY <1>8, <2>4, OneAnswer
  <2>6. Answer[u] # None
    BY <2>2, AnswerGiven DEF Answer
  <2> QED BY <1>2, <1>10, <2>5, <2>6, DropCalled
<1> QED BY <1>11, <1>12

LEMMA SweepCalls ==
  ASSUME IInv, NEW u \in Clients, Sweep(u)
  PROVE  AbstractCalls!Next \/ Same
<1>1. TypeOK /\ OwnerInv /\ HandsInv /\ HeaderInv
  BY DEF IInv
<1>2. /\ pc[u] = "sweep" /\ Free(Owned(u)) /\ td' = [td EXCEPT ![u] = None]
      /\ pc' = [pc EXCEPT ![u] = "none"]
      /\ UNCHANGED <<q, local_q, held, returned, spc, cur>>
  BY DEF Sweep, At, Goto, server
<1>3. \A x \in Blocks : QUEUED[x] \/ TD_PTR[x] # u => content'[x] = content[x]
  BY <1>2 DEF Free, Owned
<1>4. /\ pc'[u] = "none" /\ td'[u] = None /\ td'[S] = td[S]
      /\ \A d \in Clients : d # u => pc'[d] = pc[d] /\ td'[d] = td[d]
  BY <1>1, <1>2, Names DEF TypeOK
<1>5. ASSUME NEW d \in Clients, d # u PROVE AnswerOf(d)' = AnswerOf(d)
  <2>1. AnswerBlock(d) # None =>
          content'[AnswerBlock(d)].result = content[AnswerBlock(d)].result
    BY <1>3, <1>5, AnswerPlace
  <2> QED BY <1>2, <1>4, <1>5, <2>1, AnswerKept
<1>6. \A x \in Requests : QUEUED[x] \/ TD_PTR[x] # u
  <2>1. \A x \in Requests : x \in Blocks
    BY RequestInUse
  <2>2. \A x \in Requests : QUEUED[x] \/ TD_PTR[x] = S
    BY <1>1, <2>1, RequestPlaces, Names DEF HeaderInv
  <2> QED BY <2>2, Names
<1>7. \A x \in Requests : content'[x].client = content[x].client
  BY <1>3, <1>6, RequestInUse
<1>8. Pending' = Pending /\ Serving' = Serving
  BY <1>2, <1>4, <1>7, RequestsUnmoved, ServingKept
<1>9. local_q[u] = None
  BY <1>1, <1>2 DEF OwnerInv
<1>10. AnswerBlock(u) = td[u] /\ AnswerBlock(u)' = None
  BY <1>2, <1>4, <1>9 DEF AnswerBlock
<1>11. AnswerOf(u)' = None
  BY <1>10 DEF AnswerOf
<1>12. CASE td[u] = None
  <2>1. AnswerOf(u) = None
    BY <1>10, <1>12 DEF AnswerOf
  <2>2. Answer' = Answer
    BY <1>5, <1>11, <2>1, AllAnswersKept
  <2> QED BY <1>2, <1>8, <2>2 DEF Same
<1>13. CASE td[u] # None
  <2>1. Answer[u] # None
    BY <1>10, <1>13, AnswerGiven DEF Answer
  <2>2. Answer' = [Answer EXCEPT ![u] = None]
    BY <1>5, <1>11, OneAnswer
  <2> QED BY <1>2, <1>8, <2>1, <2>2, DropCalled
<1> QED BY <1>12, <1>13

LEMMA TakeRequestCalls ==
  ASSUME IInv, TakeRequest
  PROVE  AbstractCalls!Next
<1>1. TypeOK /\ HeaderInv /\ content' \in [Blocks -> Bodies]
  BY TakeRequestKeeps DEF IInv, TypeOK
<1>2. PICK b : b = IF td[S] # None THEN td[S] ELSE Head(q[SQ])
  OBVIOUS
<1>3. /\ spc = "receive" /\ spc' = "work" /\ (td[S] # None \/ q[SQ] # <<>>)
      /\ q' = IF td[S] # None THEN q ELSE [q EXCEPT ![SQ] = Tail(@)]
      /\ UNCHANGED callers
  BY DEF TakeRequest
<1> USE DEF callers
<1>4. /\ b \in Requests /\ b \in Blocks /\ ~FREE[b]
      /\ q' \in [QueueIds -> Seq(Blocks)] /\ td'[S] = None
      /\ \A d \in Clients : td'[d] = td[d]
      /\ \A j \in QueueIds : j # SQ => q'[j] = q[j]
      /\ \A x \in MessagesIn(SQ)' : x # b
  BY <1>2, <1>3, Names, NextRequest
<1>5. /\ content'[cur'].client = content[b].client
      /\ \A x \in Blocks : ~FREE[x] /\ x # b => content'[x] = content[x]
  <2>1. CASE cur' = b /\ content' = content
    BY <2>1
  <2>2. ASSUME NEW more \in SUBSET ResponseBlocks, Grow(ResponseBlocks, more),
               NEW r \in (free \cup more) \cap ResponseBlocks, cur' = r,
               content' = [content EXCEPT
                 ![r] = [client |-> content[b].client, qid |-> Address(b),
                         result |-> "null"],
                 ![b] = EmptyBody]
        PROVE  /\ content'[cur'].client = content[b].client
               /\ \A x \in Blocks : ~FREE[x] /\ x # b => content'[x] = content[x]
    <3>1. \A y \in more : y \notin blocks
      BY <2>2 DEF Grow, Add
    <3>2. r \in Blocks /\ FREE[r] /\ r # b
      BY <1>1, <1>4, <2>2, <3>1, Names DEF HeaderInv
    <3> QED BY <1>1, <1>4, <2>2, <3>2 DEF TypeOK
  <2> QED BY <1>2, <2>1, <2>2 DEF TakeRequest
<1> DEFINE R == RequestsInOrder
<1>6. /\ R \in Seq(Blocks) /\ R # <<>> /\ Head(R) = b /\ Tail(R) = q'[SQ]
      /\ \A k \in 1 .. Len(R) : R[k] \in Requests
  <2>1. q'[SQ] = IF td[S] # None THEN q[SQ] ELSE Tail(q[SQ])
    BY <1>1, <1>3, Names DEF TypeOK
  <2> QED BY <1>1, <1>2, <1>3, <2>1, InOrder, RequestPlaces
<1>7. R' = Tail(R)
  <2>1. q'[SQ] \in Seq(Blocks)
    BY <1>4, Names
  <2>2. R' = <<>> \o q'[SQ]
    BY <1>4 DEF RequestsInOrder
  <2> QED BY <1>6, <2>1, <2>2, ConcatEmptySeq
<1>8. \A k \in 2 .. Len(R) : content'[R[k]].client = content[R[k]].client
  <2> SUFFICES ASSUME NEW k \in 2 .. Len(R)
               PROVE  content'[R[k]].client = content[R[k]].client
    OBVIOUS
  <2> HIDE DEF R
  <2>1. Len(R) \in Nat /\ Len(Tail(R)) = Len(R) - 1
        /\ \A j \in 1 .. Len(Tail(R)) : Tail(R)[j] = R[j + 1]
    BY <1>6, HeadTailProperties, LenProperties
  <2>2. k - 1 \in 1 .. Len(Tail(R)) /\ k = (k - 1) + 1 /\ k \in 1 .. Len(R)
    BY <2>1
  <2>3. R[k] = q'[SQ][k - 1]
    BY <1>6, <2>1, <2>2
  <2>4. k - 1 \in DOMAIN q'[SQ]
    <3>1. DOMAIN q'[SQ] = 1 .. Len(q'[SQ])
      BY <1>4, Names
    <3> QED BY <1>6, <2>2, <3>1
  <2>5. R[k] \in MessagesIn(SQ)'
    BY <2>3, <2>4 DEF MessagesIn
  <2>6. R[k] # b /\ R[k] \in Requests
    BY <1>4, <1>6, <2>2, <2>5
  <2> QED BY <1>5, <2>6, RequestInUse
<1>9. /\ Pending # <<>> /\ Head(Pending) = content[b].client
      /\ Pending' = Tail(Pending)
  <2>1. content \in [Blocks -> Bodies]
    BY <1>1 DEF TypeOK
  <2>2. Pending' = ClientsOf(Tail(R), content')
    BY <1>7 DEF Pending, ClientsOf
  <2> HIDE DEF R
  <2>3. /\ ClientsOf(R, content) # <<>>
        /\ Head(ClientsOf(R, content)) = content[Head(R)].client
        /\ ClientsOf(Tail(R), content') = Tail(ClientsOf(R, content))
    BY <1>1, <1>6, <1>8, <2>1, ClientsOfTail
  <2> QED BY <1>6, <2>2, <2>3 DEF Pending, R
<1>10. ASSUME NEW d \in Clients PROVE AnswerOf(d)' = AnswerOf(d)
  <2>1. local_q[d] # None => local_q[d] \in QueueIds /\ local_q[d] # SQ
    BY <1>1, Names DEF TypeOK
  <2>2. AnswerBlock(d) # None => content'[AnswerBlock(d)] = content[AnswerBlock(d)]
    BY <1>4, <1>5, AnswerPlace
  <2> QED BY <1>3, <1>4, <2>1, <2>2, AnswerKept
<1>11. Answer' = Answer
  BY <1>10, AllAnswersKept
<1>12. Serving = None /\ Serving' = content[b].client
  BY <1>3, <1>5 DEF Serving
<1> QED BY <1>3, <1>9, <1>11, <1>12, AcceptCalled

(* The answer goes to the caller whose request is served.                  *)
LEMMA ReplyCalls ==
  ASSUME IInv, Reply
  PROVE  AbstractCalls!Next
<1>1. TypeOK /\ OwnerInv /\ HandsInv /\ RequestsInv
  BY DEF IInv
<1>2. /\ spc = "reply" /\ spc' = "receive"
      /\ UNCHANGED <<local_q, held, returned>>
  BY DEF Reply
<1>3. cur \in Blocks /\ cur \in Requests /\ cur # None /\ IsRequest(cur)
  <2>1. cur \in Requests
    BY <1>1, <1>2, RequestPlaces DEF HandsInv
  <2> QED BY <1>1, <2>1, RequestInUse, Names DEF RequestsInv
<1>4. PICK c \in Clients, i \in Queues :
        /\ content[cur].client = c /\ content[cur].qid = i /\ local_q[c] = i
        /\ q[i] = <<>> /\ td[c] = None /\ pc[c] \in {"receive", "wait"}
  BY <1>3 DEF IsRequest, Waits
<1>5. /\ qowner[i] = c /\ i \in QueueIds /\ i # SQ /\ i # GQ /\ c # S
      /\ c # None /\ i # None
      /\ WaitsOn(c) = i
  BY <1>1, <1>4, Names DEF OwnerInv, WaitsOn
<1>6. Len(q[i]) = 0
  BY <1>4
<1>7. /\ Deliver(cur, i) /\ UNCHANGED content
      /\ pc' = IF c \in Users THEN [pc EXCEPT ![c] = "exit"] ELSE pc
  <2>1. HasRoom(i)
    BY <1>5, <1>6 DEF HasRoom
  <2> QED BY <1>4, <1>5, <2>1 DEF Reply
<1>8. \/ /\ td' = [td EXCEPT ![c] = cur] /\ q' = q
      \/ /\ td' = td /\ q' = [q EXCEPT ![i] = Append(@, cur)]
  BY <1>5, <1>7 DEF Deliver, HandOver
<1>9. \A d \in Clients : pc'[d] = "read" <=> pc[d] = "read"
  BY <1>1, <1>4, <1>7 DEF TypeOK
<1>10. AnswerBlock(c)' = cur
  <2>1. CASE td' = [td EXCEPT ![c] = cur] /\ q' = q
    <3>1. td'[c] = cur
      BY <1>1, <2>1 DEF TypeOK
    <3> QED BY <1>2, <1>3, <1>4, <2>1, <3>1 DEF AnswerBlock
  <2>2. CASE q' = [q EXCEPT ![i] = Append(@, cur)]
    <3>1. q'[i] = <<cur>>
      BY <1>1, <1>3, <1>4, <1>5, <2>2 DEF TypeOK
    <3>2. q'[i] # <<>> /\ Head(q'[i]) = cur
      BY <3>1
    <3>3. AnswerBlock(c)' = Head(q'[i])
      BY <1>2, <1>4, <1>5, <3>2 DEF AnswerBlock
    <3> QED BY <3>2, <3>3
  <2> QED BY <1>8, <2>1, <2>2
<1>11. PICK a \in Answers : a = content[cur].result
  BY <1>1, <1>3 DEF TypeOK, Bodies
<1>12. AnswerOf(c)' = a
  BY <1>3, <1>7, <1>10, <1>11 DEF AnswerOf
<1>13. ASSUME NEW d \in Clients, d # c PROVE AnswerOf(d)' = AnswerOf(d)
  <2>1. td'[d] = td[d] /\ \A j \in QueueIds : j # i => q'[j] = q[j]
    BY <1>1, <1>8, <1>13 DEF TypeOK
  <2>2. local_q[d] # None => local_q[d] \in QueueIds /\ local_q[d] # i
    BY <1>1, <1>4, <1>13, Names DEF TypeOK, OwnerInv
  <2> QED BY <1>2, <1>7, <1>9, <2>1, <2>2, AnswerKept
<1>14. Answer' = [Answer EXCEPT ![c] = a]
  BY <1>12, <1>13, OneAnswer
<1>15. Serving = c /\ Serving' = None
  BY <1>2, <1>4 DEF Serving
<1>16. Pending' = Pending
  <2>1. q'[SQ] = q[SQ] /\ td'[S] = td[S]
    BY <1>1, <1>5, <1>8, Names DEF TypeOK
  <2> QED BY <1>7, <2>1, RequestsUnmoved
<1> QED BY <1>2, <1>5, <1>14, <1>15, <1>16, GiveCalled

LEMMA NextCalls ==
  ASSUME IInv, [Next]_vars
  PROVE  AbstractCalls!Next \/ Same
<1>1. ASSUME NEW c \in Clients, ClientStep(c) PROVE AbstractCalls!Next \/ Same
  BY <1>1, OpenCalls, AllocationCalls, SendRequestCalls, ReceiveCalls,
     ReadAnswerCalls, CloseCalls, ExitCalls, SweepCalls DEF ClientStep
<1>2. CASE ServerStep \/ Unblock
  BY <1>2, ServerStutters, TakeRequestCalls, ReplyCalls DEF ServerStep
<1>3. CASE Poll \/ ReleaseOrDelay
  BY <1>3, GeneratorCalls
<1>4. CASE ButtonPress
  BY <1>4, ButtonCalls
<1>5. CASE UNCHANGED vars
  BY <1>5, CallsKept DEF vars, pools, kernel, callers, server
<1> QED BY <1>1, <1>2, <1>3, <1>4, <1>5, Names DEF Next, GeneratorStep, Stopped

(* The kernel's messages keep what the dd_ functions promise: requests are *)
(* served in the order they were sent, each is answered once, and a caller *)
(* gets the answer to its own request, whatever queue numbers and blocks   *)
(* were used before for whom.                                              *)
THEOREM CallsImplemented == Spec => ImplementsCalls
<1>1. Init => AbstractCalls!Init
  <2> SUFFICES ASSUME Init PROVE AbstractCalls!Init
    OBVIOUS
  <2>1. TypeOK /\ td[S] = None /\ q[SQ] = <<>> /\ spc = "receive"
        /\ returned = [c \in Clients |-> None]
    BY InitInv, Names DEF Init, IInv
  <2>2. RequestsInOrder = <<>>
    BY <2>1, InOrder
  <2>3. Pending = <<>>
    <3>1. DOMAIN <<>> = {}
      OBVIOUS
    <3>2. Len(RequestsInOrder) = 0
      BY <2>2
    <3>3. RequestsInOrder \in Seq(Blocks)
      BY <2>1, InOrder
    <3>4. content \in [Blocks -> Bodies]
      BY <2>1 DEF TypeOK
    <3>5. Pending \in Seq(Clients \cup {None}) /\ Len(Pending) = 0
      BY <3>2, <3>3, <3>4, ClientsOfSequence DEF Pending
    <3> QED BY <3>5, EmptySeq
  <2>4. Serving = None
    BY <2>1 DEF Serving
  <2>5. \A c \in Clients : AnswerBlock(c) = None
    BY Names DEF Init, AnswerBlock
  <2>6. Answer = [c \in Clients |-> None]
    BY <2>5 DEF Answer, AnswerOf
  <2> QED BY <2>1, <2>3, <2>4, <2>6
          DEF AbstractCalls!Init, Pending, ClientsOf, Serving, Answer, AnswerOf
<1>2. IInv /\ [Next]_vars => [AbstractCalls!Next]_<<Pending, Serving, Answer, returned>>
  BY NextCalls DEF Same
<1> QED BY <1>1, <1>2, AlwaysInv, PTL DEF Spec, ImplementsCalls, AbstractCalls!Spec,
        AbstractCalls!vars, Pending, ClientsOf, Serving, Answer, AnswerOf

-----------------------------------------------------------------------------
(***************************************************************************)
(* The bound on scheduler_resp_pool.  Its blocks are answers, each of a    *)
(* caller of its own: requests and presses come from the other pool.       *)
(***************************************************************************)
KindInv ==
  /\ \A x \in MessagesIn(SQ) : x \in RequestBlocks
  /\ \A x \in MessagesIn(GQ) : x \in RequestBlocks
  /\ td[S] \in RequestBlocks \cup {None} /\ gmsg \in RequestBlocks \cup {None}
  /\ \A c \in Clients : pc[c] = "send" => held[c] \in RequestBlocks

LEMMA QueueKinds ==
  ASSUME TypeOK, NEW i \in {SQ, GQ}, \A x \in MessagesIn(i) : x \in RequestBlocks
  PROVE  /\ q'[i] = q[i] => \A x \in MessagesIn(i)' : x \in RequestBlocks
         /\ q'[i] = Tail(q[i]) /\ q[i] # <<>> =>
              /\ Head(q[i]) \in RequestBlocks
              /\ \A x \in MessagesIn(i)' : x \in RequestBlocks
         /\ \A b \in RequestBlocks : q'[i] = Append(q[i], b) =>
              \A x \in MessagesIn(i)' : x \in RequestBlocks
<1>1. q[i] \in Seq(Blocks) /\ DOMAIN q[i] = 1 .. Len(q[i]) /\ Len(q[i]) \in Nat
  BY Names DEF TypeOK
<1>2. \A k \in 1 .. Len(q[i]) : q[i][k] \in RequestBlocks
  BY <1>1 DEF MessagesIn
<1>3. ASSUME q'[i] = q[i], NEW x \in MessagesIn(i)' PROVE x \in RequestBlocks
  BY <1>1, <1>2, <1>3 DEF MessagesIn
<1>4. ASSUME q'[i] = Tail(q[i]), q[i] # <<>>
      PROVE  Head(q[i]) \in RequestBlocks /\ \A x \in MessagesIn(i)' : x \in RequestBlocks
  <2>1. /\ Len(q[i]) # 0 /\ Head(q[i]) = q[i][1] /\ q'[i] \in Seq(Blocks)
        /\ DOMAIN q'[i] = 1 .. Len(q[i]) - 1
        /\ \A k \in 1 .. Len(q[i]) - 1 : q'[i][k] = q[i][k + 1]
    BY <1>1, <1>4
  <2>2. Head(q[i]) \in RequestBlocks
    BY <1>1, <1>2, <2>1
  <2>3. ASSUME NEW k \in 1 .. Len(q[i]) - 1 PROVE q'[i][k] \in RequestBlocks
    <3>1. k + 1 \in 1 .. Len(q[i])
      BY <1>1
    <3> QED BY <1>2, <2>1, <3>1
  <2> QED BY <2>1, <2>2, <2>3 DEF MessagesIn
<1>5. ASSUME NEW b \in RequestBlocks, q'[i] = Append(q[i], b), NEW x \in MessagesIn(i)'
      PROVE  x \in RequestBlocks
  <2>1. b \in Blocks
    BY Names
  <2>2. /\ DOMAIN q'[i] = 1 .. Len(q[i]) + 1 /\ q'[i][Len(q[i]) + 1] = b
        /\ \A k \in 1 .. Len(q[i]) : q'[i][k] = q[i][k]
    BY <1>1, <1>5, <2>1
  <2>3. \A k \in 1 .. Len(q[i]) + 1 : k \in 1 .. Len(q[i]) \/ k = Len(q[i]) + 1
    BY <1>1
  <2>4. \A k \in 1 .. Len(q[i]) + 1 : q'[i][k] \in RequestBlocks
    BY <1>2, <2>2, <2>3
  <2> QED BY <1>5, <2>2, <2>4 DEF MessagesIn
<1> QED BY <1>3, <1>4, <1>5

LEMMA ClientKinds ==
  ASSUME IInv, KindInv, NEW c \in Clients, ClientStep(c)
  PROVE  KindInv'
<1> USE DEF pools, server, At, Goto
<1>1. TypeOK /\ OwnerInv /\ HandsInv /\ S \notin Clients
  BY Names DEF IInv
<1>2. local_q[c] \in Queues \cup {None}
  BY <1>1 DEF TypeOK
<1>3. CASE Open(c) \/ CreatePool(c) \/ TestSize(c) \/ GrowPool(c)
  <2>1. UNCHANGED <<q, td, gmsg, held>> /\ \A d \in Clients : pc'[d] = "send" => pc[d] = "send"
    BY <1>1, <1>3 DEF TypeOK, Open, CreatePool, TestSize, GrowPool
  <2> QED BY <2>1, QueueSame, Names DEF KindInv
<1>4. CASE TakeMessage(c)
  <2>1. UNCHANGED <<q, td, gmsg>>
    BY <1>4 DEF TakeMessage
  <2>2. \A d \in Clients : pc'[d] = "send" => held'[d] \in RequestBlocks
    BY <1>1, <1>4 DEF TypeOK, TakeMessage, KindInv
  <2> QED BY <2>1, <2>2, QueueSame, Names DEF KindInv
<1>5. CASE SendRequest(c)
  <2>1. /\ Deliver(held[c], SQ) /\ held[c] \in RequestBlocks /\ gmsg' = gmsg
        /\ \A d \in Clients : pc'[d] = "send" => pc[d] = "send" /\ held'[d] = held[d]
    BY <1>1, <1>5 DEF SendRequest, KindInv, TypeOK
  <2>2. qowner[SQ] = S
    BY <1>1 DEF OwnerInv
  <2>3. CASE q' = q /\ td' = [td EXCEPT ![S] = held[c]]
    BY <1>1, <2>1, <2>3, QueueSame, Names DEF KindInv, TypeOK
  <2>4. CASE q' = [q EXCEPT ![SQ] = Append(@, held[c])] /\ td' = td
    <3>1. q'[SQ] = Append(q[SQ], held[c]) /\ q'[GQ] = q[GQ]
      BY <1>1, <2>4, Names DEF TypeOK
    <3> QED BY <1>1, <2>1, <2>4, <3>1, QueueKinds DEF KindInv
  <2> QED BY <2>1, <2>2, <2>3, <2>4 DEF Deliver, HandOver
<1>6. CASE ReceiveReply(c) \/ Wake(c) \/ ReadAnswer(c)
  <2>1. /\ gmsg' = gmsg /\ td'[S] = td[S]
        /\ \A d \in Clients : pc'[d] = "send" => pc[d] = "send" /\ held'[d] = held[d]
    BY <1>1, <1>6 DEF ReceiveReply, Wake, ReadAnswer, Dequeue, TypeOK
  <2>2. q'[SQ] = q[SQ] /\ q'[GQ] = q[GQ]
    BY <1>1, <1>2, <1>6, Names DEF ReceiveReply, Wake, ReadAnswer, Dequeue, TypeOK
  <2> QED BY <1>1, <2>1, <2>2, QueueKinds DEF KindInv
<1>7. CASE Close(c) \/ (c \in Users /\ (Exit(c) \/ Sweep(c)))
  <2>1. /\ gmsg' \in {gmsg, None} /\ td'[S] = td[S] /\ held' = held
        /\ \A d \in Clients : pc'[d] = "send" => pc[d] = "send"
    <3>1. CASE Close(c)
      <4>1. UNCHANGED <<td, held>> /\ gmsg' \in {gmsg, None}
        BY <3>1 DEF Close
      <4>2. \E s \in {"loop", "idle"} : pc' = [pc EXCEPT ![c] = s]
        BY <3>1 DEF Close
      <4>3. pc \in [Clients -> Steps]
        BY <1>1 DEF TypeOK
      <4>4. \A d \in Clients : pc'[d] = "send" => pc[d] = "send"
        BY <4>2, <4>3
      <4> QED BY <4>1, <4>4
    <3>2. CASE Exit(c)
      BY <1>1, <3>2 DEF Exit, TypeOK
    <3>3. CASE Sweep(c)
      BY <1>1, <3>3 DEF Sweep, TypeOK
    <3> QED BY <1>7, <3>1, <3>2, <3>3
  <2>2. q' = q \/ q' = [q EXCEPT ![local_q[c]] = <<>>]
    BY <1>7 DEF Close, Exit, Sweep, CloseQueue
  <2>3. q'[SQ] = q[SQ] /\ q'[GQ] = q[GQ]
    BY <1>1, <1>2, <2>2, Names DEF TypeOK
  <2> QED BY <1>1, <2>1, <2>3, QueueKinds DEF KindInv
<1> QED BY <1>3, <1>4, <1>5, <1>6, <1>7 DEF ClientStep

LEMMA NextKinds == IInv /\ KindInv /\ [Next]_vars => KindInv'
<1> SUFFICES ASSUME IInv, KindInv, [Next]_vars PROVE KindInv'
  OBVIOUS
<1> USE DEF pools, kernel, callers, server
<1>1. TypeOK /\ OwnerInv /\ HandsInv /\ S \notin Clients
  BY Names DEF IInv
<1>2. CASE SleepForRequest \/ Unblock \/ Stopped \/ UNCHANGED vars
  BY <1>2, QueueSame, Names DEF SleepForRequest, Unblock, Stopped, vars, KindInv
<1>3. CASE ReleaseOrDelay
  <2>1. \A d \in Clients : pc'[d] = "send" => pc[d] = "send"
    BY <1>1, <1>3 DEF ReleaseOrDelay, Goto, TypeOK
  <2> QED BY <1>3, <2>1, QueueSame, Names DEF ReleaseOrDelay, KindInv
<1>4. CASE Work
  <2>1. \A d \in Clients : pc'[d] = "send" => pc[d] = "send"
    BY <1>1, <1>4, Names DEF Work, TypeOK
  <2> QED BY <1>4, <2>1, QueueSame, Names DEF Work, KindInv
<1>5. CASE Poll
  <2>1. /\ UNCHANGED <<td, held>>
        /\ \A d \in Clients : pc'[d] = "send" => pc[d] = "send"
    BY <1>1, <1>5 DEF Poll, At, Goto, TypeOK
  <2>2. q'[SQ] = q[SQ]
    BY <1>1, <1>5, Names DEF Poll, Dequeue, TypeOK
  <2>3. CASE q[GQ] = <<>>
    BY <1>1, <1>5, <2>1, <2>3, QueueSame, Names DEF Poll, KindInv
  <2>4. CASE q[GQ] # <<>>
    <3>1. q'[GQ] = Tail(q[GQ]) /\ gmsg' = Head(q[GQ])
      BY <1>1, <1>5, <2>4, Names DEF Poll, Dequeue, TypeOK
    <3> QED BY <1>1, <2>1, <2>2, <2>4, <3>1, QueueKinds DEF KindInv
  <2> QED BY <2>3, <2>4
<1>6. CASE ButtonPress
  <2>1. UNCHANGED <<td, held, pc, gmsg>>
    BY <1>6 DEF ButtonPress
  <2>2. q' = q \/ \E b \in RequestBlocks : q' = [q EXCEPT ![GQ] = Append(@, b)]
    BY <1>6 DEF ButtonPress
  <2>3. q'[SQ] = q[SQ]
    BY <1>1, <2>2, Names DEF TypeOK
  <2>4. q'[GQ] = q[GQ] \/ \E b \in RequestBlocks : q'[GQ] = Append(q[GQ], b)
    BY <1>1, <2>2, Names DEF TypeOK
  <2> QED BY <1>1, <2>1, <2>3, <2>4, QueueKinds DEF KindInv
<1>7. CASE TakeRequest
  <2>1. UNCHANGED <<held, pc, gmsg>> /\ td'[S] = None
    BY <1>1, <1>7 DEF TakeRequest, TypeOK
  <2>2. q'[GQ] = q[GQ]
    BY <1>1, <1>7, Names DEF TakeRequest, TypeOK
  <2>3. q'[SQ] = q[SQ] \/ (q[SQ] # <<>> /\ q'[SQ] = Tail(q[SQ]))
    BY <1>1, <1>7, Names DEF TakeRequest, TypeOK
  <2> QED BY <1>1, <2>1, <2>2, <2>3, QueueKinds, Names DEF KindInv
<1>8. CASE Reply
  <2>1. UNCHANGED <<held, gmsg>> /\ \A d \in Clients : pc'[d] = "send" => pc[d] = "send"
    BY <1>1, <1>8 DEF Reply, TypeOK
  <2>2. cur \in Requests
    BY <1>1, <1>8, RequestPlaces DEF Reply, HandsInv
  <2>3. PICK c \in Clients, i \in Queues : content[cur].qid = i /\ local_q[c] = i
    BY <2>2 DEF IInv, RequestsInv, IsRequest
  <2>4. qowner[i] = c /\ c # S /\ i # SQ /\ i # GQ
    BY <1>1, <2>3, Names DEF OwnerInv
  <2>5. UNCHANGED <<td, q>> \/ Deliver(cur, i)
    BY <1>8, <2>3 DEF Reply
  <2>6. td'[S] = td[S]
    BY <1>1, <2>4, <2>5 DEF Deliver, HandOver, TypeOK
  <2>7. q'[SQ] = q[SQ] /\ q'[GQ] = q[GQ]
    BY <1>1, <2>4, <2>5, Names DEF Deliver, HandOver, TypeOK
  <2> QED BY <1>1, <2>1, <2>6, <2>7, QueueKinds DEF KindInv
<1> QED BY <1>2, <1>3, <1>4, <1>5, <1>6, <1>7, <1>8, ClientKinds, Names
        DEF Next, ServerStep, GeneratorStep

(* When no response is free, each is an answer of a caller of its own, and *)
(* the caller of the next request has none.                                *)
LEMMA ResponsesAreAnswers ==
  ASSUME IInv, KindInv, spc = "receive", NEW x \in blocks \cap ResponseBlocks,
         x \notin free
  PROVE  \E c \in Clients : AnswerBlock(c) = x
<1>1. TypeOK /\ HeaderInv /\ OwnerInv /\ HandsInv /\ NoLeak
  BY DEF IInv
<1>2. x \in Blocks /\ x \notin RequestBlocks /\ ~FREE[x] /\ x # None
  BY <1>1, Names DEF HeaderInv
<1>3. CASE QUEUED[x]
  <2>1. PICK i \in QueueIds : x \in MessagesIn(i)
    BY <1>1, <1>2, <1>3 DEF HeaderInv
  <2>2. i \in Queues
    BY <1>2, <2>1 DEF KindInv, QueueIds
  <2>3. q[i] # <<>>
    BY <2>1 DEF MessagesIn
  <2>4. PICK c \in Clients : local_q[c] = i
    BY <1>1, <2>1, <2>2, <2>3 DEF OwnerInv, TypeOK
  <2>5. x = Head(q[i])
    <3>1. q[i] \in Seq(Blocks) /\ Len(q[i]) \in Nat /\ DOMAIN q[i] = 1 .. Len(q[i])
      BY <1>1, <2>1 DEF TypeOK
    <3>2. Len(q[i]) <= 1 /\ Head(q[i]) = q[i][1]
      BY <1>1, <2>2, <2>3, <3>1 DEF OwnerInv
    <3>3. PICK k \in 1 .. Len(q[i]) : x = q[i][k]
      BY <2>1, <3>1 DEF MessagesIn
    <3>4. \A n \in Nat : n <= 1 => \A j \in 1 .. n : j = 1
      OBVIOUS
    <3>5. k = 1
      BY <3>1, <3>2, <3>3, <3>4
    <3> QED BY <3>2, <3>3, <3>5
  <2> QED BY <2>2, <2>3, <2>4, <2>5, Names DEF AnswerBlock
<1>4. CASE ~QUEUED[x]
  <2>1. cur = None /\ x # gmsg /\ x # td[S]
    BY <1>1, <1>2 DEF HandsInv, KindInv
  <2>2. \E c \in Clients : held[c] = x \/ td[c] = x
    BY <1>1, <1>2, <1>4, <2>1 DEF NoLeak
  <2>3. PICK c \in Clients : held[c] = x \/ td[c] = x
    BY <2>2
  <2>4. CASE td[c] = x
    <3>1. local_q[c] = None \/ (local_q[c] \in Queues /\ q[local_q[c]] = <<>>)
      BY <1>1, <1>2, <2>4 DEF HandsInv, TypeOK
    <3> QED BY <1>2, <2>4, <3>1 DEF AnswerBlock
  <2>5. CASE held[c] = x
    <3>1. pc[c] = "read"
      BY <1>1, <1>2, <2>5 DEF HandsInv, KindInv
    <3>2. td[c] = None
      BY <1>1, <3>1 DEF HandsInv
    <3>3. local_q[c] = None \/ (local_q[c] \in Queues /\ q[local_q[c]] = <<>>)
      BY <1>1, <3>1 DEF HandsInv, TypeOK
    <3> QED BY <1>2, <2>5, <3>1, <3>2, <3>3 DEF AnswerBlock
  <2> QED BY <2>3, <2>4, <2>5
<1> QED BY <1>3, <1>4

LEMMA Fewer ==
  ASSUME NEW R, NEW D, IsFiniteSet(D), NEW g,
         \A x \in R : \E c \in D : g[c] = x
  PROVE  IsFiniteSet(R) /\ Cardinality(R) <= Cardinality(D)
<1> DEFINE f == [x \in R |-> CHOOSE c \in D : g[c] = x]
<1>1. \A x \in R : f[x] \in D /\ g[f[x]] = x
  OBVIOUS
<1>2. f \in Injection(R, D)
  BY <1>1 DEF Injection, IsInjective
<1> QED BY <1>2, FS_Injection

LEMMA FiniteClients == IsFiniteSet(Clients) /\ Cardinality(Clients) \in Nat
<1>1. IsFiniteSet({T}) /\ {T, G} = {T} \cup {G}
  BY FS_Singleton
<1>2. IsFiniteSet({T} \cup {G})
  BY <1>1, FS_AddElement
<1>3. IsFiniteSet(Clients)
  BY <1>1, <1>2, FS_Union, MessagesAssumption DEF Clients
<1> QED BY <1>3, FS_CardinalityType

LEMMA TakeRequestBound ==
  ASSUME IInv, KindInv, ResponsePoolBounded, TakeRequest
  PROVE  ResponsePoolBounded'
<1> DEFINE R == blocks \cap ResponseBlocks
<1>1. TypeOK /\ HandsInv /\ RequestsInv
  BY DEF IInv
<1>2. spc = "receive" /\ (td[S] # None \/ q[SQ] # <<>>)
  BY DEF TakeRequest
<1>3. CASE R' = R
  BY <1>3 DEF ResponsePoolBounded
<1>4. ASSUME NEW more \in SUBSET ResponseBlocks, Grow(ResponseBlocks, more),
             blocks' = blocks \cup more, R' # R
      PROVE  ResponsePoolBounded'
  <2>1. free \cap ResponseBlocks = {} /\ more \cap blocks = {} /\ more # {}
        /\ Cardinality(more) \in {0, GrowMessages}
    BY <1>4 DEF Grow, Add
  <2>2. PICK b \in Requests : TRUE
    BY <1>2, RequestPlaces, EmptyQueue, <1>1, Names
  <2>3. PICK c \in Clients : content[b].client = c /\ Waits(c) /\ local_q[c] \in Queues
    BY <1>1, <2>2 DEF RequestsInv, IsRequest
  <2>4. AnswerBlock(c) = None
    BY <2>3 DEF AnswerBlock, Waits
  <2> DEFINE D == Clients \ {c}
             g == [d \in D |-> AnswerBlock(d)]
  <2>5. \A x \in R : \E d \in D : g[d] = x
    <3> TAKE x \in R
    <3>1. PICK d \in Clients : AnswerBlock(d) = x
      BY <1>2, <2>1, ResponsesAreAnswers
    <3>2. x # None
      BY Names
    <3> QED BY <2>4, <3>1, <3>2
  <2>6. /\ IsFiniteSet(Clients) /\ IsFiniteSet(D)
        /\ Cardinality(D) = Cardinality(Clients) - 1
        /\ Cardinality(Clients) \in Nat
    BY <2>3, FiniteClients, FS_RemoveElement
  <2>7. IsFiniteSet(R) /\ Cardinality(R) <= Cardinality(D)
    <3> HIDE DEF R, D, g
    <3> QED BY <2>5, <2>6, Fewer
  <2>8. IsFiniteSet(more)
    BY MessagesAssumption, FS_Subset
  <2>9. R' = R \cup more /\ R \cap more = {}
    BY <1>4, <2>1
  <2>10. Cardinality(R \cup more) = Cardinality(R) + Cardinality(more)
    <3>1. Cardinality(R \cap more) = 0
      BY <2>9, FS_EmptySet
    <3> HIDE DEF R
    <3>2. Cardinality(R) \in Nat /\ Cardinality(more) \in Nat
      BY <2>7, <2>8, FS_CardinalityType
    <3>3. Cardinality(R \cup more)
            = Cardinality(R) + Cardinality(more) - Cardinality(R \cap more)
      BY <2>7, <2>8, FS_Union
    <3> QED BY <3>1, <3>2, <3>3
  <2>11. Cardinality(R') < Cardinality(Clients) + GrowMessages
    <3> HIDE DEF R, D
    <3>1. Cardinality(R) \in Nat /\ Cardinality(D) \in Nat
      BY <2>6, <2>7, FS_CardinalityType
    <3>2. GrowMessages \in Nat \ {0}
      BY MessagesAssumption
    <3> QED BY <2>1, <2>6, <2>7, <2>9, <2>10, <3>1, <3>2
  <2> QED BY <2>11 DEF ResponsePoolBounded
<1>5. \/ R' = R
      \/ \E more \in SUBSET ResponseBlocks :
           Grow(ResponseBlocks, more) /\ blocks' = blocks \cup more
  BY DEF TakeRequest
<1> QED BY <1>3, <1>4, <1>5

(* scheduler_resp_pool does not grow with the number of tasks that have    *)
(* run: each of them leaves its response behind, and all come back.        *)
THEOREM ResponsesBounded == Spec => []ResponsePoolBounded
<1> DEFINE Inv == KindInv /\ ResponsePoolBounded
<1>1. Init => Inv
  <2> SUFFICES ASSUME Init PROVE Inv
    OBVIOUS
  <2>1. KindInv
    BY Names DEF Init, KindInv, MessagesIn
  <2>2. blocks \cap ResponseBlocks = blocks /\ Cardinality(blocks) = InitMessages
    BY DEF Init
  <2>3. InitMessages \in Nat
    BY MessagesAssumption
  <2>4. InitMessages <= InitMessages
    BY <2>3
  <2> QED BY <2>1, <2>2, <2>4 DEF ResponsePoolBounded
<1>2. IInv /\ Inv /\ [Next]_vars => Inv'
  <2> SUFFICES ASSUME IInv, Inv, [Next]_vars PROVE ResponsePoolBounded'
    BY NextKinds
  <2>1. CASE TakeRequest
    BY <2>1, TakeRequestBound
  <2>2. CASE blocks' \cap ResponseBlocks = blocks \cap ResponseBlocks
    BY <2>2 DEF ResponsePoolBounded
  <2>3. ASSUME ~TakeRequest
        PROVE  blocks' \cap ResponseBlocks = blocks \cap ResponseBlocks
    <3>1. blocks' = blocks \/ \E more \in SUBSET RequestBlocks : blocks' = blocks \cup more
      <4>1. ASSUME NEW c \in Clients, ClientStep(c)
            PROVE  blocks' = blocks \/ \E more \in SUBSET RequestBlocks :
                                         blocks' = blocks \cup more
        BY <4>1 DEF ClientStep, Open, CreatePool, TestSize, GrowPool, TakeMessage,
           SendRequest, ReceiveReply, Wake, ReadAnswer, Close, Exit, Sweep, pools
      <4>2. CASE ButtonPress
        BY <4>2 DEF ButtonPress, pools
      <4>3. CASE SleepForRequest \/ Work \/ Reply \/ Unblock \/ Poll \/ ReleaseOrDelay
                 \/ UNCHANGED vars
        BY <4>3 DEF SleepForRequest, Work, Reply, Unblock, Poll, ReleaseOrDelay, pools,
           vars
      <4> QED BY <2>3, <4>1, <4>2, <4>3, Names
              DEF Next, ServerStep, GeneratorStep, Stopped
    <3> QED BY <3>1, Names
  <2> QED BY <2>1, <2>2, <2>3
<1>3. Inv => ResponsePoolBounded
  OBVIOUS
<1> QED BY <1>1, <1>2, <1>3, AlwaysInv, PTL DEF Spec
-----------------------------------------------------------------------------
(***************************************************************************)
(* Queue numbers.                                                          *)
(***************************************************************************)
(* All numbers in use are open for callers other than the one that asks.   *)
LEMMA NumbersUsed ==
  ASSUME IInv, NEW c \in Clients, local_q[c] = None,
         \A i \in Queues : qowner[i] # None
  PROVE  NumQueues < Cardinality(Clients)
<1> DEFINE D == Clients \ {c}
<1>1. \A i \in Queues : \E d \in D : local_q[d] = i
  <2> TAKE i \in Queues
  <2>1. qowner[i] \in Clients /\ i # None
    BY Names DEF IInv, TypeOK, OwnerInv
  <2>2. local_q[qowner[i]] = i
    BY <2>1 DEF IInv, OwnerInv
  <2> QED BY <2>1, <2>2
<1>2. /\ IsFiniteSet(D) /\ Cardinality(D) = Cardinality(Clients) - 1
      /\ Cardinality(Clients) \in Nat
  BY FiniteClients, FS_RemoveElement
<1>3. Cardinality(Queues) <= Cardinality(D)
  <2> HIDE DEF D
  <2> QED BY <1>1, <1>2, Fewer
<1>4. NumQueues \in Nat /\ Cardinality(Queues) = NumQueues
  <2>1. NumQueues \in Nat /\ 1 \in Int /\ NumQueues \in Int
    BY MessagesAssumption
  <2>2. Cardinality(1 .. NumQueues) = IF 1 > NumQueues THEN 0 ELSE NumQueues - 1 + 1
    BY <2>1, FS_Interval
  <2> QED BY <2>1, <2>2 DEF Queues
<1> QED BY <1>2, <1>3, <1>4

(* No queue number is ever lost: with one for each client, the search for  *)
(* a free one in create_scheduler_request never fails, however often tasks *)
(* are aborted in the middle of a call and cleaned up after.               *)
THEOREM NumbersNeverLost == Spec => []NumbersSuffice
<1>1. Init => NumbersSuffice
  BY DEF Init, NumbersSuffice
<1>2. IInv /\ NumbersSuffice /\ [Next]_vars => NumbersSuffice'
  <2> SUFFICES ASSUME IInv, NumbersSuffice, [Next]_vars,
                      halted' = "queue assert", halted # "queue assert"
               PROVE  NumQueues < Cardinality(Clients)
    BY DEF NumbersSuffice
  <2>1. PICK c \in Clients : Open(c)
    <3>1. ASSUME NEW c \in Clients, ClientStep(c), ~Open(c) PROVE FALSE
      BY <3>1 DEF ClientStep, CreatePool, TestSize, GrowPool, TakeMessage,
         SendRequest, ReceiveReply, Wake, ReadAnswer, Close, Exit, Sweep
    <3>2. CASE \/ SleepForRequest \/ TakeRequest \/ Work \/ Reply \/ Unblock
               \/ Poll \/ ReleaseOrDelay \/ ButtonPress \/ UNCHANGED vars
      BY <3>2 DEF SleepForRequest, TakeRequest, Work, Reply, Unblock, Poll,
         ReleaseOrDelay, ButtonPress, vars
    <3> QED BY <3>1, <3>2, Names DEF Next, ServerStep, GeneratorStep, Stopped
  <2>2. \A i \in Queues : qowner[i] # None
    BY <2>1 DEF Open, FreeQueue
  <2>3. pc[c] \in {"idle", "open", "run"}
    BY <2>1 DEF Open, At
  <2>4. local_q[c] = None
    BY <2>3 DEF IInv, OwnerInv
  <2> QED BY <2>2, <2>4, NumbersUsed
<1> QED BY <1>1, <1>2, AlwaysInv, PTL DEF Spec
=============================================================================
