-------------------------- MODULE LinkedList_proofs --------------------------
(***************************************************************************)
(* task_list.c's pointers represent its lists, for every number of nodes   *)
(* and every deadline: the invariant IInv of LinkedList is inductive.      *)
(***************************************************************************)
EXTENDS LinkedList, TaskList_proofs

(* The place at which add_task's walk stops is the one InsertPosition      *)
(* names.                                                                  *)
LEMMA WalkStops ==
  ASSUME NEW X, NEW s \in Seq(X), NEW x \in X, NEW d \in [X -> Nat],
         NEW i \in 2 .. Len(s) + 1, Len(s) # 0, d[s[1]] <= d[x],
         \A j \in 2 .. i - 1 : d[s[j]] < d[x],
         i <= Len(s) => d[x] <= d[s[i]]
  PROVE  InsertPosition(s, x, d) = i
<1> DEFINE p == InsertPosition(s, x, d)
<1>1. /\ Len(s) \in Nat
      /\ \A j \in 1 .. Len(s) : d[s[j]] \in Nat
      /\ d[x] \in Nat
  BY LenProperties, ElementOfSeq
<1>2. /\ p \in 1 .. Len(s) + 1
      /\ p = 1 => s = <<>> \/ d[x] < d[s[1]]
      /\ p > 1 => \A j \in 2 .. p - 1 : d[s[j]] < d[x]
      /\ p > 1 /\ p <= Len(s) => d[x] <= d[s[p]]
  BY InsertPositionProperties
<1> HIDE DEF p
<1>3. s # <<>>
  BY EmptySeq
<1>4. p > 1
  <2>1. 1 \in 1 .. Len(s)
    BY <1>1
  <2> QED BY <1>1, <1>2, <1>3, <2>1
<1>5. ~(p < i)
  <2> SUFFICES ASSUME p < i PROVE FALSE
    OBVIOUS
  <2>1. p \in 2 .. i - 1 /\ p \in 1 .. Len(s)
    BY <1>1, <1>2, <1>4
  <2>2. d[s[p]] < d[x] /\ d[x] <= d[s[p]] /\ d[s[p]] \in Nat
    BY <1>1, <1>2, <1>4, <2>1
  <2> QED BY <1>1, <2>2
<1>6. ~(i < p)
  <2> SUFFICES ASSUME i < p PROVE FALSE
    OBVIOUS
  <2>1. i \in 2 .. p - 1 /\ i \in 1 .. Len(s)
    BY <1>1, <1>2, <1>4
  <2>2. d[s[i]] < d[x] /\ d[x] <= d[s[i]] /\ d[s[i]] \in Nat
    BY <1>1, <1>2, <1>4, <2>1
  <2> QED BY <1>1, <2>2
<1>7. p = i
  BY <1>1, <1>2, <1>5, <1>6
<1> QED BY <1>7 DEF p

(* An empty list, or a deadline before the head's.                         *)
LEMMA BeforeHead ==
  ASSUME NEW X, NEW s \in Seq(X), NEW x \in X, NEW d \in [X -> Nat],
         Len(s) = 0 \/ d[x] < d[s[1]]
  PROVE  InsertPosition(s, x, d) = 1
<1>1. s = <<>> \/ d[x] < d[Head(s)]
  BY EmptySeq
<1> QED BY <1>1 DEF InsertPosition

(* Relinking around a new node at place i.                                 *)
LEMMA LinksInsert ==
  ASSUME NEW s \in Seq(Nodes), NoDuplicates(s),
         NEW x \in Nodes, x \notin Tasks(s), NEW i \in 1 .. Len(s) + 1,
         NEW h, NEW nx, NEW pv, Links(h, nx, pv, s),
         NEW h2, NEW nx2, NEW pv2,
         h2 = IF i = 1 THEN x ELSE h,
         nx2[x] = IF i = Len(s) + 1 THEN NULL ELSE s[i],
         pv2[x] = IF i = 1 THEN NULL ELSE s[i - 1],
         \A j \in 1 .. Len(s) :
           /\ nx2[s[j]] = IF j = i - 1 THEN x ELSE nx[s[j]]
           /\ pv2[s[j]] = IF j = i THEN x ELSE pv[s[j]]
  PROVE  Links(h2, nx2, pv2, InsertAt(s, i, x))
<1> DEFINE a == InsertAt(s, i, x)
<1>1. Len(s) \in Nat
  BY LenProperties
<1>2. /\ Len(a) = Len(s) + 1 /\ a[i] = x
      /\ \A j \in 1 .. Len(s) + 1 : /\ j < i => a[j] = s[j]
                                    /\ i < j => a[j] = s[j - 1]
  BY InsertAtElements
<1> HIDE DEF a
<1>3. /\ h = IF Len(s) = 0 THEN NULL ELSE s[1]
      /\ \A j \in 1 .. Len(s) :
           /\ nx[s[j]] = IF j = Len(s) THEN NULL ELSE s[j + 1]
           /\ pv[s[j]] = IF j = 1 THEN NULL ELSE s[j - 1]
  BY DEF Links
<1>4. h2 = a[1]
  <2>1. CASE i = 1
    BY <1>2, <2>1
  <2>2. CASE i # 1
    BY <1>1, <1>2, <1>3, <2>2
  <2> QED BY <2>1, <2>2
<1>5. ASSUME NEW j \in 1 .. Len(s) + 1
      PROVE  /\ nx2[a[j]] = IF j = Len(s) + 1 THEN NULL ELSE a[j + 1]
             /\ pv2[a[j]] = IF j = 1 THEN NULL ELSE a[j - 1]
  <2>1. CASE j = i
    <3>1. nx2[x] = IF j = Len(s) + 1 THEN NULL ELSE a[j + 1]
      <4>1. CASE i = Len(s) + 1
        BY <2>1, <4>1
      <4>2. CASE i # Len(s) + 1
        <5>1. i + 1 \in 1 .. Len(s) + 1 /\ i < i + 1 /\ (i + 1) - 1 = i
          BY <1>1, <4>2
        <5>2. a[i + 1] = s[i]
          BY <1>2, <5>1
        <5> QED BY <2>1, <4>2, <5>2
      <4> QED BY <4>1, <4>2
    <3>2. pv2[x] = IF j = 1 THEN NULL ELSE a[j - 1]
      BY <1>1, <1>2, <2>1
    <3> QED BY <1>2, <2>1, <3>1, <3>2
  <2>2. CASE j < i
    <3>1. j \in 1 .. Len(s) /\ a[j] = s[j]
      BY <1>1, <1>2, <2>2
    <3>2. nx2[s[j]] = a[j + 1] /\ j # Len(s) + 1
      <4>1. CASE j = i - 1
        BY <1>1, <1>2, <2>2, <3>1, <4>1
      <4>2. CASE j # i - 1
        <5>1. j + 1 \in 1 .. Len(s) + 1 /\ j + 1 < i /\ j # Len(s)
          BY <1>1, <2>2, <4>2
        <5> QED BY <1>1, <1>2, <1>3, <3>1, <4>2, <5>1
      <4> QED BY <4>1, <4>2
    <3>3. pv2[s[j]] = IF j = 1 THEN NULL ELSE a[j - 1]
      <4>1. pv2[s[j]] = IF j = 1 THEN NULL ELSE s[j - 1]
        BY <1>3, <2>2, <3>1
      <4>2. CASE j # 1
        <5>1. j - 1 \in 1 .. Len(s) + 1 /\ j - 1 < i
          BY <1>1, <2>2, <3>1, <4>2
        <5> QED BY <1>2, <4>1, <5>1
      <4> QED BY <4>1, <4>2
    <3> QED BY <3>1, <3>2, <3>3
  <2>3. CASE i < j
    <3>1. j - 1 \in 1 .. Len(s) /\ a[j] = s[j - 1] /\ j - 1 # i - 1 /\ j # 1
      BY <1>1, <1>2, <2>3
    <3>2. nx2[s[j - 1]] = IF j = Len(s) + 1 THEN NULL ELSE a[j + 1]
      <4>1. nx2[s[j - 1]] = IF j - 1 = Len(s) THEN NULL ELSE s[j]
        <5>1. nx[s[j - 1]] = IF j - 1 = Len(s) THEN NULL ELSE s[(j - 1) + 1]
          BY <1>3, <3>1
        <5> QED BY <3>1, <5>1
      <4>2. CASE j = Len(s) + 1
        BY <1>1, <4>1, <4>2
      <4>3. CASE j # Len(s) + 1
        <5>1. j + 1 \in 1 .. Len(s) + 1 /\ i < j + 1 /\ (j + 1) - 1 = j /\ j - 1 # Len(s)
          BY <1>1, <2>3, <4>3
        <5>2. a[j + 1] = s[(j + 1) - 1]
          BY <1>2, <5>1
        <5> QED BY <4>1, <4>3, <5>1, <5>2
      <4> QED BY <4>2, <4>3
    <3>3. pv2[s[j - 1]] = a[j - 1]
      <4>1. CASE j - 1 = i
        BY <1>2, <3>1, <4>1
      <4>2. CASE j - 1 # i
        <5>1. /\ j - 1 \in 1 .. Len(s) + 1 /\ i < j - 1 /\ j - 1 # 1
              /\ (j - 1) - 1 = j - 2
          BY <1>1, <2>3, <4>2
        <5>2. a[j - 1] = s[(j - 1) - 1]
          BY <1>2, <5>1
        <5>3. pv[s[j - 1]] = s[(j - 1) - 1]
          BY <1>3, <3>1, <5>1
        <5> QED BY <3>1, <4>2, <5>2, <5>3
      <4> QED BY <4>1, <4>2
    <3> QED BY <3>1, <3>2, <3>3
  <2> QED BY <1>1, <2>1, <2>2, <2>3
<1>6. Links(h2, nx2, pv2, a)
  BY <1>1, <1>2, <1>4, <1>5 DEF Links
<1> QED BY <1>6 DEF a

(* Bridging over the node at place i.                                      *)
LEMMA LinksRemove ==
  ASSUME NEW s \in Seq(Nodes), NEW i \in 1 .. Len(s),
         NEW h, NEW nx, NEW pv, Links(h, nx, pv, s),
         NEW h2, NEW nx2, NEW pv2,
         h2 = IF i = 1 THEN nx[s[1]] ELSE h,
         \A j \in 1 .. Len(s) : j # i =>
           /\ nx2[s[j]] = IF j = i - 1 THEN nx[s[i]] ELSE nx[s[j]]
           /\ pv2[s[j]] = IF j = i + 1 THEN pv[s[i]] ELSE pv[s[j]]
  PROVE  Links(h2, nx2, pv2, RemoveAt(s, i))
<1> DEFINE a == RemoveAt(s, i)
<1>1. Len(s) \in Nat /\ Len(s) > 0
  BY LenProperties
<1>2. /\ Len(a) = Len(s) - 1
      /\ \A j \in 1 .. Len(s) - 1 : a[j] = IF j < i THEN s[j] ELSE s[j + 1]
  BY RemoveAtElements
<1> HIDE DEF a
<1>3. /\ h = s[1]
      /\ \A j \in 1 .. Len(s) :
           /\ nx[s[j]] = IF j = Len(s) THEN NULL ELSE s[j + 1]
           /\ pv[s[j]] = IF j = 1 THEN NULL ELSE s[j - 1]
  BY <1>1 DEF Links
<1>4. h2 = IF Len(a) = 0 THEN NULL ELSE a[1]
  <2>1. CASE i = 1
    BY <1>1, <1>2, <1>3, <2>1
  <2>2. CASE i # 1
    BY <1>1, <1>2, <1>3, <2>2
  <2> QED BY <2>1, <2>2
<1>5. ASSUME NEW j \in 1 .. Len(s) - 1
      PROVE  /\ nx2[a[j]] = IF j = Len(s) - 1 THEN NULL ELSE a[j + 1]
             /\ pv2[a[j]] = IF j = 1 THEN NULL ELSE a[j - 1]
  <2>1. CASE j < i
    <3>1. j \in 1 .. Len(s) /\ a[j] = s[j] /\ j # i /\ j # i + 1 /\ j # Len(s)
      BY <1>1, <1>2, <2>1
    <3>2. nx2[s[j]] = IF j = Len(s) - 1 THEN NULL ELSE a[j + 1]
      <4>1. CASE j = i - 1
        BY <1>1, <1>2, <1>3, <3>1, <4>1
      <4>2. CASE j # i - 1
        <5>1. j + 1 \in 1 .. Len(s) - 1 /\ j + 1 < i /\ j # Len(s) - 1
          BY <1>1, <2>1, <4>2
        <5> QED BY <1>2, <1>3, <3>1, <4>2, <5>1
      <4> QED BY <4>1, <4>2
    <3>3. pv2[s[j]] = IF j = 1 THEN NULL ELSE a[j - 1]
      BY <1>1, <1>2, <1>3, <2>1, <3>1
    <3> QED BY <3>1, <3>2, <3>3
  <2>2. CASE i <= j
    <3>1. /\ j + 1 \in 1 .. Len(s) /\ a[j] = s[j + 1]
          /\ j + 1 # i /\ j + 1 # i - 1 /\ j + 1 # 1
      BY <1>1, <1>2, <2>2
    <3>2. nx2[s[j + 1]] = IF j = Len(s) - 1 THEN NULL ELSE a[j + 1]
      <4>1. nx2[s[j + 1]] = IF j + 1 = Len(s) THEN NULL ELSE s[(j + 1) + 1]
        BY <1>3, <3>1
      <4>2. CASE j = Len(s) - 1
        BY <1>1, <4>1, <4>2
      <4>3. CASE j # Len(s) - 1
        <5>1. j + 1 \in 1 .. Len(s) - 1 /\ ~(j + 1 < i) /\ j + 1 # Len(s)
          BY <1>1, <2>2, <4>3
        <5> QED BY <1>2, <4>1, <4>3, <5>1
      <4> QED BY <4>2, <4>3
    <3>3. pv2[s[j + 1]] = IF j = 1 THEN NULL ELSE a[j - 1]
      <4>1. CASE j = i
        BY <1>1, <1>2, <1>3, <3>1, <4>1
      <4>2. CASE j # i
        <5>1. /\ j - 1 \in 1 .. Len(s) - 1 /\ ~(j - 1 < i) /\ j + 1 # i + 1
              /\ (j - 1) + 1 = j /\ (j + 1) - 1 = j /\ j # 1
          BY <1>1, <2>2, <4>2
        <5>2. pv[s[j + 1]] = s[(j + 1) - 1] /\ a[j - 1] = s[(j - 1) + 1]
          BY <1>2, <1>3, <3>1, <5>1
        <5> QED BY <3>1, <5>1, <5>2
      <4> QED BY <4>1, <4>2
    <3> QED BY <3>1, <3>2, <3>3
  <2> QED BY <1>1, <2>1, <2>2
<1>6. Links(h2, nx2, pv2, a)
  BY <1>1, <1>2, <1>4, <1>5 DEF Links
<1> QED BY <1>6 DEF a

(* Links and order of a list that a step leaves alone.                     *)
LEMMA LinksFrame ==
  ASSUME NEW s \in Seq(Nodes), NEW h, NEW nx, NEW pv, Links(h, nx, pv, s),
         NEW nx2, NEW pv2,
         \A n \in Tasks(s) : nx2[n] = nx[n] /\ pv2[n] = pv[n]
  PROVE  Links(h, nx2, pv2, s)
<1>1. \A i \in 1 .. Len(s) : nx2[s[i]] = nx[s[i]] /\ pv2[s[i]] = pv[s[i]]
  BY TasksOfSeq
<1> QED BY <1>1 DEF Links

LEMMA SortedFrame ==
  ASSUME NEW s \in Seq(Nodes), NEW d \in [Nodes -> Nat], NEW e \in [Nodes -> Nat],
         SortedByDeadline(s, d), \A n \in Tasks(s) : e[n] = d[n]
  PROVE  SortedByDeadline(s, e)
<1>1. \A i \in 1 .. Len(s) : e[s[i]] = d[s[i]]
  BY TasksOfSeq
<1> QED BY <1>1, SortedSeq

-----------------------------------------------------------------------------
(* The part of the invariant that is about the lists.                      *)
ListInv ==
  /\ Represents
  /\ \A l \in Lists : SortedByDeadline(list[l], deadline)

(* The deadlines are natural numbers, and no node is the null pointer.     *)
LEMMA NodeTypes ==
  ASSUME TypeOK
  PROVE  /\ deadline \in [Nodes -> Nat] /\ NULL \notin Nodes
         /\ LowestPriority \in Nat /\ LowestPriority > 0
         /\ \A l \in Lists : list[l] \in Seq(Nodes)
<1>1. deadline \in [Nodes -> Deadlines] /\ list \in [Lists -> Seq(Nodes)]
  BY DEF TypeOK
<1>2. Deadlines \subseteq Nat
  BY LinkedListAssumption
<1>3. deadline \in [Nodes -> Nat]
  <2>1. \A n \in Nodes : deadline[n] \in Nat
    BY <1>1, <1>2
  <2> QED BY <1>1, <2>1
<1>4. NULL \notin Nodes /\ LowestPriority \in Nat /\ LowestPriority > 0
  BY LinkedListAssumption
<1> QED BY <1>1, <1>3, <1>4

LEMMA InitInv == Init => IInv
<1> SUFFICES ASSUME Init PROVE IInv
  OBVIOUS
<1>1. TypeOK
  BY LinkedListAssumption DEF Init, TypeOK, Lists, Pointer, Steps
<1>2. \A l \in Lists : list[l] = <<>> /\ list[l] \in Seq(Nodes) /\ head[l] = NULL
  BY EmptySeq DEF Init
<1>3. \A l \in Lists : Len(list[l]) = 0 /\ Tasks(list[l]) = {}
  BY <1>2, EmptySeq, TasksOfSeq
<1>4. Separate
  <2>1. \A l \in Lists : NoDuplicates(list[l])
    BY <1>2, <1>3, NoDuplicatesSeq
  <2> QED BY <1>3, <2>1 DEF Separate, Lists
<1>5. \A l \in Lists : Links(head[l], next_cell, previous_cell, list[l])
  BY <1>2, <1>3 DEF Links
<1>6. \A l \in Lists : SortedByDeadline(list[l], deadline)
  BY <1>1, <1>2, <1>3, NodeTypes, SortedSeq
<1>7. CallInv
  BY LinkedListAssumption DEF Init, CallInv
<1> QED BY <1>1, <1>4, <1>5, <1>6, <1>7 DEF IInv, Represents

(* A step that touches neither links nor lists.                            *)
LEMMA ListsUntouched ==
  ASSUME ListInv, UNCHANGED <<head, next_cell, previous_cell, deadline, list>>
  PROVE  ListInv'
BY DEF ListInv, Represents, Separate, Links

(* A return leaves no call in progress.                                    *)
LEMMA Returned ==
  ASSUME TypeOK, Return
  PROVE  /\ CallInv'
         /\ pc' \in Steps /\ which' \in Lists /\ task' \in Pointer
         /\ iter' \in Pointer /\ tid' \in Pointer /\ priority' \in Nat
         /\ start' \in Nat /\ before' \in [Nodes -> Nat]
BY LinkedListAssumption
   DEF Return, CallInv, Steps, Lists, Pointer

(* The links after add_task has put the node of the call at place i of s.  *)
PutAt(s, i, h2, nx2, pv2) ==
  /\ h2 = IF i = 1 THEN task ELSE head[which]
  /\ nx2[task] = IF i = Len(s) + 1 THEN NULL ELSE s[i]
  /\ pv2[task] = IF i = 1 THEN NULL ELSE s[i - 1]
  /\ \A j \in 1 .. Len(s) :
       /\ nx2[s[j]] = IF j = i - 1 THEN task ELSE next_cell[s[j]]
       /\ pv2[s[j]] = IF j = i THEN task ELSE previous_cell[s[j]]
  /\ \A n \in Nodes : n # task /\ n \notin Tasks(s)
       => nx2[n] = next_cell[n] /\ pv2[n] = previous_cell[n]

(* Put there, the lists and their links agree again.                       *)
LEMMA Inserted ==
  ASSUME IInv, pc \in {"add", "walk"}, Added, deadline' = deadline,
         NEW s, s = list[which], NEW i \in 1 .. Len(s) + 1,
         i = InsertPosition(s, task, deadline),
         NEW h2, NEW nx2, NEW pv2, PutAt(s, i, h2, nx2, pv2),
         head' = [head EXCEPT ![which] = h2], next_cell' = nx2,
         previous_cell' = pv2
  PROVE  ListInv' /\ list' \in [Lists -> Seq(Nodes)]
<1> USE DEF PutAt
<1> DEFINE a == AddTask(s, task, deadline)
<1>1. /\ s \in Seq(Nodes) /\ NoDuplicates(s) /\ task \in Nodes
      /\ deadline \in [Nodes -> Nat] /\ which \in Lists
      /\ \A l \in Lists : task \notin Tasks(list[l])
      /\ Links(head[which], next_cell, previous_cell, s)
      /\ SortedByDeadline(s, deadline)
  BY NodeTypes DEF IInv, TypeOK, Represents, Separate, CallInv, Unlisted
<1>2. /\ a \in Seq(Nodes) /\ Tasks(a) = Tasks(s) \cup {task}
      /\ NoDuplicates(a) /\ SortedByDeadline(a, deadline)
  BY <1>1, AddTaskProperties, AddTaskSorted
<1>3. Links(h2, nx2, pv2, a)
  <2>1. a = InsertAt(s, i, task)
    BY DEF AddTask
  <2>2. /\ i \in 1 .. Len(s) + 1 /\ task \notin Tasks(s)
        /\ h2 = IF i = 1 THEN task ELSE head[which]
        /\ nx2[task] = IF i = Len(s) + 1 THEN NULL ELSE s[i]
        /\ pv2[task] = IF i = 1 THEN NULL ELSE s[i - 1]
        /\ \A j \in 1 .. Len(s) :
             /\ nx2[s[j]] = IF j = i - 1 THEN task ELSE next_cell[s[j]]
             /\ pv2[s[j]] = IF j = i THEN task ELSE previous_cell[s[j]]
    BY <1>1
  <2> HIDE DEF a
  <2>3. Links(h2, nx2, pv2, InsertAt(s, i, task))
    BY ONLY <1>1, <2>2, LinksInsert
  <2> QED BY <2>1, <2>3
<1>4. /\ list' = [list EXCEPT ![which] = a]
      /\ list \in [Lists -> Seq(Nodes)] /\ head \in [Lists -> Pointer]
  BY DEF Added, IInv, TypeOK
<1> HIDE DEF a
<1>5. list' \in [Lists -> Seq(Nodes)]
  BY <1>1, <1>2, <1>4
<1>6. ASSUME NEW l \in Lists, l # which
      PROVE  /\ list'[l] = list[l] /\ head'[l] = head[l]
             /\ Tasks(list[l]) \cap Tasks(s) = {}
             /\ Links(head[l], nx2, pv2, list[l])
  <2>1. list'[l] = list[l] /\ head'[l] = head[l]
    BY <1>4, <1>6
  <2>2. Tasks(list[l]) \cap Tasks(s) = {} /\ Tasks(list[l]) \subseteq Nodes
    BY <1>1, <1>4, <1>6, TasksOfSeq DEF IInv, Represents, Separate, Lists
  <2>3. Links(head[l], next_cell, previous_cell, list[l]) /\ list[l] \in Seq(Nodes)
    BY <1>4 DEF IInv, Represents
  <2>4. \A n \in Tasks(list[l]) :
          nx2[n] = next_cell[n] /\ pv2[n] = previous_cell[n]
    BY <1>1, <2>2
  <2> QED BY <2>1, <2>2, <2>3, <2>4, LinksFrame
<1>7. list'[which] = a /\ head'[which] = h2
  BY <1>1, <1>4
<1>8. Separate'
  <2>1. \A l \in Lists : NoDuplicates(list'[l])
    BY <1>2, <1>6, <1>7 DEF IInv, Represents, Separate
  <2>2. Tasks(list'["active"]) \cap Tasks(list'["overdue"]) = {}
    BY <1>1, <1>2, <1>6, <1>7 DEF Lists
  <2> QED BY <2>1, <2>2 DEF Separate
<1>9. \A l \in Lists : Links(head'[l], next_cell', previous_cell', list'[l])
  BY <1>3, <1>6, <1>7
<1>10. \A l \in Lists : SortedByDeadline(list'[l], deadline')
  BY <1>2, <1>6, <1>7 DEF IInv
<1> QED BY <1>5, <1>8, <1>9, <1>10 DEF ListInv, Represents

(* The walk's node taken out of the list of the call.                      *)
LEMMA Removed ==
  ASSUME IInv, pc = "find", Unlink
  PROVE  ListInv' /\ TypeOK'
<1> DEFINE s == list[which]
           a == DeleteTask(s, task)
<1>1. /\ s \in Seq(Nodes) /\ NoDuplicates(s) /\ Len(s) \in Nat
      /\ deadline \in [Nodes -> Nat] /\ which \in Lists
      /\ Links(head[which], next_cell, previous_cell, s)
      /\ SortedByDeadline(s, deadline)
      /\ list \in [Lists -> Seq(Nodes)] /\ head \in [Lists -> Pointer]
      /\ next_cell \in [Nodes -> Pointer] /\ previous_cell \in [Nodes -> Pointer]
      /\ NULL \notin Nodes
  BY NodeTypes, LenProperties DEF IInv, TypeOK, Represents, Separate
<1>2. PICK k \in 1 .. Len(s) : task = s[k]
  BY DEF Unlink, IInv, CallInv, Finding
<1>3. task \in Tasks(s) /\ task \in Nodes /\ Position(s, task) = k
  <2>1. task \in Tasks(s)
    BY <1>1, <1>2, IndexTasks
  <2>2. Position(s, task) \in 1 .. Len(s) /\ s[Position(s, task)] = task
    BY <1>1, <2>1, PositionProperties
  <2> QED BY <1>1, <1>2, <2>1, <2>2, NoDuplicatesSeq, TasksOfSeq
<1>4. /\ a \in Seq(Nodes) /\ Tasks(a) = Tasks(s) \ {task}
      /\ NoDuplicates(a) /\ SortedByDeadline(a, deadline)
  BY <1>1, <1>3, DeleteTaskProperties, DeleteTaskSorted
<1>5. /\ \A j \in 1 .. Len(s) : s[j] \in Nodes
      /\ \A i, j \in 1 .. Len(s) : s[i] = s[j] => i = j
      /\ head[which] = s[1]
      /\ \A i \in 1 .. Len(s) :
           /\ next_cell[s[i]] = IF i = Len(s) THEN NULL ELSE s[i + 1]
           /\ previous_cell[s[i]] = IF i = 1 THEN NULL ELSE s[i - 1]
  BY <1>1, <1>2, ElementOfSeq, NoDuplicatesSeq DEF Links
<1>6. PICK h2, nx2, pv2 : /\ h2 = head'[which]
                          /\ nx2 = next_cell' /\ pv2 = previous_cell'
  OBVIOUS
<1>7. /\ k = 1 => head' = [head EXCEPT ![which] = next_cell[task]]
                  /\ nx2 = next_cell
      /\ k # 1 => nx2 = [next_cell EXCEPT ![s[k - 1]] = next_cell[task]]
                  /\ head' = head
      /\ pv2 = [n \in Nodes |-> IF n = next_cell[task] THEN previous_cell[task]
                                                       ELSE previous_cell[n]]
  <2>1. CASE k = 1
    BY <1>2, <1>5, <1>6, <2>1 DEF Unlink
  <2>2. CASE k # 1
    <3>1. k - 1 \in 1 .. Len(s)
      BY <1>1, <2>2
    <3>2. previous_cell[task] = s[k - 1] /\ s[k - 1] # NULL
      BY <1>1, <1>2, <1>5, <2>2, <3>1
    <3> QED BY <1>6, <2>2, <3>2 DEF Unlink
  <2> QED BY <2>1, <2>2
<1>8. /\ head' = [head EXCEPT ![which] = h2]
      /\ h2 = IF k = 1 THEN next_cell[s[1]] ELSE head[which]
  BY <1>1, <1>2, <1>6, <1>7
<1>9. ASSUME NEW j \in 1 .. Len(s), j # k
      PROVE  /\ nx2[s[j]] = IF j = k - 1 THEN next_cell[s[k]] ELSE next_cell[s[j]]
             /\ pv2[s[j]] = IF j = k + 1 THEN previous_cell[s[k]]
                                         ELSE previous_cell[s[j]]
  <2>1. nx2[s[j]] = IF j = k - 1 THEN next_cell[s[k]] ELSE next_cell[s[j]]
    <3>1. CASE k = 1
      BY <1>1, <1>7, <3>1
    <3>2. CASE k # 1
      <4>1. k - 1 \in 1 .. Len(s)
        BY <1>1, <3>2
      <4>2. s[j] = s[k - 1] <=> j = k - 1
        BY <1>5, <4>1
      <4> QED BY <1>1, <1>2, <1>5, <1>7, <3>2, <4>2
    <3> QED BY <3>1, <3>2
  <2>2. s[j] = next_cell[task] <=> j = k + 1
    <3>1. CASE k = Len(s)
      BY <1>1, <1>2, <1>5, <3>1
    <3>2. CASE k # Len(s)
      <4>1. k + 1 \in 1 .. Len(s) /\ next_cell[task] = s[k + 1]
        BY <1>1, <1>2, <1>5, <3>2
      <4> QED BY <1>5, <4>1
    <3> QED BY <3>1, <3>2
  <2> QED BY <1>2, <1>5, <1>7, <2>1, <2>2
<1>10. Links(h2, nx2, pv2, a)
  <2>1. a = RemoveAt(s, k)
    BY <1>3 DEF DeleteTask
  <2>2. /\ s \in Seq(Nodes) /\ k \in 1 .. Len(s)
        /\ Links(head[which], next_cell, previous_cell, s)
        /\ h2 = IF k = 1 THEN next_cell[s[1]] ELSE head[which]
    BY <1>1, <1>8
  <2>3. \A j \in 1 .. Len(s) : j # k =>
          /\ nx2[s[j]] = IF j = k - 1 THEN next_cell[s[k]] ELSE next_cell[s[j]]
          /\ pv2[s[j]] = IF j = k + 1 THEN previous_cell[s[k]]
                                      ELSE previous_cell[s[j]]
    BY <1>9
  <2> HIDE DEF s, a
  <2>4. Links(h2, nx2, pv2, RemoveAt(s, k))
    <3>1. PICK nx, pv, h : nx = next_cell /\ pv = previous_cell /\ h = head[which]
      OBVIOUS
    <3>2. /\ s \in Seq(Nodes) /\ k \in 1 .. Len(s) /\ Links(h, nx, pv, s)
          /\ h2 = IF k = 1 THEN nx[s[1]] ELSE h
      BY <2>2, <3>1
    <3>3. \A j \in 1 .. Len(s) : j # k =>
            /\ nx2[s[j]] = IF j = k - 1 THEN nx[s[k]] ELSE nx[s[j]]
            /\ pv2[s[j]] = IF j = k + 1 THEN pv[s[k]] ELSE pv[s[j]]
      BY <2>3, <3>1
    <3> QED BY ONLY <3>2, <3>3, LinksRemove
  <2> QED BY <2>1, <2>4
<1>11. list' = [list EXCEPT ![which] = a] /\ deadline' = deadline
  BY DEF Unlink
<1>12. /\ nx2 \in [Nodes -> Pointer] /\ pv2 \in [Nodes -> Pointer]
       /\ h2 \in Pointer
       /\ \A n \in Nodes : n \notin Tasks(s)
            => nx2[n] = next_cell[n] /\ pv2[n] = previous_cell[n]
  <2>1. previous_cell[task] \in Pointer /\ next_cell[task] \in Pointer
        /\ head[which] \in Pointer
    BY <1>1, <1>3
  <2>2. \A n \in Nodes : n \notin Tasks(s) => pv2[n] = previous_cell[n]
    <3> SUFFICES ASSUME NEW n \in Nodes, n \notin Tasks(s)
                 PROVE  n # next_cell[task]
      BY <1>7
    <3>1. CASE k = Len(s)
      BY <1>1, <1>2, <1>5, <3>1
    <3>2. CASE k # Len(s)
      <4>1. k + 1 \in 1 .. Len(s) /\ next_cell[task] = s[k + 1]
        BY <1>1, <1>2, <1>5, <3>2
      <4> QED BY <1>1, <4>1, IndexTasks
    <3> QED BY <3>1, <3>2
  <2>3. \A n \in Nodes : n \notin Tasks(s) => nx2[n] = next_cell[n]
    <3>1. k # 1 => s[k - 1] \in Tasks(s)
      <4>1. k # 1 => k - 1 \in 1 .. Len(s)
        BY <1>1
      <4> QED BY <1>1, <4>1, IndexTasks
    <3> QED BY <1>1, <1>7, <3>1
  <2>4. nx2 \in [Nodes -> Pointer]
    BY <1>1, <1>7, <2>1
  <2>5. pv2 \in [Nodes -> Pointer]
    BY <1>1, <1>7, <2>1
  <2>6. h2 \in Pointer
    BY <1>2, <1>8, <2>1
  <2> QED BY <2>2, <2>3, <2>4, <2>5, <2>6
<1> HIDE DEF a
<1>13. ASSUME NEW l \in Lists, l # which
       PROVE  /\ list'[l] = list[l] /\ head'[l] = head[l]
              /\ Tasks(list[l]) \cap Tasks(s) = {}
              /\ Links(head[l], nx2, pv2, list[l])
  <2>1. list'[l] = list[l] /\ head'[l] = head[l]
    BY <1>1, <1>8, <1>11, <1>13
  <2>2. Tasks(list[l]) \cap Tasks(s) = {} /\ Tasks(list[l]) \subseteq Nodes
    BY <1>1, <1>13, TasksOfSeq DEF IInv, Represents, Separate, Lists
  <2>3. Links(head[l], next_cell, previous_cell, list[l]) /\ list[l] \in Seq(Nodes)
    BY <1>1 DEF IInv, Represents
  <2>4. \A n \in Tasks(list[l]) :
          nx2[n] = next_cell[n] /\ pv2[n] = previous_cell[n]
    BY <1>12, <2>2
  <2> QED BY <2>1, <2>2, <2>3, <2>4, LinksFrame
<1>14. list'[which] = a /\ head'[which] = h2
  BY <1>1, <1>8, <1>11
<1>15. Separate'
  <2>1. \A l \in Lists : NoDuplicates(list'[l])
    BY <1>4, <1>13, <1>14 DEF IInv, Represents, Separate
  <2>2. Tasks(list'["active"]) \cap Tasks(list'["overdue"]) = {}
    BY <1>1, <1>4, <1>13, <1>14 DEF Lists, IInv, Represents, Separate
  <2> QED BY <2>1, <2>2 DEF Separate
<1>16. \A l \in Lists : Links(head'[l], next_cell', previous_cell', list'[l])
  BY <1>6, <1>10, <1>13, <1>14
<1>17. \A l \in Lists : SortedByDeadline(list'[l], deadline')
  BY <1>4, <1>11, <1>13, <1>14 DEF IInv
<1>18. TypeOK'
  <2>1. list' \in [Lists -> Seq(Nodes)]
    BY <1>1, <1>4, <1>11
  <2>2. head' \in [Lists -> Pointer]
    BY <1>1, <1>8, <1>12
  <2> QED BY <1>6, <1>12, <2>1, <2>2, Returned DEF Unlink, IInv, TypeOK
<1> QED BY <1>15, <1>16, <1>17, <1>18 DEF ListInv, Represents

-----------------------------------------------------------------------------
(* What the invariant says of the list of a call.                          *)
LEMMA CallList ==
  ASSUME IInv, NEW s, s = list[which]
  PROVE  /\ s \in Seq(Nodes) /\ Len(s) \in Nat
         /\ \A j \in 1 .. Len(s) : s[j] \in Nodes
         /\ \A i, j \in 1 .. Len(s) : s[i] = s[j] => i = j
         /\ head[which] = IF Len(s) = 0 THEN NULL ELSE s[1]
         /\ \A i \in 1 .. Len(s) :
              /\ next_cell[s[i]] = IF i = Len(s) THEN NULL ELSE s[i + 1]
              /\ previous_cell[s[i]] = IF i = 1 THEN NULL ELSE s[i - 1]
<1>1. which \in Lists /\ TypeOK /\ NoDuplicates(s)
      /\ Links(head[which], next_cell, previous_cell, s)
  BY DEF IInv, TypeOK, Represents, Separate
<1>2. s \in Seq(Nodes)
  BY <1>1, NodeTypes
<1> QED BY <1>1, <1>2, LenProperties, ElementOfSeq, NoDuplicatesSeq DEF Links

(* The caller hands over a node that is on neither list.                   *)
LEMMA StartAddInv ==
  ASSUME IInv, NEW l \in Lists, NEW n \in Nodes, NEW d \in Deadlines,
         StartAdd(l, n, d)
  PROVE  IInv'
<1>1. TypeOK /\ deadline \in [Nodes -> Nat] /\ d \in Nat
      /\ \A k \in Lists : list[k] \in Seq(Nodes)
  BY NodeTypes, LinkedListAssumption DEF IInv
<1>2. TypeOK'
  BY <1>1 DEF TypeOK, StartAdd, Pointer, Steps
<1>3. PICK nx2, pv2, e :
        /\ nx2 = next_cell' /\ pv2 = previous_cell' /\ e = deadline'
  OBVIOUS
<1>4. /\ \A m \in Nodes : m # n =>
           nx2[m] = next_cell[m] /\ pv2[m] = previous_cell[m] /\ e[m] = deadline[m]
      /\ e \in [Nodes -> Nat]
  BY <1>1, <1>3 DEF StartAdd, TypeOK
<1>5. ASSUME NEW k \in Lists
      PROVE  /\ Links(head[k], nx2, pv2, list[k])
             /\ SortedByDeadline(list[k], e)
  <2>1. \A m \in Tasks(list[k]) : m \in Nodes /\ m # n
    BY <1>1, TasksOfSeq DEF StartAdd, Unlisted
  <2>2. Links(head[k], next_cell, previous_cell, list[k])
        /\ SortedByDeadline(list[k], deadline)
    BY DEF IInv, Represents
  <2>3. \A m \in Tasks(list[k]) :
          nx2[m] = next_cell[m] /\ pv2[m] = previous_cell[m] /\ e[m] = deadline[m]
    BY <1>4, <2>1
  <2>4. Links(head[k], nx2, pv2, list[k])
    BY <1>1, <2>2, <2>3, LinksFrame
  <2>5. SortedByDeadline(list[k], e)
    BY <1>1, <1>4, <2>2, <2>3, SortedFrame
  <2> QED BY <2>4, <2>5
<1>6. Represents' /\ \A k \in Lists : SortedByDeadline(list'[k], deadline')
  <2>1. Separate'
    BY DEF IInv, Represents, Separate, StartAdd
  <2>2. head' = head /\ list' = list
    BY DEF StartAdd
  <2> QED BY <1>3, <1>5, <2>1, <2>2 DEF Represents
<1>7. CallInv'
  BY <1>1 DEF CallInv, StartAdd, IInv, Unlisted, TypeOK
<1> QED BY <1>2, <1>6, <1>7 DEF IInv

(* The call returns with the new node where InsertPosition says.           *)
LEMMA InsertReturns ==
  ASSUME IInv, pc \in {"add", "walk"}, Added, Return, UNCHANGED <<deadline, prio>>,
         ListInv', list' \in [Lists -> Seq(Nodes)],
         head' \in [Lists -> Pointer], next_cell' \in [Nodes -> Pointer],
         previous_cell' \in [Nodes -> Pointer]
  PROVE  IInv'
<1>1. TypeOK
  BY DEF IInv
<1>2. TypeOK'
  BY <1>1, Returned DEF TypeOK
<1> QED BY <1>1, <1>2, Returned DEF IInv, ListInv

LEMMA AddToEmptyInv == ASSUME IInv, AddToEmpty PROVE IInv'
<1>1. /\ TypeOK /\ pc = "add" /\ task \in Nodes /\ which \in Lists
      /\ deadline \in [Nodes -> Nat] /\ NULL \notin Nodes
  BY NodeTypes DEF IInv, TypeOK, CallInv, AddToEmpty
<1>2. PICK s : s = list[which]
  OBVIOUS
<1>3. s \in Seq(Nodes) /\ Len(s) = 0
  <2>1. head[which] = NULL
    BY DEF AddToEmpty, IInv, CallInv
  <2>2. /\ s \in Seq(Nodes) /\ Len(s) \in Nat
        /\ \A j \in 1 .. Len(s) : s[j] \in Nodes
        /\ head[which] = IF Len(s) = 0 THEN NULL ELSE s[1]
    BY <1>2, CallList
  <2> QED BY <1>1, <2>1, <2>2
<1>4. InsertPosition(s, task, deadline) = 1
  BY <1>1, <1>3, BeforeHead
<1>5. PICK nx2, pv2, h2 :
        nx2 = next_cell' /\ pv2 = previous_cell' /\ h2 = task
  OBVIOUS
<1>6. /\ nx2 = next_cell /\ pv2 = previous_cell
      /\ nx2[task] = NULL /\ pv2[task] = NULL
  BY <1>5 DEF AddToEmpty, IInv, CallInv
<1>7. Added /\ deadline' = deadline /\ head' = [head EXCEPT ![which] = h2]
      /\ Return /\ UNCHANGED <<deadline, prio>>
  BY <1>5 DEF AddToEmpty
<1>8. ListInv' /\ list' \in [Lists -> Seq(Nodes)]
  <2>1. PutAt(s, 1, h2, nx2, pv2)
    <3>1. \A j \in 1 .. Len(s) : FALSE
      BY <1>3
    <3> QED BY <1>3, <1>5, <1>6, <3>1 DEF PutAt
  <2>2. 1 \in 1 .. Len(s) + 1
    BY <1>3
  <2> QED BY <1>1, <1>2, <1>4, <1>5, <1>7, <2>1, <2>2, Inserted
<1>9. /\ head' \in [Lists -> Pointer] /\ next_cell' \in [Nodes -> Pointer]
      /\ previous_cell' \in [Nodes -> Pointer]
  BY <1>1, <1>5, <1>6, <1>7 DEF TypeOK, Pointer
<1> QED BY <1>1, <1>7, <1>8, <1>9, InsertReturns

LEMMA AddFirstInv == ASSUME IInv, AddFirst PROVE IInv'
<1>1. /\ TypeOK /\ pc = "add" /\ task \in Nodes /\ which \in Lists
      /\ deadline \in [Nodes -> Nat] /\ NULL \notin Nodes
      /\ task \notin Tasks(list[which])
      /\ next_cell \in [Nodes -> Pointer] /\ previous_cell \in [Nodes -> Pointer]
      /\ head \in [Lists -> Pointer]
  BY NodeTypes DEF IInv, TypeOK, CallInv, AddFirst, Unlisted
<1>2. PICK s : s = list[which]
  OBVIOUS
<1>3. /\ s \in Seq(Nodes) /\ Len(s) \in Nat
      /\ \A j \in 1 .. Len(s) : s[j] \in Nodes
      /\ \A i, j \in 1 .. Len(s) : s[i] = s[j] => i = j
      /\ head[which] = IF Len(s) = 0 THEN NULL ELSE s[1]
      /\ \A i \in 1 .. Len(s) :
           /\ next_cell[s[i]] = IF i = Len(s) THEN NULL ELSE s[i + 1]
           /\ previous_cell[s[i]] = IF i = 1 THEN NULL ELSE s[i - 1]
  BY <1>2, CallList
<1>4. /\ Len(s) > 0 /\ iter = s[1] /\ s[1] \in Nodes
      /\ previous_cell[iter] = NULL /\ deadline[task] < deadline[s[1]]
      /\ \A j \in 1 .. Len(s) : s[j] # task /\ (s[j] = iter <=> j = 1)
  <2>1. iter = head[which] /\ iter # NULL
    BY DEF AddFirst, IInv, CallInv
  <2>2. Len(s) > 0 /\ iter = s[1]
    BY <1>3, <2>1
  <2>3. 1 \in 1 .. Len(s)
    BY <1>3, <2>2
  <2>4. deadline[task] < deadline[s[1]]
    BY <2>2 DEF AddFirst
  <2>5. \A j \in 1 .. Len(s) : s[j] # task
    BY <1>1, <1>2, <1>3, IndexTasks
  <2>6. previous_cell[iter] = NULL
    BY <1>3, <2>2, <2>3
  <2>7. \A j \in 1 .. Len(s) : s[j] = iter <=> j = 1
    BY <1>3, <2>2, <2>3
  <2> QED BY <1>3, <2>2, <2>3, <2>4, <2>5, <2>6, <2>7
<1>5. InsertPosition(s, task, deadline) = 1
  BY <1>1, <1>3, <1>4, BeforeHead
<1>6. PICK nx2, pv2, h2 :
        nx2 = next_cell' /\ pv2 = previous_cell' /\ h2 = task
  OBVIOUS
<1>7. /\ nx2 = [next_cell EXCEPT ![task] = iter]
      /\ pv2 = [previous_cell EXCEPT ![task] = NULL, ![iter] = task]
      /\ Added /\ deadline' = deadline /\ head' = [head EXCEPT ![which] = h2]
      /\ Return /\ UNCHANGED <<deadline, prio>>
  BY <1>4, <1>6 DEF AddFirst
<1>8. /\ nx2[task] = s[1] /\ pv2[task] = NULL
      /\ \A j \in 1 .. Len(s) :
           /\ nx2[s[j]] = next_cell[s[j]]
           /\ pv2[s[j]] = IF j = 1 THEN task ELSE previous_cell[s[j]]
      /\ \A n \in Nodes : n # task /\ n \notin Tasks(s)
           => nx2[n] = next_cell[n] /\ pv2[n] = previous_cell[n]
  <2>1. \A n \in Nodes : n \notin Tasks(s) => n # iter
    BY <1>3, <1>4, IndexTasks
  <2>2. task # iter
    BY <1>3, <1>4
  <2> HIDE <1>6
  <2>3. nx2[task] = s[1] /\ \A j \in 1 .. Len(s) : nx2[s[j]] = next_cell[s[j]]
    BY <1>1, <1>3, <1>4, <1>7
  <2>4. /\ pv2[task] = NULL
        /\ \A j \in 1 .. Len(s) :
             pv2[s[j]] = IF j = 1 THEN task ELSE previous_cell[s[j]]
    BY <1>1, <1>3, <1>4, <1>7, <2>2
  <2> QED BY <1>1, <1>7, <2>1, <2>3, <2>4
<1>9. ListInv' /\ list' \in [Lists -> Seq(Nodes)]
  <2>1. PutAt(s, 1, h2, nx2, pv2)
    <3>1. \A j \in 1 .. Len(s) : j # 1 - 1
      BY <1>3
    <3> QED BY <1>3, <1>4, <1>6, <1>8, <3>1 DEF PutAt
  <2>2. 1 \in 1 .. Len(s) + 1
    BY <1>3
  <2> QED BY <1>1, <1>2, <1>5, <1>6, <1>7, <2>1, <2>2, Inserted
<1>10. /\ head' \in [Lists -> Pointer] /\ next_cell' \in [Nodes -> Pointer]
       /\ previous_cell' \in [Nodes -> Pointer]
  <2>1. iter \in Pointer /\ task \in Pointer /\ NULL \in Pointer
    BY <1>1, <1>4 DEF Pointer
  <2>2. nx2 \in [Nodes -> Pointer]
    BY <1>1, <1>7, <2>1
  <2>3. pv2 \in [Nodes -> Pointer]
    BY <1>1, <1>7, <2>1
  <2>4. [head EXCEPT ![which] = h2] \in [Lists -> Pointer]
    BY <1>1, <1>6, <2>1
  <2> QED BY ONLY <1>6, <1>7, <2>2, <2>3, <2>4
<1> QED BY <1>1, <1>7, <1>9, <1>10, InsertReturns

LEMMA AddNotFirstInv == ASSUME IInv, AddNotFirst PROVE IInv'
<1>1. /\ TypeOK /\ pc = "add" /\ task \in Nodes /\ which \in Lists
      /\ deadline \in [Nodes -> Nat] /\ NULL \notin Nodes /\ Unlisted(task)
  BY NodeTypes DEF IInv, TypeOK, CallInv, AddNotFirst
<1>2. TypeOK'
  BY <1>1 DEF AddNotFirst, TypeOK, Steps, pointers
<1>3. ListInv'
  BY ListsUntouched DEF AddNotFirst, IInv, ListInv, pointers
<1>4. PICK s : s = list[which]
  OBVIOUS
<1>5. Walking(s)
  <2>1. /\ s \in Seq(Nodes) /\ Len(s) \in Nat
        /\ \A j \in 1 .. Len(s) : s[j] \in Nodes
        /\ head[which] = IF Len(s) = 0 THEN NULL ELSE s[1]
    BY <1>4, CallList
  <2>2. iter = head[which] /\ iter # NULL /\ ~(deadline[task] < deadline[iter])
    BY DEF AddNotFirst, IInv, CallInv
  <2>3. 1 \in 1 .. Len(s) /\ iter = s[1] /\ deadline[s[1]] <= deadline[task]
    BY <1>1, <2>1, <2>2
  <2> QED BY <2>3 DEF Walking
<1>6. CallInv'
  <2>1. Walking(s)'
    BY <1>5 DEF AddNotFirst, Walking
  <2>2. (list[which])' = s
    BY <1>4 DEF AddNotFirst
  <2>3. Unlisted(task)' /\ start' <= LowestPriority /\ pc' = "walk" /\ task' = task
    BY <1>1 DEF AddNotFirst, Unlisted, IInv, CallInv
  <2> QED BY <1>1, <2>1, <2>2, <2>3 DEF CallInv, Walking
<1> QED BY <1>2, <1>3, <1>6 DEF IInv, ListInv

LEMMA AddWalkInv == ASSUME IInv, AddWalk PROVE IInv'
<1>1. /\ TypeOK /\ pc = "walk" /\ task \in Nodes /\ which \in Lists
      /\ deadline \in [Nodes -> Nat] /\ NULL \notin Nodes /\ Unlisted(task)
      /\ next_cell \in [Nodes -> Pointer]
  BY NodeTypes DEF IInv, TypeOK, CallInv, AddWalk
<1>2. PICK s : s = list[which]
  OBVIOUS
<1>3. /\ s \in Seq(Nodes) /\ Len(s) \in Nat
      /\ \A j \in 1 .. Len(s) : s[j] \in Nodes
      /\ \A i \in 1 .. Len(s) :
           next_cell[s[i]] = IF i = Len(s) THEN NULL ELSE s[i + 1]
  BY <1>2, CallList
<1>4. PICK k \in 1 .. Len(s) :
        /\ iter = s[k]
        /\ deadline[s[1]] <= deadline[task]
        /\ \A j \in 2 .. k : deadline[s[j]] < deadline[task]
  BY <1>1, <1>2 DEF IInv, CallInv, Walking
<1>5. /\ k + 1 \in 1 .. Len(s) /\ next_cell[iter] = s[k + 1]
      /\ deadline[s[k + 1]] < deadline[task]
  <2>1. next_cell[iter] # NULL /\ deadline[task] > deadline[next_cell[iter]]
    BY DEF AddWalk, Passes
  <2>2. k + 1 \in 1 .. Len(s) /\ next_cell[iter] = s[k + 1]
    BY <1>3, <1>4, <2>1
  <2> QED BY <1>1, <1>3, <2>1, <2>2
<1>6. \A j \in 2 .. k + 1 : deadline[s[j]] < deadline[task]
  BY <1>3, <1>4, <1>5
<1>7. TypeOK'
  <2>1. next_cell[iter] \in Pointer
    BY <1>1, <1>3, <1>4
  <2> QED BY <1>1, <2>1 DEF AddWalk, TypeOK, Steps, pointers
<1>8. ListInv'
  BY ListsUntouched DEF AddWalk, IInv, ListInv, pointers
<1>9. CallInv'
  <2>1. iter' = s[k + 1] /\ deadline' = deadline /\ task' = task
    BY <1>5 DEF AddWalk
  <2>2. Walking(s)'
    BY <1>4, <1>5, <1>6, <2>1 DEF Walking
  <2>3. (list[which])' = s
    BY <1>2 DEF AddWalk
  <2>4. Unlisted(task)' /\ start' <= LowestPriority /\ pc' = "walk"
    BY <1>1 DEF AddWalk, Unlisted, IInv, CallInv
  <2> QED BY <1>1, <2>1, <2>2, <2>3, <2>4 DEF CallInv, Walking
<1> QED BY <1>7, <1>8, <1>9 DEF IInv, ListInv

LEMMA AddAfterInv == ASSUME IInv, AddAfter PROVE IInv'
<1>1. /\ TypeOK /\ pc = "walk" /\ task \in Nodes /\ which \in Lists
      /\ deadline \in [Nodes -> Nat] /\ NULL \notin Nodes
      /\ task \notin Tasks(list[which])
      /\ next_cell \in [Nodes -> Pointer] /\ previous_cell \in [Nodes -> Pointer]
      /\ head \in [Lists -> Pointer]
  BY NodeTypes DEF IInv, TypeOK, CallInv, AddAfter, Unlisted
<1>2. PICK s : s = list[which]
  OBVIOUS
<1>3. /\ s \in Seq(Nodes) /\ Len(s) \in Nat
      /\ \A j \in 1 .. Len(s) : s[j] \in Nodes
      /\ \A i, j \in 1 .. Len(s) : s[i] = s[j] => i = j
      /\ head[which] = IF Len(s) = 0 THEN NULL ELSE s[1]
      /\ \A i \in 1 .. Len(s) :
           /\ next_cell[s[i]] = IF i = Len(s) THEN NULL ELSE s[i + 1]
           /\ previous_cell[s[i]] = IF i = 1 THEN NULL ELSE s[i - 1]
  BY <1>2, CallList
<1>4. PICK k \in 1 .. Len(s) :
        /\ iter = s[k]
        /\ deadline[s[1]] <= deadline[task]
        /\ \A j \in 2 .. k : deadline[s[j]] < deadline[task]
  BY <1>1, <1>2 DEF IInv, CallInv, Walking
<1>5. InsertPosition(s, task, deadline) = k + 1
  <2>1. ASSUME k + 1 <= Len(s) PROVE deadline[task] <= deadline[s[k + 1]]
    <3>1. k + 1 \in 1 .. Len(s) /\ next_cell[iter] = s[k + 1] /\ s[k + 1] # NULL
      BY <1>1, <1>3, <1>4, <2>1
    <3>2. ~(deadline[task] > deadline[s[k + 1]])
      BY <3>1 DEF AddAfter, Passes
    <3> QED BY <1>1, <1>3, <3>1, <3>2
  <2>2. /\ k + 1 \in 2 .. Len(s) + 1 /\ Len(s) # 0
        /\ \A j \in 2 .. (k + 1) - 1 : deadline[s[j]] < deadline[task]
    BY <1>3, <1>4
  <2>3. PICK i, x : i = k + 1 /\ x = task
    OBVIOUS
  <2>4. /\ i \in 2 .. Len(s) + 1 /\ Len(s) # 0 /\ x \in Nodes
        /\ \A j \in 2 .. i - 1 : deadline[s[j]] < deadline[x]
        /\ i <= Len(s) => deadline[x] <= deadline[s[i]]
        /\ deadline[s[1]] <= deadline[x]
        /\ s \in Seq(Nodes) /\ deadline \in [Nodes -> Nat]
    BY <1>1, <1>3, <1>4, <2>1, <2>2, <2>3
  <2>5. InsertPosition(s, x, deadline) = i
    BY ONLY <2>4, WalkStops
  <2> QED BY <2>3, <2>5
<1>6. PICK nx2, pv2, h2 :
        nx2 = next_cell' /\ pv2 = previous_cell' /\ h2 = head[which]
  OBVIOUS
<1>7. /\ nx2 = [next_cell EXCEPT ![task] = next_cell[iter], ![iter] = task]
      /\ pv2 = [n \in Nodes |-> IF n = task THEN iter
                                ELSE IF n = next_cell[iter] THEN task
                                ELSE previous_cell[n]]
      /\ Added /\ deadline' = deadline /\ head' = head
      /\ Return /\ UNCHANGED <<deadline, prio>>
  BY <1>6 DEF AddAfter, LinkBack
<1>8. /\ \A j \in 1 .. Len(s) : s[j] # task /\ (s[j] = iter <=> j = k)
      /\ \A j \in 1 .. Len(s) : s[j] = next_cell[iter] <=> j = k + 1
      /\ \A n \in Nodes : n \notin Tasks(s) => n # iter /\ n # next_cell[iter]
      /\ next_cell[iter] = IF k = Len(s) THEN NULL ELSE s[k + 1]
      /\ iter \in Nodes /\ next_cell[iter] \in Pointer
  <2>1. \A j \in 1 .. Len(s) : s[j] # task
    BY <1>1, <1>2, <1>3, IndexTasks
  <2>2. \A j \in 1 .. Len(s) : s[j] = iter <=> j = k
    BY <1>3, <1>4
  <2>3. next_cell[iter] = IF k = Len(s) THEN NULL ELSE s[k + 1]
    BY <1>3, <1>4
  <2>4. k # Len(s) => k + 1 \in 1 .. Len(s)
    BY <1>3, <1>4
  <2>5. \A j \in 1 .. Len(s) : s[j] = next_cell[iter] <=> j = k + 1
    <3>1. CASE k = Len(s)
      BY <1>1, <1>3, <2>3, <3>1
    <3>2. CASE k # Len(s)
      BY <1>3, <2>3, <2>4, <3>2
    <3> QED BY <3>1, <3>2
  <2>6. ASSUME NEW n \in Nodes, n \notin Tasks(s)
        PROVE  n # iter /\ n # next_cell[iter]
    <3>1. \A j \in 1 .. Len(s) : s[j] # n
      BY <1>3, <2>6, IndexTasks
    <3> QED BY <1>1, <1>4, <2>3, <2>4, <3>1
  <2>7. iter \in Nodes /\ next_cell[iter] \in Pointer
    BY <1>1, <1>3, <1>4
  <2> QED BY <2>1, <2>2, <2>3, <2>5, <2>6, <2>7
<1>9. PutAt(s, k + 1, h2, nx2, pv2)
  <2>1. k + 1 # 1 /\ (k + 1) - 1 = k /\ (k + 1 = Len(s) + 1 <=> k = Len(s))
    BY <1>3
  <2>2. task # iter
    BY <1>8, <1>4
  <2>3. nx2[task] = IF k = Len(s) THEN NULL ELSE s[k + 1]
    BY <1>1, <1>7, <1>8, <2>2
  <2>4. pv2[task] = s[k]
    BY <1>1, <1>4, <1>7
  <2>5. \A j \in 1 .. Len(s) :
          nx2[s[j]] = IF j = k THEN task ELSE next_cell[s[j]]
    BY <1>1, <1>3, <1>7, <1>8
  <2>6. \A j \in 1 .. Len(s) :
          pv2[s[j]] = IF j = k + 1 THEN task ELSE previous_cell[s[j]]
    BY <1>1, <1>3, <1>7, <1>8
  <2>7. \A n \in Nodes : n # task /\ n \notin Tasks(s)
          => nx2[n] = next_cell[n] /\ pv2[n] = previous_cell[n]
    BY <1>1, <1>7, <1>8
  <2>8. h2 = head[which]
    BY <1>6
  <2> QED BY ONLY <2>1, <2>3, <2>4, <2>5, <2>6, <2>7, <2>8 DEF PutAt
<1>10. ListInv' /\ list' \in [Lists -> Seq(Nodes)]
  <2>1. head' = [head EXCEPT ![which] = h2]
    BY <1>1, <1>6, <1>7
  <2>2. k + 1 \in 1 .. Len(s) + 1
    BY <1>3
  <2> QED BY <1>1, <1>2, <1>5, <1>6, <1>7, <1>9, <2>1, <2>2, Inserted
<1>11. /\ head' \in [Lists -> Pointer] /\ next_cell' \in [Nodes -> Pointer]
       /\ previous_cell' \in [Nodes -> Pointer]
  <2>1. iter \in Pointer /\ task \in Pointer
    BY <1>1, <1>8 DEF Pointer
  <2>2. nx2 \in [Nodes -> Pointer]
    BY <1>1, <1>7, <1>8, <2>1
  <2>3. pv2 \in [Nodes -> Pointer]
    BY <1>1, <1>7, <2>1
  <2> QED BY ONLY <1>1, <1>6, <1>7, <2>2, <2>3
<1> QED BY <1>1, <1>7, <1>10, <1>11, InsertReturns

-----------------------------------------------------------------------------
(* Between the steps of delete_task only the walking pointer changes.      *)
LEMMA StartDeleteInv ==
  ASSUME IInv, NEW l \in Lists, NEW n \in Nodes, StartDelete(l, n)
  PROVE  IInv'
<1>1. TypeOK /\ NULL \notin Nodes
  BY NodeTypes DEF IInv
<1>2. TypeOK'
  BY <1>1 DEF StartDelete, TypeOK, Steps, pointers, Pointer
<1>3. ListInv'
  BY ListsUntouched DEF StartDelete, IInv, ListInv, pointers
<1>4. PICK s : s = list[l]
  OBVIOUS
<1>5. \E k \in 1 .. Len(s) : task' = s[k]
  <2>1. s \in Seq(Nodes) /\ Len(s) \in Nat
    BY <1>1, <1>4, NodeTypes, LenProperties
  <2>2. head[l] = IF Len(s) = 0 THEN NULL ELSE s[1]
    BY <1>4 DEF IInv, Represents, Links
  <2>3. 1 \in 1 .. Len(s) /\ task' = s[1]
    BY <2>1, <2>2 DEF StartDelete
  <2> QED BY <2>3
<1>6. CallInv'
  <2>1. Finding(s)'
    BY <1>5 DEF Finding
  <2>2. (list[which])' = s /\ pc' = "find" /\ start' <= LowestPriority
    BY <1>4 DEF StartDelete, IInv, CallInv
  <2> QED BY <2>1, <2>2 DEF CallInv, Finding
<1> QED BY <1>2, <1>3, <1>6 DEF IInv, ListInv

LEMMA FindNextInv == ASSUME IInv, FindNext PROVE IInv'
<1>1. /\ TypeOK /\ NULL \notin Nodes /\ which \in Lists
      /\ next_cell \in [Nodes -> Pointer]
  BY NodeTypes DEF IInv, TypeOK
<1>2. PICK s : s = list[which]
  OBVIOUS
<1>3. /\ Len(s) \in Nat /\ \A j \in 1 .. Len(s) : s[j] \in Nodes
      /\ \A i \in 1 .. Len(s) :
           next_cell[s[i]] = IF i = Len(s) THEN NULL ELSE s[i + 1]
  BY <1>2, CallList
<1>4. PICK k \in 1 .. Len(s) : task = s[k]
  BY <1>2 DEF FindNext, IInv, CallInv, Finding
<1>5. task' = next_cell[s[k]]
  BY <1>4 DEF FindNext
<1>6. TypeOK'
  <2>1. next_cell[s[k]] \in Pointer
    BY <1>1, <1>3
  <2> QED BY <1>1, <1>5, <2>1 DEF FindNext, TypeOK, Steps, pointers
<1>7. ListInv'
  BY ListsUntouched DEF FindNext, IInv, ListInv, pointers
<1>8. CallInv'
  <2>1. Finding(s)'
    <3>1. CASE k = Len(s)
      BY <1>3, <1>5, <3>1 DEF Finding
    <3>2. CASE k # Len(s)
      <4>1. k + 1 \in 1 .. Len(s) /\ task' = s[k + 1]
        BY <1>3, <1>5, <3>2
      <4> QED BY <4>1 DEF Finding
    <3> QED BY <3>1, <3>2
  <2>2. (list[which])' = s /\ pc' = "find" /\ start' <= LowestPriority
    BY <1>2 DEF FindNext, IInv, CallInv
  <2> QED BY <2>1, <2>2 DEF CallInv, Finding
<1> QED BY <1>6, <1>7, <1>8 DEF IInv, ListInv

LEMMA UnlinkInv == ASSUME IInv, Unlink PROVE IInv'
<1>1. pc = "find" /\ TypeOK /\ Return
  BY DEF Unlink, IInv
<1> QED BY <1>1, Removed, Returned DEF IInv, ListInv

(* A call that returns without having changed anything.                    *)
LEMMA ReturnsInv ==
  ASSUME IInv, Return, UNCHANGED <<pointers, deadline, prio, list>>
  PROVE  IInv'
<1>1. TypeOK'
  BY Returned DEF IInv, TypeOK, pointers
<1>2. ListInv'
  BY ListsUntouched DEF IInv, ListInv, pointers
<1> QED BY <1>1, <1>2, Returned DEF IInv, ListInv

-----------------------------------------------------------------------------
(* update_priorities: one more task of the list has its priority.          *)
LEMMA StartUpdateInv ==
  ASSUME IInv, NEW l \in Lists, NEW p \in 0 .. LowestPriority, StartUpdate(l, p)
  PROVE  IInv'
<1>1. /\ TypeOK /\ LowestPriority \in Nat
      /\ head \in [Lists -> Pointer] /\ prio \in [Nodes -> Nat]
  BY NodeTypes DEF IInv, TypeOK
<1>2. TypeOK'
  BY <1>1 DEF StartUpdate, TypeOK, Steps, pointers
<1>3. ListInv'
  BY ListsUntouched DEF StartUpdate, IInv, ListInv, pointers
<1>4. PICK s : s = list[l]
  OBVIOUS
<1>5. s \in Seq(Nodes) /\ Len(s) \in Nat
  BY <1>1, <1>4, NodeTypes, LenProperties
<1>6. Updating(s, 0)'
  <2>1. iter' = IF 0 = Len(s) THEN NULL ELSE s[0 + 1]
    BY <1>4, <1>5 DEF StartUpdate, IInv, Represents, Links
  <2>2. priority' = Clamp(start' + 0, LowestPriority)
    BY <1>1 DEF StartUpdate, Clamp
  <2>3. /\ prio' = before'
        /\ \A j \in 1 .. Len(s) : ~(j <= 0)
    BY <1>5 DEF StartUpdate
  <2> QED BY <2>1, <2>2, <2>3 DEF Updating
<1>7. CallInv'
  <2>1. (list[which])' = s /\ pc' = "update" /\ start' <= LowestPriority
    BY <1>1, <1>4 DEF StartUpdate
  <2>2. 0 \in 0 .. Len(s)
    BY <1>5
  <2> QED BY <1>6, <2>1, <2>2 DEF CallInv, Updating
<1> QED BY <1>2, <1>3, <1>7 DEF IInv, ListInv

LEMMA UpdateNextInv == ASSUME IInv, UpdateNext PROVE IInv'
<1>1. /\ TypeOK /\ LowestPriority \in Nat /\ which \in Lists
      /\ NULL \notin Nodes /\ prio \in [Nodes -> Nat] /\ start \in Nat
      /\ next_cell \in [Nodes -> Pointer] /\ iter \in Nodes /\ priority \in Nat
  BY NodeTypes DEF IInv, TypeOK, UpdateNext, Pointer
<1>2. PICK s : s = list[which]
  OBVIOUS
<1>3. /\ s \in Seq(Nodes) /\ Len(s) \in Nat
      /\ \A j \in 1 .. Len(s) : s[j] \in Nodes
      /\ \A i, j \in 1 .. Len(s) : s[i] = s[j] => i = j
      /\ \A i \in 1 .. Len(s) :
           next_cell[s[i]] = IF i = Len(s) THEN NULL ELSE s[i + 1]
  BY <1>2, CallList
<1>4. PICK k \in 0 .. Len(s) :
        /\ iter = IF k = Len(s) THEN NULL ELSE s[k + 1]
        /\ priority = Clamp(start + k, LowestPriority)
        /\ \A n \in Nodes : n \notin Tasks(s) => prio[n] = before[n]
        /\ \A j \in 1 .. Len(s) :
             prio[s[j]] = IF j <= k THEN Clamp(start + j, LowestPriority)
                                    ELSE before[s[j]]
  BY <1>2 DEF UpdateNext, IInv, CallInv, Updating
<1>5. k + 1 \in 1 .. Len(s) /\ iter = s[k + 1]
  BY <1>1, <1>3, <1>4
<1>6. PICK p, e : p = priority' /\ e = prio'
  OBVIOUS
<1>7. /\ p = Clamp(start + (k + 1), LowestPriority) /\ p \in Nat
      /\ e = [prio EXCEPT ![iter] = p]
  <2>1. p = Advance(priority) /\ e = [prio EXCEPT ![iter] = p]
    BY <1>6 DEF UpdateNext
  <2>2. Advance(priority) = Clamp(start + (k + 1), LowestPriority)
    BY <1>1, <1>3, <1>4 DEF Advance, Clamp
  <2>3. Advance(priority) \in Nat
    BY <1>1 DEF Advance
  <2> QED BY <2>1, <2>2, <2>3
<1>8. iter' = IF k + 1 = Len(s) THEN NULL ELSE s[(k + 1) + 1]
  BY <1>3, <1>5 DEF UpdateNext
<1>9. TypeOK'
  <2>1. next_cell[iter] \in Pointer /\ e \in [Nodes -> Nat]
    BY <1>1, <1>7
  <2> QED BY <1>1, <1>6, <1>7, <2>1 DEF UpdateNext, TypeOK, Steps, pointers
<1>10. ListInv'
  BY ListsUntouched DEF UpdateNext, IInv, ListInv, pointers
<1>11. Updating(s, k + 1)'
  <2>1. \A n \in Nodes : n \notin Tasks(s) => e[n] = before[n]
    <3>1. s[k + 1] \in Tasks(s)
      BY <1>3, <1>5, IndexTasks
    <3> QED BY <1>1, <1>4, <1>5, <1>7, <3>1
  <2>2. ASSUME NEW j \in 1 .. Len(s)
        PROVE  e[s[j]] = IF j <= k + 1 THEN Clamp(start + j, LowestPriority)
                                       ELSE before[s[j]]
    <3>1. CASE j = k + 1
      BY <1>1, <1>3, <1>5, <1>7, <3>1
    <3>2. CASE j # k + 1
      <4>1. s[j] # iter /\ s[j] \in Nodes
        BY <1>3, <1>5, <3>2
      <4>2. e[s[j]] = prio[s[j]]
        BY <1>1, <1>7, <4>1
      <4>3. j <= k + 1 <=> j <= k
        BY <3>2
      <4> QED BY <1>4, <4>2, <4>3
    <3> QED BY <3>1, <3>2
  <2>3. start' = start /\ before' = before
    BY DEF UpdateNext
  <2> QED BY <1>6, <1>7, <1>8, <2>1, <2>2, <2>3 DEF Updating
<1>12. CallInv'
  <2>1. (list[which])' = s /\ pc' = "update" /\ start' <= LowestPriority
    BY <1>2 DEF UpdateNext, IInv, CallInv
  <2>2. k + 1 \in 0 .. Len(s)
    BY <1>5
  <2> QED BY <1>11, <2>1, <2>2 DEF CallInv, Updating
<1> QED BY <1>9, <1>10, <1>12 DEF IInv, ListInv

LEMMA UpdateEndsInv == ASSUME IInv, UpdateEnds PROVE IInv'
<1>1. TypeOK /\ NULL \notin Nodes /\ which \in Lists
  BY NodeTypes DEF IInv, TypeOK
<1>2. TypeOK'
  BY <1>1 DEF UpdateEnds, TypeOK, Steps, pointers
<1>3. ListInv'
  BY ListsUntouched DEF UpdateEnds, IInv, ListInv, pointers
<1>4. PICK s : s = list[which]
  OBVIOUS
<1>5. Len(s) \in Nat /\ \A j \in 1 .. Len(s) : s[j] \in Nodes
  BY <1>4, CallList
<1>6. PICK k \in 0 .. Len(s) : Updating(s, k)
  BY <1>4 DEF UpdateEnds, IInv, CallInv
<1>7. k = Len(s)
  <2>1. iter = IF k = Len(s) THEN NULL ELSE s[k + 1]
    BY <1>6 DEF Updating
  <2>2. k # Len(s) => k + 1 \in 1 .. Len(s)
    BY <1>5
  <2> QED BY <1>1, <1>5, <2>1, <2>2 DEF UpdateEnds
<1>8. Updating(s, Len(s))'
  BY <1>6, <1>7 DEF UpdateEnds, Updating
<1>9. CallInv'
  <2>1. (list[which])' = s /\ pc' = "updated" /\ start' <= LowestPriority
    BY <1>4 DEF UpdateEnds, IInv, CallInv
  <2> QED BY <1>8, <2>1 DEF CallInv, Updating
<1> QED BY <1>2, <1>3, <1>9 DEF IInv, ListInv

LEMMA StutterInv == ASSUME IInv, UNCHANGED vars PROVE IInv'
<1>1. TypeOK'
  BY DEF IInv, TypeOK, vars, pointers, call
<1>2. ListInv'
  BY ListsUntouched DEF IInv, ListInv, vars, pointers
<1>3. CallInv'
  BY DEF IInv, CallInv, Unlisted, Walking, Finding, Updating, vars, pointers, call
<1> QED BY <1>1, <1>2, <1>3 DEF IInv, ListInv

-----------------------------------------------------------------------------
(* The invariant is inductive.                                             *)
LEMMA NextInv == IInv /\ [Next]_vars => IInv'
<1> SUFFICES ASSUME IInv, [Next]_vars PROVE IInv'
  OBVIOUS
<1>1. CASE \E l \in Lists, n \in Nodes, d \in Deadlines : StartAdd(l, n, d)
  BY <1>1, StartAddInv
<1>2. CASE \E l \in Lists, n \in Nodes : StartDelete(l, n)
  BY <1>2, StartDeleteInv
<1>3. CASE \E l \in Lists, p \in 0 .. LowestPriority : StartUpdate(l, p)
  BY <1>3, StartUpdateInv
<1>4. CASE NotFound \/ UpdateFails \/ ReturnPriority
  BY <1>4, ReturnsInv DEF NotFound, UpdateFails, ReturnPriority
<1>5. CASE UNCHANGED vars
  BY <1>5, StutterInv
<1> QED BY <1>1, <1>2, <1>3, <1>4, <1>5, AddToEmptyInv, AddFirstInv,
           AddNotFirstInv, AddWalkInv, AddAfterInv, FindNextInv, UnlinkInv,
           UpdateNextInv, UpdateEndsInv DEF Next

LEMMA Invariance == Spec => []IInv
BY InitInv, NextInv, PTL DEF Spec

(* Every pointer is null or a node, and every priority a number, whatever  *)
(* calls are made.                                                         *)
THEOREM TypeCorrect == Spec => []TypeOK
<1>1. IInv => TypeOK
  BY DEF IInv
<1> QED BY <1>1, Invariance, PTL

(* The links of task_list.c are always those of the sequences that         *)
(* TaskList's AddTask and DeleteTask produce.                              *)
THEOREM PointersRepresentLists == Spec => []Represents
<1>1. IInv => Represents
  BY DEF IInv
<1> QED BY <1>1, Invariance, PTL

(* Following next_cell from any node of a list never meets an earlier      *)
(* deadline.                                                               *)
THEOREM ListsSorted == Spec => []Sorted
<1>1. ASSUME IInv PROVE Sorted
  <2> SUFFICES ASSUME NEW l \in Lists, NEW n \in Nodes,
                      n \in Tasks(list[l]), next_cell[n] # NULL
               PROVE  deadline[n] <= deadline[next_cell[n]]
    BY DEF Sorted
  <2>1. PICK s : s = list[l]
    OBVIOUS
  <2>2. /\ s \in Seq(Nodes) /\ Len(s) \in Nat /\ deadline \in [Nodes -> Nat]
        /\ SortedByDeadline(s, deadline)
        /\ \A i \in 1 .. Len(s) :
             next_cell[s[i]] = IF i = Len(s) THEN NULL ELSE s[i + 1]
    BY <1>1, <2>1, NodeTypes, LenProperties DEF IInv, Represents, Links
  <2>3. PICK i \in 1 .. Len(s) : n = s[i]
    BY <2>1, <2>2, TasksOfSeq
  <2>4. i + 1 \in 1 .. Len(s) /\ next_cell[n] = s[i + 1]
    BY <2>2, <2>3
  <2>5. \A a, b \in 1 .. Len(s) : a < b => deadline[s[a]] <= deadline[s[b]]
    BY <2>2, SortedSeq
  <2>6. i < i + 1
    BY <2>3
  <2> QED BY <2>3, <2>4, <2>5, <2>6
<1> QED BY <1>1, Invariance, PTL

(* The loop of update_priorities gives what the operators of TaskList say. *)
THEOREM LoopUpdatesPriorities == Spec => []UpdateCorrect
<1>1. ASSUME IInv PROVE UpdateCorrect
  <2> SUFFICES ASSUME pc = "updated"
               PROVE  /\ prio = UpdatedPriorities(before, list[which], start,
                                                  LowestPriority)
                      /\ priority = LastPriority(list[which], start, LowestPriority)
    BY DEF UpdateCorrect
  <2>1. PICK s : s = list[which]
    OBVIOUS
  <2>2. /\ s \in Seq(Nodes) /\ Len(s) \in Nat
        /\ \A i, j \in 1 .. Len(s) : s[i] = s[j] => i = j
        /\ prio \in [Nodes -> Nat] /\ before \in [Nodes -> Nat]
    BY <1>1, <2>1, CallList DEF IInv, TypeOK
  <2>3. /\ priority = Clamp(start + Len(s), LowestPriority)
        /\ \A n \in Nodes : n \notin Tasks(s) => prio[n] = before[n]
        /\ \A j \in 1 .. Len(s) :
             prio[s[j]] = Clamp(start + j, LowestPriority)
    <3>1. Updating(s, Len(s))
      BY <1>1, <2>1 DEF IInv, CallInv
    <3>2. \A j \in 1 .. Len(s) : j <= Len(s)
      BY <2>2
    <3> QED BY <3>1, <3>2 DEF Updating
  <2>4. \A n \in Nodes :
          prio[n] = IF n \in Tasks(s)
                      THEN Clamp(start + Position(s, n), LowestPriority)
                      ELSE before[n]
    BY <2>2, <2>3, PositionProperties
  <2> QED BY <2>1, <2>2, <2>3, <2>4 DEF UpdatedPriorities, LastPriority
<1> QED BY <1>1, Invariance, PTL
=============================================================================
