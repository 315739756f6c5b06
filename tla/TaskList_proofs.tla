-------------------------- MODULE TaskList_proofs --------------------------
(***************************************************************************)
(* What the list operations of TaskList return, for every list.            *)
(***************************************************************************)
EXTENDS TaskList, SequenceTheorems, WellFoundedInduction, TLAPS

(* The elements of a sequence are what its indices select.                 *)
LEMMA TasksOfSeq ==
  ASSUME NEW X, NEW s \in Seq(X)
  PROVE  Tasks(s) = {s[i] : i \in 1 .. Len(s)} /\ Tasks(s) \subseteq X
BY DEF Tasks, ToSet

LEMMA IndexTasks ==
  ASSUME NEW X, NEW s \in Seq(X), NEW i \in 1 .. Len(s)
  PROVE  s[i] \in Tasks(s)
BY TasksOfSeq

(* No element twice, by index.                                             *)
LEMMA NoDuplicatesSeq ==
  ASSUME NEW X, NEW s \in Seq(X)
  PROVE  NoDuplicates(s) <=>
           \A i, j \in 1 .. Len(s) : s[i] = s[j] => i = j
BY DEF NoDuplicates

(* A message or a ready task added at the end of its queue.                *)
LEMMA AppendTasks ==
  ASSUME NEW X, NEW s \in Seq(X), NEW x \in X
  PROVE  /\ Append(s, x) \in Seq(X)
         /\ Tasks(Append(s, x)) = Tasks(s) \cup {x}
         /\ NoDuplicates(s) /\ x \notin Tasks(s) => NoDuplicates(Append(s, x))
<1> DEFINE a == Append(s, x)
<1>1. /\ a \in Seq(X) /\ Len(a) = Len(s) + 1
      /\ \A i \in 1 .. Len(s) : a[i] = s[i]
      /\ a[Len(s) + 1] = x
  BY AppendProperties
<1> HIDE DEF a
<1>2. Tasks(a) = Tasks(s) \cup {x}
  BY <1>1, TasksOfSeq
<1>3. ASSUME NoDuplicates(s), x \notin Tasks(s) PROVE NoDuplicates(a)
  BY <1>1, <1>3, TasksOfSeq, NoDuplicatesSeq
<1> QED BY <1>1, <1>2, <1>3 DEF a

(* Its head taken away.                                                    *)
LEMMA TailTasks ==
  ASSUME NEW X, NEW s \in Seq(X), s # <<>>
  PROVE  /\ Tail(s) \in Seq(X) /\ Head(s) \in Tasks(s)
         /\ Tasks(Tail(s)) \subseteq Tasks(s)
         /\ NoDuplicates(s) => /\ NoDuplicates(Tail(s))
                               /\ Tasks(Tail(s)) = Tasks(s) \ {Head(s)}
<1> DEFINE t == Tail(s)
<1>1. /\ t \in Seq(X) /\ Len(t) = Len(s) - 1 /\ Len(s) \in Nat \ {0}
      /\ \A i \in 1 .. Len(t) : t[i] = s[i + 1]
      /\ Head(s) = s[1]
  BY HeadTailProperties, EmptySeq, LenProperties
<1> HIDE DEF t
<1>2. Head(s) \in Tasks(s) /\ Tasks(t) \subseteq Tasks(s)
  BY <1>1, TasksOfSeq
<1>3. ASSUME NoDuplicates(s)
      PROVE  NoDuplicates(t) /\ Tasks(t) = Tasks(s) \ {Head(s)}
  <2>1. NoDuplicates(t)
    <3> SUFFICES ASSUME NEW i \in 1 .. Len(t), NEW j \in 1 .. Len(t),
                        t[i] = t[j]
                 PROVE  i = j
      BY <1>1, NoDuplicatesSeq
    <3>1. s[i + 1] = s[j + 1] /\ i + 1 \in 1 .. Len(s) /\ j + 1 \in 1 .. Len(s)
      BY <1>1
    <3> QED BY <3>1, <1>3, NoDuplicatesSeq
  <2>2. Head(s) \notin Tasks(t)
    <3> SUFFICES ASSUME NEW i \in 1 .. Len(t), t[i] = Head(s) PROVE FALSE
      BY <1>1, TasksOfSeq
    <3>1. i + 1 \in 1 .. Len(s) /\ 1 \in 1 .. Len(s) /\ s[i + 1] = s[1] /\ i + 1 # 1
      BY <1>1
    <3> QED BY <3>1, <1>3, NoDuplicatesSeq
  <2>3. ASSUME NEW x \in Tasks(s), x # Head(s) PROVE x \in Tasks(t)
    <3>1. PICK i \in 1 .. Len(s) : x = s[i]
      BY TasksOfSeq
    <3>2. i - 1 \in 1 .. Len(t) /\ t[i - 1] = s[i]
      BY <1>1, <2>3, <3>1
    <3> QED BY <3>1, <3>2, <1>1, TasksOfSeq
  <2> QED BY <1>2, <2>1, <2>2, <2>3
<1> QED BY <1>1, <1>2, <1>3 DEF t

-----------------------------------------------------------------------------
(* The sequence with the element at i taken out.                           *)
LEMMA RemoveAtElements ==
  ASSUME NEW X, NEW s \in Seq(X), NEW i \in 1 .. Len(s)
  PROVE  /\ RemoveAt(s, i) \in Seq(X) /\ Len(RemoveAt(s, i)) = Len(s) - 1
         /\ \A j \in 1 .. Len(s) - 1 :
              RemoveAt(s, i)[j] = IF j < i THEN s[j] ELSE s[j + 1]
<1> DEFINE l == SubSeq(s, 1, i - 1)
           r == SubSeq(s, i + 1, Len(s))
<1>1. Len(s) \in Nat /\ \A j \in 1 .. Len(s) : s[j] \in X
  BY LenProperties, ElementOfSeq
<1>2. /\ l \in Seq(X) /\ Len(l) = i - 1
      /\ \A j \in 1 .. i - 1 : l[j] = s[j]
  <2>1. \A j \in 1 .. i - 1 : s[j] \in X
    BY <1>1
  <2> QED BY <1>1, <2>1, SubSeqProperties, 1 \in Int, i - 1 \in Int
<1>3. /\ r \in Seq(X) /\ Len(r) = Len(s) - i
      /\ \A j \in 1 .. Len(s) - i : r[j] = s[i + j]
  <2>1. \A j \in i + 1 .. Len(s) : s[j] \in X
    BY <1>1
  <2> QED BY <1>1, <2>1, SubSeqProperties, i + 1 \in Int
<1> HIDE DEF l, r
<1>4. l \o r \in Seq(X) /\ Len(l \o r) = Len(s) - 1
  <2>1. l \o r \in Seq(X) /\ Len(l \o r) = Len(l) + Len(r)
    BY <1>2, <1>3, ConcatProperties
  <2> QED BY <1>1, <1>2, <1>3, <2>1
<1>5. ASSUME NEW j \in 1 .. Len(s) - 1
      PROVE  (l \o r)[j] = IF j < i THEN s[j] ELSE s[j + 1]
  <2>1. (l \o r)[j] = IF j <= i - 1 THEN l[j] ELSE r[j - (i - 1)]
    BY <1>1, <1>2, <1>3, ConcatProperties
  <2>2. CASE j <= i - 1
    BY <1>2, <2>1, <2>2
  <2>3. CASE ~(j <= i - 1)
    BY <1>1, <1>3, <2>1, <2>3
  <2> QED BY <2>2, <2>3
<1> QED BY <1>4, <1>5 DEF l, r, RemoveAt

(* Which element of s each element of the shorter sequence is.             *)
LEMMA RemoveAtOrigin ==
  ASSUME NEW X, NEW s \in Seq(X), NEW i \in 1 .. Len(s),
         NEW j \in 1 .. Len(s) - 1
  PROVE  \E k \in 1 .. Len(s) :
           /\ RemoveAt(s, i)[j] = s[k]
           /\ \/ j < i /\ k = j
              \/ i <= j /\ k = j + 1
<1>1. Len(s) \in Nat
  BY LenProperties
<1>2. RemoveAt(s, i)[j] = IF j < i THEN s[j] ELSE s[j + 1]
  BY RemoveAtElements
<1>3. CASE j < i
  BY <1>1, <1>2, <1>3
<1>4. CASE i <= j
  BY <1>1, <1>2, <1>4
<1> QED BY <1>1, <1>3, <1>4

(* The sequence with x put before the element at i.                        *)
LEMMA InsertAtElements ==
  ASSUME NEW X, NEW s \in Seq(X), NEW i \in 1 .. Len(s) + 1, NEW x \in X
  PROVE  /\ InsertAt(s, i, x) \in Seq(X) /\ Len(InsertAt(s, i, x)) = Len(s) + 1
         /\ InsertAt(s, i, x)[i] = x
         /\ \A j \in 1 .. Len(s) + 1 :
              /\ j < i => InsertAt(s, i, x)[j] = s[j]
              /\ i < j => InsertAt(s, i, x)[j] = s[j - 1]
<1> DEFINE l == SubSeq(s, 1, i - 1)
           r == SubSeq(s, i, Len(s))
           m == l \o <<x>>
<1>1. Len(s) \in Nat /\ \A j \in 1 .. Len(s) : s[j] \in X
  BY LenProperties, ElementOfSeq
<1>2. /\ l \in Seq(X) /\ Len(l) = i - 1
      /\ \A j \in 1 .. i - 1 : l[j] = s[j]
  <2>1. \A j \in 1 .. i - 1 : s[j] \in X
    BY <1>1
  <2> QED BY <1>1, <2>1, SubSeqProperties, 1 \in Int, i - 1 \in Int
<1>3. /\ r \in Seq(X) /\ Len(r) = Len(s) - i + 1
      /\ \A j \in 1 .. Len(s) - i + 1 : r[j] = s[i + j - 1]
  <2>1. \A j \in i .. Len(s) : s[j] \in X
    BY <1>1
  <2> QED BY <1>1, <2>1, SubSeqProperties
<1> HIDE DEF l, r
<1>4. /\ m \in Seq(X) /\ Len(m) = i
      /\ \A j \in 1 .. i : m[j] = IF j < i THEN s[j] ELSE x
  BY <1>1, <1>2, ConcatProperties
<1> HIDE DEF m
<1>5. m \o r \in Seq(X) /\ Len(m \o r) = Len(s) + 1
  <2>1. m \o r \in Seq(X) /\ Len(m \o r) = Len(m) + Len(r)
    BY <1>3, <1>4, ConcatProperties
  <2> QED BY <1>1, <1>3, <1>4, <2>1
<1>6. ASSUME NEW j \in 1 .. Len(s) + 1
      PROVE  /\ j = i => (m \o r)[j] = x
             /\ j < i => (m \o r)[j] = s[j]
             /\ i < j => (m \o r)[j] = s[j - 1]
  <2>1. (m \o r)[j] = IF j <= i THEN m[j] ELSE r[j - i]
    BY <1>1, <1>3, <1>4, ConcatProperties
  <2>2. CASE j <= i
    BY <1>4, <2>1, <2>2
  <2>3. CASE ~(j <= i)
    BY <1>1, <1>3, <2>1, <2>3
  <2> QED BY <2>2, <2>3
<1>7. i \in 1 .. Len(s) + 1
  OBVIOUS
<1> QED BY <1>5, <1>6, <1>7 DEF l, r, m, InsertAt
(* Which element of s, or x, each element of the longer sequence is.       *)
LEMMA InsertAtOrigin ==
  ASSUME NEW X, NEW s \in Seq(X), NEW i \in 1 .. Len(s) + 1, NEW x \in X
  PROVE  \A j \in 1 .. Len(s) + 1 :
           \/ j = i /\ InsertAt(s, i, x)[j] = x
           \/ \E k \in 1 .. Len(s) :
                /\ InsertAt(s, i, x)[j] = s[k]
                /\ \/ j < i /\ k = j
                   \/ i < j /\ k = j - 1
<1>1. i \in 1 .. Len(s) + 1 /\ Len(s) \in Nat
  BY LenProperties
<1> DEFINE a == InsertAt(s, i, x)
<1>2. /\ a \in Seq(X) /\ Len(a) = Len(s) + 1
      /\ a[i] = x
      /\ \A j \in 1 .. Len(s) + 1 :
           /\ j < i => a[j] = s[j]
           /\ i < j => a[j] = s[j - 1]
  BY <1>1, InsertAtElements
<1> HIDE DEF a
<1>3. ASSUME NEW j \in 1 .. Len(s) + 1
      PROVE  \/ j = i /\ a[j] = x
             \/ \E k \in 1 .. Len(s) :
                  a[j] = s[k] /\ ((j < i /\ k = j) \/ (i < j /\ k = j - 1))
  <2>1. CASE j < i
    <3>1. j \in 1 .. Len(s) /\ a[j] = s[j]
      BY <1>1, <1>2, <2>1
    <3> QED BY <2>1, <3>1
  <2>2. CASE j = i
    BY <1>2, <2>2
  <2>3. CASE i < j
    <3>1. j - 1 \in 1 .. Len(s) /\ a[j] = s[j - 1]
      BY <1>1, <1>2, <2>3
    <3> QED BY <2>3, <3>1
  <2> QED BY <1>1, <2>1, <2>2, <2>3
<1> QED BY <1>3 DEF a

-----------------------------------------------------------------------------
(* Every non-empty set of indices has a first one.                         *)
LEMMA LeastNatural ==
  ASSUME NEW I, I \subseteq Nat, I # {}
  PROVE  \E i \in I : \A j \in I : i <= j
<1> DEFINE R == {ss \in Nat \X Nat : ss[1] < ss[2]}
<1>1. IsWellFoundedOn(R, Nat)
  BY NatLessThanWellFounded DEF OpToRel
<1>2. PICK i \in I : \A j \in I : <<j, i>> \notin R
  BY <1>1, WFMin
<1>3. ASSUME NEW j \in I PROVE i <= j
  <2>1. i \in Nat /\ j \in Nat /\ <<j, i>> \notin R
    BY <1>2
  <2>2. ~(j < i)
    BY <2>1
  <2> QED BY <2>1, <2>2
<1> QED BY <1>3

(* delete_task's walk finds the first node of the task.                    *)
LEMMA PositionProperties ==
  ASSUME NEW X, NEW s \in Seq(X), NEW x \in Tasks(s)
  PROVE  Position(s, x) \in 1 .. Len(s) /\ s[Position(s, x)] = x
<1> DEFINE I == {i \in 1 .. Len(s) : s[i] = x}
<1>1. DOMAIN s = 1 .. Len(s) /\ Len(s) \in Nat
  BY LenProperties
<1>2. I # {} /\ I \subseteq Nat
  BY <1>1, TasksOfSeq
<1>3. PICK i \in I : \A j \in I : i <= j
  <2> HIDE DEF I
  <2> QED BY <1>2, LeastNatural
<1>4. /\ i \in DOMAIN s /\ s[i] = x
      /\ \A j \in DOMAIN s : s[j] = x => i <= j
  BY <1>1, <1>3
<1> QED BY <1>1, <1>4 DEF Position

LEMMA DeleteTaskType ==
  ASSUME NEW X, NEW s \in Seq(X), NEW x \in Tasks(s)
  PROVE  DeleteTask(s, x) \in Seq(X)
BY PositionProperties, RemoveAtElements DEF DeleteTask

(* delete_task takes out the task and nothing else, in place.              *)
LEMMA DeleteTaskProperties ==
  ASSUME NEW X, NEW s \in Seq(X), NoDuplicates(s), NEW x \in Tasks(s)
  PROVE  /\ DeleteTask(s, x) \in Seq(X)
         /\ Tasks(DeleteTask(s, x)) = Tasks(s) \ {x}
         /\ NoDuplicates(DeleteTask(s, x))
<1> DEFINE p == Position(s, x)
           d == RemoveAt(s, p)
<1>1. p \in 1 .. Len(s) /\ s[p] = x /\ Len(s) \in Nat
  BY PositionProperties, LenProperties
<1> HIDE DEF p
<1>2. /\ d \in Seq(X) /\ Len(d) = Len(s) - 1
      /\ \A j \in 1 .. Len(s) - 1 : d[j] = IF j < p THEN s[j] ELSE s[j + 1]
  BY <1>1, RemoveAtElements
<1> HIDE DEF d
<1>3. NoDuplicates(d)
  <2> SUFFICES ASSUME NEW i \in 1 .. Len(d), NEW j \in 1 .. Len(d), d[i] = d[j]
               PROVE  i = j
    BY <1>2, NoDuplicatesSeq
  <2>1. PICK I \in 1 .. Len(s) :
             d[i] = s[I] /\ ((i < p /\ I = i) \/ (p <= i /\ I = i + 1))
    BY <1>1, <1>2, RemoveAtOrigin DEF d
  <2>2. PICK J \in 1 .. Len(s) :
             d[j] = s[J] /\ ((j < p /\ J = j) \/ (p <= j /\ J = j + 1))
    BY <1>1, <1>2, RemoveAtOrigin DEF d
  <2>3. I = J
    BY <2>1, <2>2, NoDuplicatesSeq
  <2> QED BY <1>1, <1>2, <2>1, <2>2, <2>3
<1>4. ASSUME NEW y \in Tasks(d) PROVE y \in Tasks(s) \ {x}
  <2>1. PICK j \in 1 .. Len(d) : d[j] = y
    BY <1>2, TasksOfSeq
  <2>2. PICK k \in 1 .. Len(s) :
             d[j] = s[k] /\ ((j < p /\ k = j) \/ (p <= j /\ k = j + 1))
    BY <1>1, <1>2, RemoveAtOrigin DEF d
  <2>3. k # p /\ s[k] = y
    BY <1>1, <2>1, <2>2
  <2> QED BY <1>1, <2>3, NoDuplicatesSeq, TasksOfSeq
<1>5. ASSUME NEW y \in Tasks(s), y # x PROVE y \in Tasks(d)
  <2>1. PICK k \in 1 .. Len(s) : s[k] = y
    BY TasksOfSeq
  <2>2. PICK j \in 1 .. Len(d) : d[j] = y
    <3>1. CASE k < p
      BY <1>1, <1>2, <2>1, <3>1
    <3>2. CASE p < k
      <4>1. k - 1 \in 1 .. Len(d) /\ d[k - 1] = s[k]
        BY <1>1, <1>2, <3>2
      <4> QED BY <4>1, <2>1
    <3> QED BY <1>1, <1>5, <2>1, <3>1, <3>2
  <2> QED BY <1>2, <2>2, TasksOfSeq
<1> QED BY <1>2, <1>3, <1>4, <1>5 DEF d, p, DeleteTask

-----------------------------------------------------------------------------
(* add_task's walk always finds a place.                                   *)
LEMMA InsertPositionProperties ==
  ASSUME NEW X, NEW s \in Seq(X), NEW x \in X, NEW deadline \in [X -> Nat]
  PROVE  LET p == InsertPosition(s, x, deadline)
         IN /\ p \in 1 .. Len(s) + 1
            /\ p = 1 => s = <<>> \/ deadline[x] < deadline[s[1]]
            /\ p > 1 => /\ deadline[s[1]] <= deadline[x]
                        /\ \A j \in 2 .. p - 1 : deadline[s[j]] < deadline[x]
                        /\ p <= Len(s) => deadline[x] <= deadline[s[p]]
<1> DEFINE p == InsertPosition(s, x, deadline)
           I == {i \in 2 .. Len(s) + 1 :
                   i = Len(s) + 1 \/ deadline[x] <= deadline[s[i]]}
<1>1. Len(s) \in Nat /\ \A j \in 1 .. Len(s) : deadline[s[j]] \in Nat
  BY LenProperties, ElementOfSeq
<1>2. CASE s = <<>> \/ deadline[x] < deadline[Head(s)]
  <2>1. p = 1
    BY <1>2 DEF InsertPosition
  <2>2. s # <<>> => Head(s) = s[1]
    OBVIOUS
  <2> QED BY <1>1, <1>2, <2>1, <2>2
<1>3. CASE ~(s = <<>> \/ deadline[x] < deadline[Head(s)])
  <2>1. Len(s) >= 1 /\ Head(s) = s[1] /\ deadline[s[1]] <= deadline[x]
    <3>1. Len(s) >= 1
      BY <1>3, EmptySeq
    <3>2. Head(s) = s[1]
      OBVIOUS
    <3> QED BY <1>1, <1>3, <3>1, <3>2
  <2>2. PICK i \in I : \A j \in I : i <= j
    <3>1. I \subseteq Nat /\ Len(s) + 1 \in I
      BY <1>1, <2>1
    <3> HIDE DEF I
    <3> QED BY <3>1, LeastNatural
  <2>3. \A j \in 2 .. i - 1 : deadline[s[j]] < deadline[x]
    BY <1>1, <2>2
  <2>4. /\ p \in 2 .. Len(s) + 1
        /\ p = Len(s) + 1 \/ deadline[x] <= deadline[s[p]]
        /\ \A j \in 2 .. p - 1 : deadline[s[j]] < deadline[x]
    <3> DEFINE Q(k) == /\ k = Len(s) + 1 \/ deadline[x] <= deadline[s[k]]
                       /\ \A j \in 2 .. k - 1 : deadline[s[j]] < deadline[x]
    <3>1. i \in 2 .. Len(s) + 1 /\ Q(i)
      BY <2>2, <2>3
    <3>2. p = CHOOSE k \in 2 .. Len(s) + 1 : Q(k)
      BY <1>3 DEF InsertPosition
    <3> HIDE DEF Q, p
    <3>3. p \in 2 .. Len(s) + 1 /\ Q(p)
      BY <3>1, <3>2
    <3> QED BY <3>3 DEF Q
  <2> HIDE DEF p
  <2>5. /\ p \in 1 .. Len(s) + 1 /\ p > 1
        /\ p <= Len(s) => deadline[x] <= deadline[s[p]]
    BY <1>1, <2>4
  <2> QED BY <2>1, <2>4, <2>5 DEF p
<1> QED BY <1>2, <1>3
(* add_task puts the task on the list and moves nothing else.              *)
LEMMA AddTaskProperties ==
  ASSUME NEW X, NEW s \in Seq(X), NEW x \in X, NEW deadline \in [X -> Nat]
  PROVE  /\ AddTask(s, x, deadline) \in Seq(X)
         /\ Tasks(AddTask(s, x, deadline)) = Tasks(s) \cup {x}
         /\ NoDuplicates(s) /\ x \notin Tasks(s)
              => NoDuplicates(AddTask(s, x, deadline))
<1> DEFINE p == InsertPosition(s, x, deadline)
           a == InsertAt(s, p, x)
<1>1. p \in 1 .. Len(s) + 1 /\ Len(s) \in Nat
  BY InsertPositionProperties, LenProperties
<1> HIDE DEF p
<1>2. /\ a \in Seq(X) /\ Len(a) = Len(s) + 1
      /\ a[p] = x
      /\ \A j \in 1 .. Len(s) + 1 :
           /\ j < p => a[j] = s[j]
           /\ p < j => a[j] = s[j - 1]
  BY <1>1, InsertAtElements
<1> HIDE DEF a
<1>3. ASSUME NEW y \in Tasks(a) PROVE y \in Tasks(s) \cup {x}
  <2>1. PICK j \in 1 .. Len(a) : a[j] = y
    BY <1>2, TasksOfSeq
  <2>2. y = x \/ \E k \in 1 .. Len(s) : s[k] = y
    <3>1. j \in 1 .. Len(s) + 1
      BY <1>2
    <3> QED BY <1>1, <2>1, <3>1, InsertAtOrigin DEF a
  <2> QED BY <2>2, TasksOfSeq
<1>4. ASSUME NEW y \in Tasks(s) \cup {x} PROVE y \in Tasks(a)
  <2>1. CASE y = x
    <3>1. p \in 1 .. Len(a) /\ a[p] = x
      BY <1>1, <1>2
    <3> QED BY <2>1, <3>1, <1>2, IndexTasks
  <2>2. CASE y # x
    <3>1. PICK k \in 1 .. Len(s) : s[k] = y
      BY <2>2, TasksOfSeq
    <3>2. CASE k < p
      <4>1. k \in 1 .. Len(a) /\ a[k] = y
        BY <1>1, <1>2, <3>1, <3>2
      <4> QED BY <4>1, <1>2, IndexTasks
    <3>3. CASE p <= k
      <4>1. k + 1 \in 1 .. Len(s) + 1 /\ p < k + 1 /\ (k + 1) - 1 = k
        BY <1>1, <3>1, <3>3
      <4>2. k + 1 \in 1 .. Len(a) /\ a[k + 1] = y
        <5>1. a[k + 1] = s[(k + 1) - 1]
          BY <1>2, <4>1
        <5> QED BY <5>1, <4>1, <3>1, <1>2
      <4> QED BY <4>2, <1>2, IndexTasks
    <3> QED BY <1>1, <3>1, <3>2, <3>3
  <2> QED BY <2>1, <2>2
<1>5. ASSUME NoDuplicates(s), x \notin Tasks(s) PROVE NoDuplicates(a)
  <2> SUFFICES ASSUME NEW i \in 1 .. Len(a), NEW j \in 1 .. Len(a), a[i] = a[j]
               PROVE  i = j
    BY <1>2, NoDuplicatesSeq
  <2>0. i \in 1 .. Len(s) + 1 /\ j \in 1 .. Len(s) + 1
    BY <1>2
  <2>1. \A k \in 1 .. Len(s) : s[k] # x
    BY <1>5, TasksOfSeq
  <2>2. \A k, l \in 1 .. Len(s) : s[k] = s[l] => k = l
    BY <1>5, NoDuplicatesSeq
  <2>3. \/ i = p /\ a[i] = x
        \/ \E k \in 1 .. Len(s) :
             a[i] = s[k] /\ ((i < p /\ k = i) \/ (p < i /\ k = i - 1))
    BY <1>1, <2>0, InsertAtOrigin DEF a
  <2>4. \/ j = p /\ a[j] = x
        \/ \E k \in 1 .. Len(s) :
             a[j] = s[k] /\ ((j < p /\ k = j) \/ (p < j /\ k = j - 1))
    BY <1>1, <2>0, InsertAtOrigin DEF a
  <2>5. CASE i = p \/ j = p
    BY <2>1, <2>3, <2>4, <2>5
  <2>6. CASE i # p /\ j # p
    <3>1. PICK I \in 1 .. Len(s) :
               a[i] = s[I] /\ ((i < p /\ I = i) \/ (p < i /\ I = i - 1))
      BY <2>3, <2>6
    <3>2. PICK J \in 1 .. Len(s) :
               a[j] = s[J] /\ ((j < p /\ J = j) \/ (p < j /\ J = j - 1))
      BY <2>4, <2>6
    <3>3. I = J
      BY <2>2, <3>1, <3>2
    <3> QED BY <1>1, <2>0, <3>1, <3>2, <3>3
  <2> QED BY <2>5, <2>6
<1> QED BY <1>2, <1>3, <1>4, <1>5 DEF a, p, AddTask

(* Sorted, by index.                                                       *)
LEMMA SortedSeq ==
  ASSUME NEW X, NEW s \in Seq(X), NEW deadline \in [X -> Nat]
  PROVE  SortedByDeadline(s, deadline) <=>
           \A i, j \in 1 .. Len(s) : i < j => deadline[s[i]] <= deadline[s[j]]
BY LenProperties DEF SortedByDeadline

(* add_task keeps a sorted list sorted, although it walks past a node only *)
(* when that node's deadline is strictly earlier.                          *)
THEOREM AddTaskSorted ==
  ASSUME NEW X, NEW s \in Seq(X), NEW x \in X, NEW deadline \in [X -> Nat],
         SortedByDeadline(s, deadline)
  PROVE  SortedByDeadline(AddTask(s, x, deadline), deadline)
<1> DEFINE p == InsertPosition(s, x, deadline)
           a == InsertAt(s, p, x)
<1>1. /\ p \in 1 .. Len(s) + 1 /\ Len(s) \in Nat
      /\ p = 1 => s = <<>> \/ deadline[x] < deadline[s[1]]
      /\ p > 1 => /\ deadline[s[1]] <= deadline[x]
                  /\ \A j \in 2 .. p - 1 : deadline[s[j]] < deadline[x]
                  /\ p <= Len(s) => deadline[x] <= deadline[s[p]]
  BY InsertPositionProperties, LenProperties
<1> HIDE DEF p
<1>2. /\ a \in Seq(X) /\ Len(a) = Len(s) + 1
      /\ a[p] = x
      /\ \A j \in 1 .. Len(s) + 1 :
           /\ j < p => a[j] = s[j]
           /\ p < j => a[j] = s[j - 1]
  BY <1>1, InsertAtElements
<1> HIDE DEF a
<1>3. /\ \A i, j \in 1 .. Len(s) : i < j => deadline[s[i]] <= deadline[s[j]]
      /\ \A i \in 1 .. Len(s) : deadline[s[i]] \in Nat
      /\ deadline[x] \in Nat
  BY SortedSeq, ElementOfSeq
<1>4. ASSUME NEW k \in 1 .. Len(s), k < p PROVE deadline[s[k]] <= deadline[x]
  <2>1. CASE k = 1
    BY <1>1, <1>4, <2>1
  <2>2. CASE k # 1
    <3>1. k \in 2 .. p - 1 /\ p > 1
      BY <1>1, <1>4, <2>2
    <3>2. deadline[s[k]] < deadline[x]
      BY <1>1, <3>1
    <3> QED BY <1>3, <3>2
  <2> QED BY <2>1, <2>2
<1>5. ASSUME NEW k \in 1 .. Len(s), p <= k PROVE deadline[x] <= deadline[s[k]]
  <2>1. deadline[x] <= deadline[s[p]] /\ p \in 1 .. Len(s)
    <3>1. CASE p = 1
      <4>1. s # <<>>
        BY <1>5, EmptySeq
      <4> QED BY <1>1, <1>3, <1>5, <3>1, <4>1
    <3>2. CASE p > 1
      BY <1>1, <1>5, <3>2
    <3> QED BY <1>1, <3>1, <3>2
  <2>2. deadline[s[p]] <= deadline[s[k]]
    <3>1. p = k \/ p < k
      BY <1>1, <1>5
    <3> QED BY <1>3, <2>1, <3>1
  <2>3. deadline[s[p]] \in Nat /\ deadline[s[k]] \in Nat
    BY <1>3, <2>1
  <2> QED BY <1>3, <2>1, <2>2, <2>3
<1>6. ASSUME NEW i \in 1 .. Len(a), NEW j \in 1 .. Len(a), i < j
      PROVE  deadline[a[i]] <= deadline[a[j]]
  <2>0. i \in 1 .. Len(s) + 1 /\ j \in 1 .. Len(s) + 1
    BY <1>2
  <2>1. \/ i = p /\ a[i] = x
        \/ \E k \in 1 .. Len(s) :
             a[i] = s[k] /\ ((i < p /\ k = i) \/ (p < i /\ k = i - 1))
    BY <1>1, <2>0, InsertAtOrigin DEF a
  <2>2. \/ j = p /\ a[j] = x
        \/ \E k \in 1 .. Len(s) :
             a[j] = s[k] /\ ((j < p /\ k = j) \/ (p < j /\ k = j - 1))
    BY <1>1, <2>0, InsertAtOrigin DEF a
  <2>3. CASE i = p
    <3>1. PICK k \in 1 .. Len(s) : a[j] = s[k] /\ p < j /\ k = j - 1
      BY <1>6, <2>2, <2>3
    <3>2. p <= k
      BY <1>1, <1>2, <3>1
    <3> QED BY <1>5, <1>6, <2>1, <2>3, <3>1, <3>2
  <2>4. CASE j = p
    <3>1. PICK k \in 1 .. Len(s) : a[i] = s[k] /\ i < p /\ k = i
      BY <1>1, <1>2, <1>6, <2>1, <2>4
    <3> QED BY <1>4, <1>6, <2>2, <2>4, <3>1
  <2>5. CASE i # p /\ j # p
    <3>1. PICK I \in 1 .. Len(s) :
               a[i] = s[I] /\ ((i < p /\ I = i) \/ (p < i /\ I = i - 1))
      BY <1>1, <2>1, <2>5
    <3>2. PICK J \in 1 .. Len(s) :
               a[j] = s[J] /\ ((j < p /\ J = j) \/ (p < j /\ J = j - 1))
      BY <1>1, <2>2, <2>5
    <3>3. I < J
      <4>1. I \in Nat /\ J \in Nat /\ i \in Nat /\ j \in Nat /\ p \in Nat
        BY <1>1, <2>0, <3>1, <3>2
      <4>2. (i < p /\ I = i) \/ (p < i /\ I = i - 1)
        BY <3>1
      <4>3. (j < p /\ J = j) \/ (p < j /\ J = j - 1)
        BY <3>2
      <4> QED BY ONLY <1>6, <4>1, <4>2, <4>3
    <3> QED BY <1>3, <3>1, <3>2, <3>3
  <2> QED BY <2>3, <2>4, <2>5
<1> QED BY <1>2, <1>6, SortedSeq DEF a, p, AddTask

(* delete_task keeps a sorted list sorted.                                 *)
THEOREM DeleteTaskSorted ==
  ASSUME NEW X, NEW s \in Seq(X), NoDuplicates(s), NEW x \in Tasks(s),
         NEW deadline \in [X -> Nat], SortedByDeadline(s, deadline)
  PROVE  SortedByDeadline(DeleteTask(s, x), deadline)
<1> DEFINE p == Position(s, x)
           d == RemoveAt(s, p)
<1>1. p \in 1 .. Len(s) /\ Len(s) \in Nat
  BY PositionProperties, LenProperties
<1> HIDE DEF p
<1>2. /\ d \in Seq(X) /\ Len(d) = Len(s) - 1
      /\ \A j \in 1 .. Len(s) - 1 : d[j] = IF j < p THEN s[j] ELSE s[j + 1]
  BY <1>1, RemoveAtElements
<1> HIDE DEF d
<1>3. \A i, j \in 1 .. Len(s) : i < j => deadline[s[i]] <= deadline[s[j]]
  BY SortedSeq
<1>4. ASSUME NEW i \in 1 .. Len(d), NEW j \in 1 .. Len(d), i < j
      PROVE  deadline[d[i]] <= deadline[d[j]]
  <2>1. PICK I \in 1 .. Len(s) :
             d[i] = s[I] /\ ((i < p /\ I = i) \/ (p <= i /\ I = i + 1))
    BY <1>1, <1>2, RemoveAtOrigin DEF d
  <2>2. PICK J \in 1 .. Len(s) :
             d[j] = s[J] /\ ((j < p /\ J = j) \/ (p <= j /\ J = j + 1))
    BY <1>1, <1>2, RemoveAtOrigin DEF d
  <2>3. i \in 1 .. Len(s) - 1 /\ j \in 1 .. Len(s) - 1
    BY <1>2
  <2>4. I < J
    <3>1. (i < p /\ I = i) \/ (p <= i /\ I = i + 1)
      BY <2>1
    <3>2. (j < p /\ J = j) \/ (p <= j /\ J = j + 1)
      BY <2>2
    <3>3. I \in Nat /\ J \in Nat /\ i \in Nat /\ j \in Nat /\ p \in Nat
      BY <1>1, <2>1, <2>2, <2>3
    <3> QED BY ONLY <1>4, <3>1, <3>2, <3>3
  <2> QED BY <1>3, <2>1, <2>2, <2>4
<1> QED BY <1>2, <1>4, SortedSeq DEF d, p, DeleteTask
-----------------------------------------------------------------------------
(* update_priorities assigns priorities and returns one, which is not the  *)
(* 0 that stands for an error when it starts from a real priority.         *)
LEMMA UpdatedPrioritiesProperties ==
  ASSUME NEW X, NEW s \in Seq(X), NEW prio \in [X -> Nat],
         NEW start \in Nat, NEW lowest \in Nat
  PROVE  /\ UpdatedPriorities(prio, s, start, lowest) \in [X -> Nat]
         /\ LastPriority(s, start, lowest) \in Nat
         /\ start > 0 /\ lowest > 0 => LastPriority(s, start, lowest) > 0
<1>1. Len(s) \in Nat
  BY LenProperties
<1>2. ASSUME NEW t \in Tasks(s)
      PROVE  Clamp(start + Position(s, t), lowest) \in Nat
  <2>1. Position(s, t) \in Nat
    BY <1>1, PositionProperties
  <2> QED BY <2>1 DEF Clamp
<1> QED BY <1>1, <1>2 DEF UpdatedPriorities, LastPriority, Clamp
=============================================================================
