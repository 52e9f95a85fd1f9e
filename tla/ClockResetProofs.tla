-------------------------- MODULE ClockResetProofs --------------------------
(***************************************************************************)
(* Proofs about ClockReset, for every set of requests, every bound, every  *)
(* period and every reset delay.                                           *)
(***************************************************************************)
EXTENDS ClockReset, SequenceTheorems, FiniteSetTheorems, TLAPS

-----------------------------------------------------------------------------
(* What the queue operations of the driver return, element by element.     *)

\* push_front puts the item first and moves the others up by one.
LEMMA PushFront ==
  ASSUME NEW q \in Seq(ItemSet), NEW e \in ItemSet
  PROVE  /\ Cons(e, q) \in Seq(ItemSet)
         /\ Len(Cons(e, q)) = Len(q) + 1
         /\ \A i \in 1..Len(q) + 1 : Cons(e, q)[i] = IF i = 1 THEN e ELSE q[i-1]
<1>1. /\ <<e>> \in Seq(ItemSet) /\ Len(<<e>>) = 1 /\ <<e>>[1] = e
  OBVIOUS
<1>2. /\ <<e>> \o q \in Seq(ItemSet)
      /\ Len(<<e>> \o q) = Len(<<e>>) + Len(q)
      /\ \A i \in 1..Len(<<e>>) + Len(q) : 
           (<<e>> \o q)[i] = IF i <= Len(<<e>>) THEN <<e>>[i] ELSE q[i - Len(<<e>>)]
  BY <1>1, ConcatProperties, Zenon
<1>3. Len(q) \in Nat
  OBVIOUS
<1> QED BY <1>1, <1>2, <1>3 DEF Cons

\* insert(i, e) leaves the items before position i and moves the others up.
LEMMA Inserted ==
  ASSUME NEW q \in Seq(ItemSet), NEW e \in ItemSet, NEW k \in 1..Len(q)
  PROVE  /\ InsertAt(q, k, e) \in Seq(ItemSet)
         /\ Len(InsertAt(q, k, e)) = Len(q) + 1
         /\ \A i \in 1..Len(q) + 1 : InsertAt(q, k, e)[i] =
              IF i < k THEN q[i] ELSE IF i = k THEN e ELSE q[i-1]
<1> DEFINE l == SubSeq(q, 1, k-1)
           r == SubSeq(q, k, Len(q))
<1>0. Len(q) \in Nat /\ k \in Int /\ k-1 \in Int /\ 1 \in Int
  OBVIOUS
<1>1. /\ l \in Seq(ItemSet)
      /\ Len(l) = k-1
      /\ \A i \in 1..k-1 : l[i] = q[i]
  <2>1. \A i \in 1..k-1 : q[i] \in ItemSet
    BY ElementOfSeq, <1>0
  <2>2. /\ l \in Seq(ItemSet)
        /\ Len(l) = IF 1 <= k-1 THEN (k-1)-1+1 ELSE 0
        /\ \A i \in 1..(k-1)-1+1 : l[i] = q[1+i-1]
    BY <2>1, <1>0, SubSeqProperties
  <2> QED BY <2>2, <1>0
<1>2. /\ r \in Seq(ItemSet)
      /\ Len(r) = Len(q) - k + 1
      /\ \A i \in 1..Len(q)-k+1 : r[i] = q[k+i-1]
  <2>1. \A i \in k..Len(q) : q[i] \in ItemSet
    BY ElementOfSeq, <1>0
  <2>2. /\ r \in Seq(ItemSet)
        /\ Len(r) = IF k <= Len(q) THEN Len(q)-k+1 ELSE 0
        /\ \A i \in 1..Len(q)-k+1 : r[i] = q[k+i-1]
    BY <2>1, <1>0, SubSeqProperties
  <2> QED BY <2>2, <1>0
<1>3. /\ <<e>> \in Seq(ItemSet) /\ Len(<<e>>) = 1 /\ <<e>>[1] = e
  OBVIOUS
<1> HIDE DEF l, r
<1> DEFINE m == l \o <<e>>
           t == m \o r
<1>4. /\ m \in Seq(ItemSet)
      /\ Len(m) = k
      /\ \A i \in 1..k : m[i] = IF i < k THEN q[i] ELSE e
  <2>1. /\ m \in Seq(ItemSet)
        /\ Len(m) = Len(l) + Len(<<e>>)
        /\ \A i \in 1..Len(l) + Len(<<e>>) : m[i] =
              IF i <= Len(l) THEN l[i] ELSE <<e>>[i - Len(l)]
    BY <1>1, <1>3, ConcatProperties, Zenon
  <2> HIDE DEF m
  <2> QED BY <2>1, <1>0, <1>1, <1>3
<1>6. InsertAt(q, k, e) = t
  BY DEF InsertAt, l, r
<1> HIDE DEF m
<1>5. /\ t \in Seq(ItemSet)
      /\ Len(t) = Len(m) + Len(r)
      /\ \A i \in 1..Len(m) + Len(r) : t[i] = IF i <= Len(m) THEN m[i] ELSE r[i - Len(m)]
  BY <1>2, <1>4, ConcatProperties, Zenon
<1> HIDE DEF t
<1>7. Len(t) = Len(q) + 1
  BY <1>0, <1>2, <1>4, <1>5
<1>8. ASSUME NEW i \in 1..Len(q) + 1
      PROVE  t[i] = IF i < k THEN q[i] ELSE IF i = k THEN e ELSE q[i-1]
  <2>1. CASE i <= k
    BY <2>1, <1>0, <1>2, <1>4, <1>5
  <2>2. CASE i > k
    <3>1. i - k \in 1..Len(q)-k+1 /\ k + (i-k) - 1 = i - 1
      BY <2>2, <1>0
    <3>2. t[i] = r[i - k]
      BY <2>2, <1>0, <1>2, <1>4, <1>5
    <3> QED BY <2>2, <3>1, <3>2, <1>0, <1>2
  <2> QED BY <2>1, <2>2, <1>0
<1> QED BY <1>5, <1>6, <1>7, <1>8

\* Writing one count keeps the queue's length and the identity of every item.
LEMMA CountWritten ==
  ASSUME NEW q \in Seq(ItemSet), NEW k \in 1..Len(q), NEW n \in Int
  PROVE  LET p == [q EXCEPT ![k].count = n]
         IN  /\ p \in Seq(ItemSet)
             /\ Len(p) = Len(q)
             /\ \A i \in 1..Len(q) : p[i] = IF i = k THEN Item(q[k].id, n) ELSE q[i]
<1> DEFINE e == [q[k] EXCEPT !.count = n]
<1>1. q[k] \in ItemSet /\ Len(q) \in Nat
  BY ElementOfSeq
<1>2. e = Item(q[k].id, n) /\ e \in ItemSet
  BY <1>1 DEF ItemSet, Item
<1>3. [q EXCEPT ![k].count = n] = [q EXCEPT ![k] = e]
  BY <1>1
<1> HIDE DEF e
<1> QED BY <1>2, <1>3, ExceptSeq

\* Taking the head off keeps the rest, one place further down.
LEMMA Popped ==
  ASSUME NEW q \in Seq(ItemSet), q # <<>>
  PROVE  /\ Len(q) \in Nat \ {0} /\ Head(q) = q[1] /\ Head(q) \in ItemSet
         /\ Tail(q) \in Seq(ItemSet) /\ Len(Tail(q)) = Len(q) - 1
         /\ \A i \in 1..Len(q) - 1 : Tail(q)[i] = q[i+1]
BY HeadTailProperties, EmptySeq

-----------------------------------------------------------------------------
(* Type correctness.                                                       *)

\* A step in which the driver takes a count request keeps the types.
LEMMA TypeQueueRequest ==
  ASSUME TypeOK, NEW r \in Requests, NEW n \in 1..MaxCount, QueueRequest(r, n),
         ConstantsAssumption
  PROVE  TypeOK'
<1>0. n \in Int /\ Item(r, n) \in ItemSet /\ Item(r, 0) \in ItemSet
      /\ CurrentCount \in Int /\ CurrentCount - n \in Int /\ CountFor(n) \in Int
  BY DEF ConstantsAssumption, TypeOK, Item, ItemSet, CurrentCount, CountFor
<1>1. ASSUME queue # <<>>, NEW c \in Int
      PROVE  /\ [queue EXCEPT ![1].count = c] \in Seq(ItemSet)
             /\ Len([queue EXCEPT ![1].count = c]) = Len(queue)
             /\ 1 \in 1..Len(queue)
  <2>1. 1 \in 1..Len(queue)
    BY <1>1, EmptySeq DEF TypeOK
  <2> QED BY <2>1, CountWritten DEF TypeOK
<1>2. /\ waiting' \subseteq Requests /\ remaining' \in [Requests -> Int]
      /\ UNCHANGED <<runClock, resetDelay, reset, reached, responseVars, testVars>>
      /\ driverPc = "get" /\ responsePc = "wait"
  BY <1>0 DEF QueueRequest, QueueFirst, QueueShorter, QueueEqual, QueueLonger, Ask, TypeOK,
     Quiescent
<1>3. CASE QueueFirst(r, n)
  BY <1>0, <1>2, <1>3 DEF QueueFirst, TypeOK, scanVars, testVars, responseVars
<1>4. CASE QueueShorter(r, n)
  BY <1>0, <1>1, <1>2, <1>4, PushFront
  DEF QueueShorter, TypeOK, scanVars, testVars, responseVars
<1>5. CASE QueueEqual(r, n)
  BY <1>0, <1>1, <1>2, <1>5, PushFront
  DEF QueueEqual, TypeOK, HeadRefreshed, scanVars, testVars, responseVars
<1>6. CASE QueueLonger(r, n)
  BY <1>0, <1>1, <1>2, <1>6
  DEF QueueLonger, TypeOK, HeadRefreshed, testVars, responseVars
<1> QED BY <1>3, <1>4, <1>5, <1>6 DEF QueueRequest

\* An iteration of the driver's for loop keeps the types.
LEMMA TypeScan ==
  ASSUME TypeOK, Scan
  PROVE  TypeOK'
<1>0. /\ driverPc = "scan" /\ responsePc = "wait" /\ queue \in Seq(ItemSet)
      /\ Len(queue) \in Nat /\ index \in 1..Len(queue) /\ queue[index] \in ItemSet
      /\ item \in ItemSet /\ item.count \in Int /\ queue[index].count \in Int
  <2>1. driverPc = "scan" /\ responsePc = "wait"
    BY DEF Scan, ScanInsert, ScanNext, ScanLast, Scanning
  <2>2. queue \in Seq(ItemSet) /\ index \in 1..Len(queue) /\ item \in ItemSet
    BY <2>1 DEF TypeOK
  <2>3. queue[index] \in ItemSet /\ Len(queue) \in Nat
    BY <2>2, ElementOfSeq
  <2> QED BY <2>1, <2>2, <2>3 DEF ItemSet
<1>1. ASSUME NEW n \in Int, InsertHere(n)
      PROVE  queue' \in Seq(ItemSet)
  <2> DEFINE p == [queue EXCEPT ![index].count = queue[index].count - n]
  <2>1. p \in Seq(ItemSet) /\ Len(p) = Len(queue)
    <3>1. queue[index].count - n \in Int
      BY <1>0, <1>1
    <3> QED BY <1>0, <3>1, CountWritten
  <2>2. Item(item.id, n) \in ItemSet
    BY <1>0 DEF Item, ItemSet
  <2>3. queue' = InsertAt(p, index, Item(item.id, n))
    BY <1>1 DEF InsertHere
  <2> HIDE DEF p
  <2> QED BY <1>0, <2>1, <2>2, <2>3, Inserted
<1>2. CASE ScanInsert
  BY <1>0, <1>1, <1>2
  DEF ScanInsert, EndScan, TypeOK, ifVars, responseVars, sequenceVars, testVars
<1>3. CASE ScanNext
  BY <1>0, <1>3 DEF ScanNext, TypeOK, ifVars, responseVars, sequenceVars, testVars
<1>4. CASE ScanLast
  <2>1. queue' \in Seq(ItemSet)
    <3>1. CASE InsertHere(item.count - total)
      BY <1>0, <1>1, <3>1 DEF TypeOK
    <3>2. CASE queue' = Append(queue, Item(item.id, item.count - (total + queue[index].count)))
      BY <1>0, <3>2 DEF TypeOK, Item, ItemSet
    <3> QED BY <1>4, <3>1, <3>2 DEF ScanLast
  <2> QED BY <1>0, <1>4, <2>1
      DEF ScanLast, EndScan, TypeOK, ifVars, responseVars, sequenceVars, testVars
<1> QED BY <1>2, <1>3, <1>4 DEF Scan

\* A step of the response loop keeps the types.
LEMMA TypeRespond ==
  ASSUME TypeOK, Respond
  PROVE  TypeOK'
<1>0. queue # <<>>
  BY DEF Respond, ResponseWake, ResponseSchedule, ResponseDue, Looping, TypeOK
<1>1. Head(queue) \in ItemSet /\ Tail(queue) \in Seq(ItemSet) /\ Head(queue).count \in Int
  <2>1. queue \in Seq(ItemSet)
    BY DEF TypeOK
  <2>2. Head(queue) \in ItemSet /\ Tail(queue) \in Seq(ItemSet)
    BY <1>0, <2>1, Popped
  <2> QED BY <2>2 DEF ItemSet
<1>2. CASE ResponseWake
  BY <1>1, <1>2 DEF ResponseWake, PopHead, Quiescent, TypeOK, scanVars, testVars
<1>3. CASE ResponseSchedule
  BY <1>1, <1>3 DEF ResponseSchedule, Looping, CountFor, TypeOK, scanVars, sequenceVars, testVars
<1>4. CASE ResponseDue
  BY <1>1, <1>4 DEF ResponseDue, Looping, PopHead, TypeOK, ifVars, scanVars, testVars
<1> QED BY <1>2, <1>3, <1>4 DEF Respond

\* The initial state has the right types.
LEMMA InitTypeOK == Init => TypeOK
<1>1. <<>> \in Seq(ItemSet)
  OBVIOUS
<1>2. ASSUME Init PROVE remaining \in [Requests -> Int] /\ item \in ItemSet \cup {NoItem}
  BY <1>2 DEF Init
<1> SUFFICES ASSUME Init PROVE TypeOK
  OBVIOUS
<1>3. queue \in Seq(ItemSet) /\ driverPc # "scan" /\ responsePc # "loop"
  BY <1>1 DEF Init
<1>4. /\ driverPc \in {"get", "scan"} /\ responsePc \in {"wait", "loop"}
      /\ phase \in {"run", "report", "fatal"}
  BY DEF Init
<1>5. /\ resetDelay \in Nat /\ counter \in Int /\ index \in Nat /\ total \in Int
      /\ lastCount \in Int /\ starts \in Nat /\ missed \in Nat
  BY DEF Init
<1>6. runClock \in BOOLEAN /\ reset \in BOOLEAN /\ reached \in BOOLEAN /\ waiting \subseteq Requests
  BY Zenon DEF Init
<1> QED BY <1>2, <1>3, <1>4, <1>5, <1>6 DEF TypeOK

\* The driver, its interface and the sequences keep their types, ties and races
\* or not: in particular the for loop never indexes outside the queue and the
\* do-while never looks at the head of an empty one
\* (clock_and_reset_driver.sv:121-151, 179-191).
THEOREM TypeCorrect == Spec => []TypeOK
<1>1. Init => TypeOK
  BY InitTypeOK
<1>2. TypeOK /\ [Next]_vars => TypeOK'
  <2> SUFFICES ASSUME TypeOK, [Next]_vars PROVE TypeOK'
    OBVIOUS
  <2>1. ASSUME NEW p \in Periods, NEW d \in ResetDelays, NEW run \in BOOLEAN,
               StartClock(p, d, run)
        PROVE  TypeOK'
    BY <2>1, ConstantsAssumption
    DEF StartClock, ConstantsAssumption, TypeOK, scanVars, responseVars, sequenceVars
  <2>2. ASSUME NEW r \in Requests, NEW n \in 1..MaxCount, QueueRequest(r, n)
        PROVE  TypeOK'
    BY <2>2, TypeQueueRequest, ConstantsAssumption
  <2>3. CASE Scan
    BY <2>3, TypeScan
  <2>4. CASE Respond
    BY <2>4, TypeRespond
  <2>5. CASE Tick
    BY <2>5 DEF Tick, TypeOK, scanVars, responseVars, testVars
  <2>6. CASE EndOfTest
    <3>1. Len(queue) \in Nat
      BY DEF TypeOK
    <3>2. IsFiniteSet({i \in 1..Len(queue) : queue[i].id \in MustHappen})
      <4>1. IsFiniteSet(1..Len(queue))
      BY <3>1, FS_Interval
    <4> QED BY <4>1, FS_Subset
    <3>3. missed' \in Nat
      BY <2>6, <3>2, FS_CardinalityType DEF EndOfTest
    <3> QED BY <2>6, <3>3
        DEF EndOfTest, TypeOK, ifVars, scanVars, responseVars, sequenceVars
  <2>7. CASE UNCHANGED vars
    BY <2>7 DEF vars, ifVars, scanVars, responseVars, sequenceVars, testVars, TypeOK
  <2> QED BY <2>1, <2>2, <2>3, <2>4, <2>5, <2>6, <2>7 DEF Next
<1> QED BY <1>1, <1>2, PTL DEF Spec
=============================================================================
