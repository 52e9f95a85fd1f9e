--------------------------- MODULE ClockResetQueue ---------------------------
(***************************************************************************)
(* Proofs about ClockReset in every usage: with equal deadlines, and with  *)
(* requests taken between the counter's event and its response.  The       *)
(* counts in the queue may then be wrong, but which requests it holds and  *)
(* when it is empty are not, and no count is ever too short.               *)
(***************************************************************************)
EXTENDS ClockResetProofs

\* No two items of the queue belong to one request.
Distinct(q) == \A i, j \in 1..Len(q) : q[i].id = q[j].id => i = j

\* Each waiting sequence has its item in the queue, once, or in the for loop's hands.
Placed ==
  /\ Ids(queue) \cup Scanned = waiting
  /\ Distinct(queue)
  /\ driverPc = "scan" => item.id \notin Ids(queue)

\* The event is pending only with the counter at 1 and a head to pop; with nobody
\* queued the counter has run out; and so it has when the do-while is about to pop.
EventHasHead ==
  /\ reached => counter = 1 /\ queue # <<>> /\ responsePc = "wait"
  /\ queue = <<>> => counter \in {0, 1}
  /\ responsePc = "loop" /\ queue[1].count = 0 => counter \in {0, 1}

QueueInv == TypeOK /\ Placed /\ EventHasHead /\ MissedReported

-----------------------------------------------------------------------------
(* Which requests a changed queue holds.                                   *)

\* p is q with an item of request r put in at place k.
Grown(p, q, k, r) ==
  /\ Len(p) = Len(q) + 1
  /\ \A i \in 1..Len(q) + 1 :
       p[i].id = IF i < k THEN q[i].id ELSE IF i = k THEN r ELSE q[i-1].id

\* Putting an item in, at the front, before an item, or at the end, adds its request.
LEMMA OneMore ==
  ASSUME NEW q \in Seq(ItemSet), NEW p \in Seq(ItemSet), NEW k \in 1..Len(q) + 1, NEW r,
         Grown(p, q, k, r), Distinct(q), r \notin Ids(q)
  PROVE  Distinct(p) /\ Ids(p) = Ids(q) \cup {r}
<1> USE DEF Grown
<1>0. Len(q) \in Nat /\ Len(p) \in Nat
  OBVIOUS
<1>1. \A i \in 1..Len(q) : q[i].id # r
  BY DEF Ids
<1>2. Distinct(p)
  <2> SUFFICES ASSUME NEW i \in 1..Len(q) + 1, NEW j \in 1..Len(q) + 1, p[i].id = p[j].id, i < j
               PROVE  FALSE
    BY <1>0 DEF Distinct
  <2>1. CASE j < k
    <3>1. i \in 1..Len(q) /\ j \in 1..Len(q) /\ q[i].id = q[j].id
      BY <1>0, <2>1
    <3> QED BY <3>1 DEF Distinct
  <2>2. CASE j = k
    <3>1. i \in 1..Len(q) /\ q[i].id = r
      BY <1>0, <2>2
    <3> QED BY <1>1, <3>1
  <2>3. CASE j > k /\ i < k
    <3>1. i \in 1..Len(q) /\ j - 1 \in 1..Len(q) /\ q[i].id = q[j-1].id /\ i # j - 1
      BY <1>0, <2>3
    <3> QED BY <3>1 DEF Distinct
  <2>4. CASE j > k /\ i = k
    <3>1. j - 1 \in 1..Len(q) /\ q[j-1].id = r
      BY <1>0, <2>4
    <3> QED BY <1>1, <3>1
  <2>5. CASE j > k /\ i > k
    <3>1. i - 1 \in 1..Len(q) /\ j - 1 \in 1..Len(q) /\ q[i-1].id = q[j-1].id /\ i - 1 # j - 1
      BY <1>0, <2>5
    <3> QED BY <3>1 DEF Distinct
  <2> QED BY <1>0, <2>1, <2>2, <2>3, <2>4, <2>5
<1>3. Ids(p) \subseteq Ids(q) \cup {r}
  <2> SUFFICES ASSUME NEW i \in 1..Len(p) PROVE p[i].id \in Ids(q) \cup {r}
    BY DEF Ids
  <2>1. CASE i < k
    BY <1>0, <2>1 DEF Ids
  <2>2. CASE i = k
    BY <1>0, <2>2
  <2>3. CASE i > k
    <3>1. i - 1 \in 1..Len(q) /\ p[i].id = q[i-1].id
      BY <1>0, <2>3
    <3> QED BY <3>1 DEF Ids
  <2> QED BY <1>0, <2>1, <2>2, <2>3
<1>4. r \in Ids(p)
  <2>1. k \in 1..Len(p) /\ p[k].id = r
    BY <1>0
  <2> QED BY <2>1 DEF Ids
<1>5. ASSUME NEW i \in 1..Len(q) PROVE q[i].id \in Ids(p)
  <2>1. CASE i < k
    <3>1. i \in 1..Len(p) /\ p[i].id = q[i].id
      BY <1>0, <2>1
    <3> QED BY <3>1 DEF Ids
  <2>2. CASE i >= k
    <3>1. i + 1 \in 1..Len(p) /\ (i + 1) - 1 = i /\ i + 1 > k
      BY <1>0, <2>2
    <3>2. p[i+1].id = q[i].id
      BY <1>0, <3>1
    <3> QED BY <3>1, <3>2 DEF Ids
  <2> QED BY <1>0, <2>1, <2>2
<1>6. Ids(q) \subseteq Ids(p)
  BY <1>5 DEF Ids
<1> QED BY <1>2, <1>3, <1>4, <1>6

\* Taking the head off takes its request out.
LEMMA OneLess ==
  ASSUME NEW q \in Seq(ItemSet), q # <<>>, Distinct(q)
  PROVE  /\ Distinct(Tail(q)) /\ Ids(Tail(q)) = Ids(q) \ {Head(q).id}
         /\ Head(q).id \in Ids(q)
<1>0. /\ Len(q) \in Nat \ {0} /\ Head(q) = q[1] /\ Len(Tail(q)) = Len(q) - 1
      /\ \A i \in 1..Len(q) - 1 : Tail(q)[i] = q[i+1]
  BY Popped
<1>1. Distinct(Tail(q))
  <2> SUFFICES ASSUME NEW i \in 1..Len(q) - 1, NEW j \in 1..Len(q) - 1,
                      Tail(q)[i].id = Tail(q)[j].id
               PROVE  i = j
    BY <1>0 DEF Distinct
  <2>1. i + 1 \in 1..Len(q) /\ j + 1 \in 1..Len(q) /\ q[i+1].id = q[j+1].id
    BY <1>0
  <2>2. i + 1 = j + 1
    BY <2>1 DEF Distinct
  <2> QED BY <2>2
<1>2. ASSUME NEW i \in 1..Len(q) - 1 PROVE Tail(q)[i].id \in Ids(q) \ {Head(q).id}
  <2>1. i + 1 \in 1..Len(q) /\ 1 \in 1..Len(q) /\ i + 1 # 1
    BY <1>0
  <2>2. q[i+1].id # q[1].id
    BY <2>1 DEF Distinct
  <2>3. Tail(q)[i].id = q[i+1].id
    BY <1>0
  <2> QED BY <1>0, <2>1, <2>2, <2>3 DEF Ids
<1>3. ASSUME NEW i \in 1..Len(q), q[i].id # Head(q).id PROVE q[i].id \in Ids(Tail(q))
  <2>1. i # 1
    BY <1>0, <1>3
  <2>2. i - 1 \in 1..Len(q) - 1 /\ (i - 1) + 1 = i
    BY <1>0, <2>1
  <2>3. Tail(q)[i-1].id = q[i].id
    BY <1>0, <2>2
  <2> QED BY <1>0, <2>2, <2>3 DEF Ids
<1>4. Head(q).id \in Ids(q)
  BY <1>0 DEF Ids
<1>5. Ids(Tail(q)) \subseteq Ids(q) \ {Head(q).id}
  BY <1>0, <1>2 DEF Ids
<1>6. Ids(q) \ {Head(q).id} \subseteq Ids(Tail(q))
  <2> SUFFICES ASSUME NEW x \in Ids(q), x # Head(q).id PROVE x \in Ids(Tail(q))
    OBVIOUS
  <2>1. PICK i \in 1..Len(q) : x = q[i].id
    BY DEF Ids
  <2> QED BY <1>3, <2>1
<1> QED BY <1>1, <1>4, <1>5, <1>6

\* Writing counts changes no request.
LEMMA SameIds ==
  ASSUME NEW q \in Seq(ItemSet), NEW p \in Seq(ItemSet), Distinct(q), Len(p) = Len(q),
         \A i \in 1..Len(q) : p[i].id = q[i].id
  PROVE  Distinct(p) /\ Ids(p) = Ids(q)
BY DEF Distinct, Ids

\* Writing the head's count.
LEMMA HeadWritten ==
  ASSUME NEW q \in Seq(ItemSet), q # <<>>, Distinct(q), NEW c \in Int,
         NEW p, p = [q EXCEPT ![1].count = c]
  PROVE  /\ p \in Seq(ItemSet) /\ p # <<>> /\ Len(p) = Len(q)
         /\ Distinct(p) /\ Ids(p) = Ids(q) /\ p[1].count = c
         /\ \A i \in 1..Len(q) : p[i].id = q[i].id
         /\ \A i \in 2..Len(q) : p[i].count = q[i].count
<1>1. 1 \in 1..Len(q) /\ Len(q) \in Nat \ {0}
  BY EmptySeq
<1>2. /\ p \in Seq(ItemSet) /\ Len(p) = Len(q)
      /\ \A i \in 1..Len(q) : p[i] = IF i = 1 THEN Item(q[1].id, c) ELSE q[i]
  <2> DEFINE x == [q EXCEPT ![1].count = c]
  <2>1. /\ x \in Seq(ItemSet) /\ Len(x) = Len(q)
        /\ \A i \in 1..Len(q) : x[i] = IF i = 1 THEN Item(q[1].id, c) ELSE q[i]
    BY <1>1, CountWritten
  <2>2. p = x
    OBVIOUS
  <2> HIDE DEF x
  <2> QED BY <2>1, <2>2
<1>3. \A i \in 1..Len(q) : p[i].id = q[i].id
  BY <1>2 DEF Item
<1>4. p[1].count = c /\ \A i \in 2..Len(q) : p[i].count = q[i].count
  BY <1>1, <1>2 DEF Item
<1>5. Distinct(p) /\ Ids(p) = Ids(q)
  BY <1>2, <1>3, SameIds
<1>6. p # <<>>
  BY <1>1, <1>2
<1> QED BY <1>2, <1>3, <1>4, <1>5, <1>6

-----------------------------------------------------------------------------
(* The invariant, one operation at a time.                                 *)

\* A new item in front of the queue.
LEMMA FrontIds ==
  ASSUME NEW q \in Seq(ItemSet), NEW e \in ItemSet, Distinct(q), e.id \notin Ids(q)
  PROVE  Distinct(Cons(e, q)) /\ Ids(Cons(e, q)) = Ids(q) \cup {e.id} /\ Cons(e, q) # <<>>
<1> DEFINE p == Cons(e, q)
<1>0. Len(q) \in Nat
  OBVIOUS
<1>1. /\ p \in Seq(ItemSet) /\ Len(p) = Len(q) + 1
      /\ \A i \in 1..Len(q) + 1 : p[i] = IF i = 1 THEN e ELSE q[i-1]
  BY PushFront
<1> HIDE DEF p
<1>2. Grown(p, q, 1, e.id)
  BY <1>0, <1>1 DEF Grown
<1>3. 1 \in 1..Len(q) + 1
  BY <1>0
<1>4. Distinct(p) /\ Ids(p) = Ids(q) \cup {e.id}
  BY <1>1, <1>2, <1>3, OneMore
<1>5. p # <<>>
  BY <1>0, <1>1
<1> QED BY <1>4, <1>5 DEF p

\* The driver takes a request: what it does to the queue, to the for loop and to the
\* counter keeps the requests together and the event with a head.
LEMMA RequestPlaced ==
  ASSUME QueueInv, NEW r \in Requests, NEW n \in 1..MaxCount, QueueRequest(r, n),
         ConstantsAssumption
  PROVE  Placed' /\ EventHasHead'
<1>0. /\ driverPc = "get" /\ responsePc = "wait" /\ r \notin waiting
      /\ waiting' = waiting \cup {r} /\ reached' = reached /\ responsePc' = "wait"
  BY DEF QueueRequest, QueueFirst, QueueShorter, QueueEqual, QueueLonger, Ask, Quiescent,
         responseVars
<1>1. /\ queue \in Seq(ItemSet) /\ counter \in Int /\ n \in Int /\ n > 0
      /\ Item(r, n) \in ItemSet /\ Item(r, 0) \in ItemSet
      /\ CurrentCount \in Int /\ CurrentCount - n \in Int
      /\ Item(r, n).id = r /\ Item(r, 0).id = r
  BY DEF QueueInv, TypeOK, ConstantsAssumption, Item, ItemSet, CurrentCount
<1>2. Ids(queue) = waiting /\ Distinct(queue) /\ r \notin Ids(queue)
  BY <1>0 DEF QueueInv, Placed, Scanned
<1>3. /\ reached => counter = 1 /\ queue # <<>>
      /\ queue = <<>> => counter \in {0, 1}
  BY DEF QueueInv, EventHasHead
<1>4. ASSUME queue # <<>>, NEW c \in Int
      PROVE  /\ [queue EXCEPT ![1].count = c] \in Seq(ItemSet)
             /\ [queue EXCEPT ![1].count = c] # <<>>
             /\ Distinct([queue EXCEPT ![1].count = c])
             /\ Ids([queue EXCEPT ![1].count = c]) = Ids(queue)
  BY <1>1, <1>2, <1>4, HeadWritten
<1>5. CASE QueueFirst(r, n)
  <2>1. queue = <<>> /\ queue' = <<Item(r, n)>> /\ driverPc' = "get" /\ reached' = FALSE
    BY <1>0, <1>3, <1>5 DEF QueueFirst, scanVars, QueueInv, TypeOK
  <2>2. Ids(queue) = {}
    BY <2>1 DEF Ids
  <2>3. Len(queue') = 1 /\ queue'[1].id = r /\ queue' # <<>>
    BY <2>1 DEF Item
  <2>4. Ids(queue)' = {r}
    BY <2>3 DEF Ids
  <2>5. Distinct(queue)'
    BY <2>3 DEF Distinct
  <2>6. Placed'
    BY <1>0, <1>2, <2>1, <2>2, <2>4, <2>5 DEF Placed, Scanned
  <2>7. EventHasHead'
    BY <1>0, <2>1, <2>3 DEF EventHasHead
  <2> QED BY <2>6, <2>7
<1>6. CASE QueueShorter(r, n)
  <2> DEFINE p == [queue EXCEPT ![1].count = CurrentCount - n]
  <2>1. /\ queue # <<>> /\ n < CurrentCount /\ queue' = Cons(Item(r, n), p) /\ driverPc' = "get"
    BY <1>0, <1>6 DEF QueueShorter, scanVars
  <2>2. p \in Seq(ItemSet) /\ Distinct(p) /\ Ids(p) = Ids(queue)
    BY <1>1, <1>4, <2>1
  <2> HIDE DEF p
  <2>3. Distinct(queue)' /\ Ids(queue)' = waiting \cup {r} /\ queue' # <<>>
    BY <1>1, <1>2, <2>1, <2>2, FrontIds
  <2>4. Placed'
    BY <1>0, <2>1, <2>3 DEF Placed, Scanned
  <2>5. ~reached
    BY <1>1, <1>3, <2>1 DEF CurrentCount
  <2>6. EventHasHead'
    BY <1>0, <2>3, <2>5 DEF EventHasHead
  <2> QED BY <2>4, <2>6
<1>7. CASE QueueEqual(r, n)
  <2> DEFINE p == HeadRefreshed
  <2>1. /\ queue # <<>> /\ queue' = Cons(Item(r, 0), p) /\ driverPc' = "get" /\ counter' = counter
    BY <1>0, <1>7 DEF QueueEqual, scanVars
  <2>2. p \in Seq(ItemSet) /\ Distinct(p) /\ Ids(p) = Ids(queue)
    BY <1>1, <1>4, <2>1 DEF HeadRefreshed
  <2> HIDE DEF p
  <2>3. Distinct(queue)' /\ Ids(queue)' = waiting \cup {r} /\ queue' # <<>>
    BY <1>1, <1>2, <2>1, <2>2, FrontIds
  <2>4. Placed'
    BY <1>0, <2>1, <2>3 DEF Placed, Scanned
  <2>5. EventHasHead'
    BY <1>0, <1>3, <2>1, <2>3 DEF EventHasHead
  <2> QED BY <2>4, <2>5
<1>8. CASE QueueLonger(r, n)
  <2>1. /\ queue # <<>> /\ queue' = HeadRefreshed /\ driverPc' = "scan" /\ counter' = counter
        /\ item' = Item(r, n)
    BY <1>8 DEF QueueLonger
  <2>2. Distinct(queue)' /\ Ids(queue)' = waiting /\ queue' # <<>>
    BY <1>1, <1>2, <1>4, <2>1 DEF HeadRefreshed
  <2>3. item'.id = r
    BY <1>1, <2>1
  <2>4. Placed'
    BY <1>0, <1>2, <2>1, <2>2, <2>3 DEF Placed, Scanned
  <2>5. EventHasHead'
    BY <1>0, <1>3, <2>1, <2>2 DEF EventHasHead
  <2> QED BY <2>4, <2>5
<1> QED BY <1>5, <1>6, <1>7, <1>8 DEF QueueRequest

\* The counts of p are those of q with count n put in at place k and taken from the next.
Split(p, q, k, n) ==
  /\ p[k].count = n /\ p[k+1].count = q[k].count - n
  /\ \A i \in 1..Len(q) + 1 :
       (i < k => p[i].count = q[i].count) /\ (i > k + 1 => p[i].count = q[i-1].count)

\* What the for loop makes of the queue when it puts an item with count n before item k.
LEMMA InsertedHere ==
  ASSUME NEW q \in Seq(ItemSet), NEW k \in 1..Len(q), NEW r \in Requests, NEW n \in Int,
         NEW p, p = InsertAt([q EXCEPT ![k].count = @ - n], k, Item(r, n))
  PROVE  p \in Seq(ItemSet) /\ Grown(p, q, k, r) /\ Split(p, q, k, n)
<1> DEFINE e == Item(r, n)
<1>0. Len(q) \in Nat /\ k \in Int /\ q[k].count \in Int
  <2>1. q[k] \in ItemSet
    BY ElementOfSeq
  <2> QED BY <2>1 DEF ItemSet
<1>1. PICK x : x = [q EXCEPT ![k].count = q[k].count - n]
  OBVIOUS
<1>2. /\ x \in Seq(ItemSet) /\ Len(x) = Len(q)
      /\ \A i \in 1..Len(q) : x[i] = IF i = k THEN Item(q[k].id, q[k].count - n) ELSE q[i]
  <2>1. q[k].count - n \in Int
    BY <1>0
  <2> QED BY <1>1, <2>1, CountWritten
<1>3. e \in ItemSet /\ e.id = r /\ e.count = n
  BY DEF Item, ItemSet
<1>4. p = InsertAt(x, k, e)
  BY <1>1
<1>5. k \in 1..Len(x)
  BY <1>2
<1> HIDE DEF e
<1>6. /\ p \in Seq(ItemSet) /\ Len(p) = Len(q) + 1
      /\ \A i \in 1..Len(q) + 1 : p[i] = IF i < k THEN x[i] ELSE IF i = k THEN e ELSE x[i-1]
  <2>1. /\ InsertAt(x, k, e) \in Seq(ItemSet) /\ Len(InsertAt(x, k, e)) = Len(x) + 1
        /\ \A i \in 1..Len(x) + 1 : InsertAt(x, k, e)[i] =
             IF i < k THEN x[i] ELSE IF i = k THEN e ELSE x[i-1]
    BY <1>2, <1>3, <1>5, Inserted, Zenon
  <2> QED BY <1>2, <1>4, <2>1
<1>7. \A i \in 1..Len(q) :
        x[i].id = q[i].id /\ x[i].count = IF i = k THEN q[k].count - n ELSE q[i].count
  BY <1>2 DEF Item
<1>8. ASSUME NEW i \in 1..Len(q) + 1
      PROVE  /\ p[i].id = IF i < k THEN q[i].id ELSE IF i = k THEN r ELSE q[i-1].id
             /\ (i < k => p[i].count = q[i].count) /\ (i > k + 1 => p[i].count = q[i-1].count)
  <2>0. i \in Int /\ (i < k \/ i = k \/ i > k)
    BY <1>0
  <2>1. CASE i < k
    <3>1. i \in 1..Len(q) /\ i # k /\ ~(i > k + 1)
      BY <1>0, <2>0, <2>1
    <3>2. p[i] = x[i]
      BY <1>6, <2>1
    <3> QED BY <1>7, <2>1, <3>1, <3>2
  <2>2. CASE i = k
    <3>1. ~(i < k) /\ ~(i > k + 1)
      BY <1>0, <2>0, <2>2
    <3>2. p[i] = e
      BY <1>6, <2>2, <3>1
    <3> QED BY <1>3, <2>2, <3>1, <3>2
  <2>3. CASE i > k
    <3>1. i - 1 \in 1..Len(q)
      BY <1>0, <2>0, <2>3
    <3>2. ~(i < k) /\ i # k /\ (i > k + 1 => i - 1 # k)
      <4>1. \A a, b \in Int : a > b => ~(a < b) /\ a # b /\ (a > b + 1 => a - 1 # b)
        OBVIOUS
      <4> QED BY <1>0, <2>0, <2>3, <4>1
    <3>3. p[i] = x[i-1]
      BY <1>6, <3>2
    <3> QED BY <1>7, <3>1, <3>2, <3>3
  <2> QED BY <2>0, <2>1, <2>2, <2>3
<1>9. p[k].count = n
  <2>1. k \in 1..Len(q) + 1 /\ ~(k < k)
    BY <1>0
  <2> QED BY <1>3, <1>6, <2>1
<1>10. p[k+1].count = q[k].count - n
  <2>1. k + 1 \in 1..Len(q) + 1 /\ ~(k + 1 < k) /\ k + 1 # k /\ (k + 1) - 1 = k
    BY <1>0
  <2>2. p[k+1] = x[k]
    BY <1>6, <2>1
  <2> QED BY <1>7, <2>2
<1>11. Grown(p, q, k, r)
  BY <1>6, <1>8 DEF Grown
<1> QED BY <1>6, <1>8, <1>9, <1>10, <1>11 DEF Split

\* An item made from integers.
LEMMA ItemIs ==
  ASSUME NEW r \in Requests, NEW n \in Int
  PROVE  Item(r, n) \in ItemSet /\ Item(r, n).id = r /\ Item(r, n).count = n
BY DEF Item, ItemSet

\* What the for loop makes of the queue when it puts an item last.
LEMMA AppendedLast ==
  ASSUME NEW q \in Seq(ItemSet), NEW e \in ItemSet, NEW p, p = Append(q, e)
  PROVE  p \in Seq(ItemSet) /\ Grown(p, q, Len(q) + 1, e.id)
<1>1. /\ p \in Seq(ItemSet) /\ Len(p) = Len(q) + 1 /\ Len(q) \in Nat
      /\ p[Len(q) + 1] = e /\ \A i \in 1..Len(q) : p[i] = q[i]
  OBVIOUS
<1>2. \A i \in 1..Len(q) : i < Len(q) + 1
  BY <1>1
<1>3. \A i \in 1..Len(q) + 1 : i \in 1..Len(q) \/ i = Len(q) + 1
  BY <1>1
<1>4. ~(Len(q) + 1 < Len(q) + 1)
  BY <1>1
<1>5. \A i \in 1..Len(q) + 1 : p[i].id =
        IF i < Len(q) + 1 THEN q[i].id ELSE IF i = Len(q) + 1 THEN e.id ELSE q[i-1].id
  BY <1>1, <1>2, <1>3, <1>4
<1> QED BY <1>1, <1>5 DEF Grown

\* An iteration of the for loop: the item it holds is put into the queue, once, or kept.
LEMMA ScanPlaced ==
  ASSUME QueueInv, Scan
  PROVE  Placed' /\ EventHasHead'
<1>0. /\ driverPc = "scan" /\ responsePc = "wait" /\ queue \in Seq(ItemSet)
      /\ index \in 1..Len(queue) /\ Len(queue) \in Nat \ {0}
      /\ item.id \in Requests /\ item.count \in Int /\ total \in Int
      /\ queue[index].count \in Int
  <2>1. driverPc = "scan" /\ responsePc = "wait"
    BY DEF Scan, ScanInsert, ScanNext, ScanLast, Scanning
  <2>2. queue \in Seq(ItemSet) /\ index \in 1..Len(queue) /\ item \in ItemSet /\ total \in Int
    BY <2>1 DEF QueueInv, TypeOK
  <2>3. queue[index] \in ItemSet /\ Len(queue) \in Nat
    BY <2>2, ElementOfSeq
  <2> QED BY <2>1, <2>2, <2>3 DEF ItemSet
<1>1. /\ Ids(queue) \cup {item.id} = waiting /\ Distinct(queue) /\ item.id \notin Ids(queue)
      /\ reached => counter = 1
  BY <1>0 DEF QueueInv, Placed, Scanned, EventHasHead
<1>2. UNCHANGED <<waiting, counter, reached, responsePc>>
  BY DEF Scan, ScanInsert, ScanNext, ScanLast, EndScan, ifVars, responseVars, sequenceVars
<1>3. ASSUME NEW k \in 1..Len(queue) + 1, queue' \in Seq(ItemSet),
             Grown(queue', queue, k, item.id), EndScan
      PROVE  Placed' /\ EventHasHead'
  <2>1. Distinct(queue)' /\ Ids(queue)' = waiting
    BY <1>0, <1>1, <1>3, OneMore
  <2>2. driverPc' = "get" /\ queue' # <<>>
    BY <1>0, <1>3 DEF EndScan, Grown
  <2> QED BY <1>0, <1>1, <1>2, <2>1, <2>2 DEF Placed, Scanned, EventHasHead
<1>4. ASSUME NEW n \in Int, InsertHere(n), EndScan
      PROVE  Placed' /\ EventHasHead'
  <2>1. queue' = InsertAt([queue EXCEPT ![index].count = @ - n], index, Item(item.id, n))
    BY <1>4 DEF InsertHere
  <2>2. queue' \in Seq(ItemSet) /\ Grown(queue', queue, index, item.id)
    BY <1>0, <2>1, InsertedHere
  <2>3. index \in 1..Len(queue) + 1
    BY <1>0
  <2> QED BY <1>3, <1>4, <2>2, <2>3
<1>5. CASE ScanInsert
  <2>1. item.count - total \in Int
    BY <1>0
  <2> QED BY <1>4, <1>5, <2>1 DEF ScanInsert
<1>6. CASE ScanNext
  <2>1. UNCHANGED <<queue, driverPc, item>>
    BY <1>6 DEF ScanNext
  <2> QED BY <1>2, <2>1 DEF QueueInv, Placed, Scanned, EventHasHead
<1>7. CASE ScanLast
  <2>1. CASE InsertHere(item.count - total)
    <3>1. item.count - total \in Int
      BY <1>0
    <3> QED BY <1>4, <1>7, <2>1, <3>1 DEF ScanLast
  <2>2. CASE queue' = Append(queue, Item(item.id, item.count - (total + queue[index].count)))
    <3> DEFINE e == Item(item.id, item.count - (total + queue[index].count))
    <3>1. e \in ItemSet /\ e.id = item.id
      <4>1. item.count - (total + queue[index].count) \in Int
        BY <1>0
      <4> QED BY <1>0, <4>1, ItemIs
    <3>2. queue' = Append(queue, e)
      BY <2>2
    <3> HIDE DEF e
    <3>3. queue' \in Seq(ItemSet) /\ Grown(queue', queue, Len(queue) + 1, item.id)
      BY <1>0, <3>1, <3>2, AppendedLast
    <3>5. Len(queue) + 1 \in 1..Len(queue) + 1
      BY <1>0
    <3> QED BY <1>3, <1>7, <3>3, <3>5 DEF ScanLast
  <2> QED BY <1>7, <2>1, <2>2 DEF ScanLast
<1> QED BY <1>5, <1>6, <1>7 DEF Scan

\* A step of the response loop answers the head's sequence and nobody else's.
LEMMA RespondPlaced ==
  ASSUME QueueInv, Respond
  PROVE  Placed' /\ EventHasHead'
<1>0. queue # <<>> /\ queue \in Seq(ItemSet) /\ driverPc # "scan" /\ counter \in Int
  BY DEF Respond, ResponseWake, ResponseSchedule, ResponseDue, Quiescent, Looping, QueueInv, TypeOK
<1>1. /\ Ids(queue) = waiting /\ Distinct(queue) /\ driverPc' # "scan"
      /\ Len(queue) \in Nat \ {0} /\ Head(queue) = queue[1]
  <2>1. driverPc' = driverPc
    BY DEF Respond, ResponseWake, ResponseSchedule, ResponseDue, scanVars
  <2> QED BY <1>0, <2>1, Popped DEF QueueInv, Placed, Scanned
<1>2. ASSUME PopHead PROVE Placed'
  <2>1. Ids(queue)' = waiting' /\ Distinct(queue)'
    BY <1>0, <1>1, <1>2, OneLess DEF PopHead
  <2> QED BY <1>1, <2>1 DEF Placed, Scanned
<1>3. CASE ResponseWake
  <2>1. Placed'
    BY <1>2, <1>3 DEF ResponseWake
  <2>2. counter' = 1 /\ reached' = FALSE
    BY <1>3 DEF ResponseWake, QueueInv, EventHasHead
  <2> QED BY <2>1, <2>2 DEF EventHasHead
<1>4. CASE ResponseDue
  <2>1. Placed'
    BY <1>2, <1>4 DEF ResponseDue
  <2>2. responsePc = "loop" /\ queue[1].count = 0 /\ counter' = counter /\ reached' = reached
    BY <1>1, <1>4 DEF ResponseDue, Looping, ifVars
  <2>3. counter \in {0, 1} /\ ~reached
    BY <2>2 DEF QueueInv, EventHasHead
  <2> QED BY <2>1, <2>2, <2>3 DEF EventHasHead
<1>5. CASE ResponseSchedule
  <2>1. UNCHANGED <<queue, waiting, driverPc, item, reached>>
    BY <1>5 DEF ResponseSchedule, scanVars, sequenceVars
  <2>2. Placed'
    BY <2>1 DEF QueueInv, Placed, Scanned
  <2>3. responsePc = "loop" /\ queue[1].count # 0
    BY <1>1, <1>5 DEF ResponseSchedule, Looping
  <2>4. ~reached
    BY <2>3 DEF QueueInv, EventHasHead
  <2>5. EventHasHead'
    BY <1>0, <2>1, <2>3, <2>4 DEF EventHasHead
  <2> QED BY <2>2, <2>5
<1> QED BY <1>3, <1>4, <1>5 DEF Respond

-----------------------------------------------------------------------------
(* Counting.                                                               *)

\* As many places of the queue hold requests of M as there are such requests in it.
LEMMA PlacesCounted ==
  ASSUME NEW q \in Seq(ItemSet), Distinct(q), NEW M
  PROVE  /\ IsFiniteSet(Ids(q) \cap M)
         /\ Cardinality({i \in 1..Len(q) : q[i].id \in M}) = Cardinality(Ids(q) \cap M)
<1> DEFINE S == {i \in 1..Len(q) : q[i].id \in M}
           T == Ids(q) \cap M
           f == [i \in S |-> q[i].id]
<1>0. Len(q) \in Nat
  OBVIOUS
<1>1. IsFiniteSet(S)
  <2>1. IsFiniteSet(1..Len(q))
    BY <1>0, FS_Interval
  <2> QED BY <2>1, FS_Subset
<1>2. f \in [S -> T]
  BY DEF Ids
<1>3. \A i, j \in S : f[i] = f[j] => i = j
  BY DEF Distinct
<1>4. \A x \in T : \E i \in S : f[i] = x
  BY DEF Ids
<1> HIDE DEF S, T, f
<1>5. f \in Bijection(S, T)
  BY <1>2, <1>3, <1>4 DEF Bijection, Injection, Surjection, IsInjective
<1>6. ExistsBijection(S, T)
  BY <1>5 DEF ExistsBijection
<1>7. IsFiniteSet(T) /\ Cardinality(T) = Cardinality(S)
  BY <1>1, <1>6, FS_Bijection
<1> QED BY <1>7 DEF S, T

\* The queue is as long as it has requests.
LEMMA LengthCounted ==
  ASSUME NEW q \in Seq(ItemSet), Distinct(q)
  PROVE  IsFiniteSet(Ids(q)) /\ Cardinality(Ids(q)) = Len(q)
<1>1. Len(q) \in Nat
  OBVIOUS
<1>2. /\ IsFiniteSet(Ids(q) \cap Ids(q))
      /\ Cardinality({i \in 1..Len(q) : q[i].id \in Ids(q)}) = Cardinality(Ids(q) \cap Ids(q))
  BY PlacesCounted
<1>3. {i \in 1..Len(q) : q[i].id \in Ids(q)} = 1..Len(q) /\ Ids(q) \cap Ids(q) = Ids(q)
  BY DEF Ids
<1>4. Cardinality(1..Len(q)) = Len(q)
  <2>1. 1 \in Int /\ Len(q) \in Int
    BY <1>1
  <2>2. Cardinality(1..Len(q)) = IF 1 > Len(q) THEN 0 ELSE Len(q) - 1 + 1
    BY <2>1, FS_Interval, Zenon
  <2> QED BY <1>1, <2>2
<1> QED BY <1>2, <1>3, <1>4

-----------------------------------------------------------------------------
(* The theorems.                                                           *)

LEMMA InitQueue == Init => QueueInv
<1> SUFFICES ASSUME Init PROVE QueueInv
  OBVIOUS
<1>1. TypeOK
  BY InitTypeOK
<1>2. queue = <<>> /\ waiting = {} /\ driverPc = "get" /\ counter = 0 /\ reached = FALSE
      /\ responsePc = "wait" /\ phase = "run"
  BY DEF Init
<1>3. Placed
  BY <1>2 DEF Placed, Scanned, Ids, Distinct
<1>4. EventHasHead
  BY <1>2 DEF EventHasHead
<1>5. MissedReported
  BY <1>2 DEF MissedReported
<1> QED BY <1>1, <1>3, <1>4, <1>5 DEF QueueInv

\* Until the test ends there is nothing to report.
LEMMA NotReported ==
  ASSUME phase = "run", UNCHANGED phase \/ phase' = "fatal"
  PROVE  MissedReported'
BY DEF MissedReported

LEMMA QueueInductive ==
  ASSUME QueueInv, [Next]_vars, TypeOK', ConstantsAssumption
  PROVE  QueueInv'
<1>1. ASSUME NEW p \in Periods, NEW d \in ResetDelays, NEW run \in BOOLEAN,
             StartClock(p, d, run)
      PROVE  QueueInv'
  <2>1. UNCHANGED <<counter, reached, queue, driverPc, item, responsePc, waiting>>
    BY <1>1 DEF StartClock, scanVars, responseVars, sequenceVars
  <2>2. Placed' /\ EventHasHead'
    BY <2>1 DEF QueueInv, Placed, Scanned, EventHasHead
  <2>3. MissedReported'
    BY <1>1, NotReported DEF StartClock, Quiescent
  <2> QED BY <2>2, <2>3 DEF QueueInv
<1>2. ASSUME NEW r \in Requests, NEW n \in 1..MaxCount, QueueRequest(r, n)
      PROVE  QueueInv'
  <2>1. phase = "run" /\ UNCHANGED phase
    BY <1>2 DEF QueueRequest, QueueFirst, QueueShorter, QueueEqual, QueueLonger, Ask, Quiescent,
                testVars
  <2> QED BY <1>2, <2>1, RequestPlaced, NotReported DEF QueueInv
<1>3. CASE Scan
  <2>1. phase = "run" /\ UNCHANGED phase
    BY <1>3 DEF Scan, ScanInsert, ScanNext, ScanLast, Scanning, EndScan, testVars
  <2> QED BY <1>3, <2>1, ScanPlaced, NotReported DEF QueueInv
<1>4. CASE Respond
  <2>1. phase = "run" /\ UNCHANGED phase
    BY <1>4 DEF Respond, ResponseWake, ResponseSchedule, ResponseDue, Quiescent, Looping, testVars
  <2> QED BY <1>4, <2>1, RespondPlaced, NotReported DEF QueueInv
<1>5. CASE Tick
  <2>1. /\ UNCHANGED <<queue, driverPc, item, responsePc, waiting, phase>>
        /\ responsePc = "wait" /\ phase = "run" /\ ~reached
    BY <1>5 DEF Tick, Quiescent, scanVars, responseVars, testVars
  <2>2. Placed'
    BY <2>1 DEF QueueInv, Placed, Scanned
  <2>3. reached' => counter' = 1
    BY <1>5 DEF Tick
  <2>4. queue = <<>> => counter' = 0
    BY <1>5 DEF Tick, QueueInv, EventHasHead
  <2>5. EventHasHead'
    BY <2>1, <2>3, <2>4 DEF EventHasHead
  <2> QED BY <2>1, <2>2, <2>5, NotReported DEF QueueInv
<1>6. CASE EndOfTest
  <2>1. /\ UNCHANGED <<counter, reached, queue, driverPc, item, responsePc, waiting>>
        /\ driverPc = "get"
    BY <1>6 DEF EndOfTest, Quiescent, ifVars, scanVars, responseVars, sequenceVars
  <2>2. Placed' /\ EventHasHead'
    BY <2>1 DEF QueueInv, Placed, Scanned, EventHasHead
  <2>3. waiting = Ids(queue) /\ Distinct(queue) /\ queue \in Seq(ItemSet)
    BY <2>1 DEF QueueInv, Placed, Scanned, TypeOK
  <2>4. missed' = Cardinality(waiting' \cap MustHappen)
    BY <1>6, <2>1, <2>3, PlacesCounted DEF EndOfTest
  <2> QED BY <2>2, <2>4 DEF QueueInv, MissedReported
<1>7. CASE UNCHANGED vars
  BY <1>7 DEF vars, ifVars, scanVars, responseVars, sequenceVars, testVars, QueueInv,
     Placed, Scanned, EventHasHead, MissedReported
<1> QED BY <1>1, <1>2, <1>3, <1>4, <1>5, <1>6, <1>7 DEF Next

LEMMA QueueInvariant == Spec => []QueueInv
<1>1. Init => QueueInv
  BY InitQueue
<1>2. QueueInv /\ TypeOK' /\ [Next]_vars => QueueInv'
  BY QueueInductive, ConstantsAssumption
<1> QED BY <1>1, <1>2, TypeCorrect, PTL DEF Spec

\* With equal deadlines, and with requests taken while the event is pending, every
\* waiting sequence still has exactly one item, in the queue or in the for loop's hands,
\* and nobody else has one (clock_and_reset_driver.sv:85-153, 176-191).
THEOREM NoRequestLost == Spec => []QueueHoldsWaiting
<1>1. QueueInv => QueueHoldsWaiting
  <2> SUFFICES ASSUME QueueInv PROVE QueueHoldsWaiting
    OBVIOUS
  <2>1. IsFiniteSet(Ids(queue)) /\ Cardinality(Ids(queue)) = Len(queue) /\ Len(queue) \in Nat
    BY LengthCounted DEF QueueInv, TypeOK, Placed
  <2>2. CASE driverPc = "scan"
    <3>1. Scanned = {item.id} /\ item.id \notin Ids(queue) /\ waiting = Ids(queue) \cup {item.id}
      BY <2>2 DEF QueueInv, Placed, Scanned
    <3>2. Cardinality(Scanned) = 1 /\ Cardinality(waiting) = Len(queue) + 1
      BY <2>1, <3>1, FS_Singleton, FS_AddElement
    <3> QED BY <3>1, <3>2 DEF QueueHoldsWaiting
  <2>3. CASE driverPc # "scan"
    <3>1. Scanned = {} /\ waiting = Ids(queue)
      BY <2>3 DEF QueueInv, Placed, Scanned
    <3>2. Cardinality(Scanned) = 0
      BY <3>1, FS_EmptySet
    <3> QED BY <2>1, <3>1, <3>2 DEF QueueHoldsWaiting
  <2> QED BY <2>2, <2>3
<1> QED BY <1>1, QueueInvariant, PTL

\* Whatever arrives when, the response loop pops an item and not an empty queue
\* (clock_and_reset_driver.sv:176, 188).
THEOREM NeverPopsEmpty == Spec => []PopHasItem
<1>1. QueueInv => PopHasItem
  BY DEF QueueInv, EventHasHead, TypeOK, PopHasItem
<1> QED BY <1>1, QueueInvariant, PTL

\* report_phase counts every must-happen request that is still waiting, even when the
\* queue's counts are wrong (clock_and_reset_driver.sv:197-214).
THEOREM AllMissedReported == Spec => []MissedReported
<1>1. QueueInv => MissedReported
  BY DEF QueueInv
<1> QED BY <1>1, QueueInvariant, PTL

-----------------------------------------------------------------------------
(* The counts.                                                             *)

\* The clocks until the head will be answered: those the counter has left, or, while the
\* do-while is about to start it, those it will be started with.
Left == IF responsePc = "loop" THEN queue[1].count ELSE CurrentCount

\* d[i] is when the driver will answer item i of q if nothing else arrives, left the time
\* of the head, rem the clocks that remain until each deadline.  No item is early.
DueRow(q, left, rem, d) ==
  /\ d \in [1..Len(q) -> Int]
  /\ q # <<>> => d[1] = left
  /\ \A i \in 2..Len(q) : d[i] = d[i-1] + q[i].count
  /\ \A i \in 1..Len(q) : rem[q[i].id] <= d[i] \/ rem[q[i].id] < 0

\* The for loop: the running total is when the item before the indexed one is answered,
\* and the item to place is due after the head.
ScanDue(d) ==
  driverPc = "scan" =>
    /\ queue[1].count = d[1] /\ item.count > d[1]
    /\ total = IF index = 1 THEN 0 ELSE d[index-1]
    /\ remaining[item.id] = item.count

CountsInv == \E d : DueRow(queue, Left, remaining, d) /\ ScanDue(d)

\* All items are answered s clocks later, and no deadline moves by more, or it has passed.
LEMMA RowMoved ==
  ASSUME NEW q \in Seq(ItemSet), NEW p \in Seq(ItemSet), Len(p) = Len(q),
         \A i \in 1..Len(q) : p[i].id = q[i].id,
         \A i \in 2..Len(q) : p[i].count = q[i].count,
         NEW rem \in [Requests -> Int], NEW rem2 \in [Requests -> Int],
         NEW left \in Int, NEW s \in Int, NEW d, DueRow(q, left, rem, d),
         \A i \in 1..Len(q) :
           \/ rem[q[i].id] >= 0 /\ rem2[q[i].id] <= rem[q[i].id] + s
           \/ rem2[q[i].id] < 0
  PROVE  \E e : DueRow(p, left + s, rem2, e)
<1> DEFINE e == [i \in 1..Len(q) |-> d[i] + s]
<1>0. /\ Len(q) \in Nat /\ d \in [1..Len(q) -> Int]
      /\ \A i \in 1..Len(q) : q[i] \in ItemSet /\ d[i] \in Int
      /\ \A i \in 1..Len(q) : rem[q[i].id] \in Int /\ rem2[q[i].id] \in Int
  <2>1. Len(q) \in Nat /\ d \in [1..Len(q) -> Int]
    BY DEF DueRow
  <2>2. \A i \in 1..Len(q) : q[i] \in ItemSet
    BY ElementOfSeq
  <2>3. \A i \in 1..Len(q) : q[i].id \in Requests
    BY <2>2 DEF ItemSet
  <2> QED BY <2>1, <2>2, <2>3
<1>1. e \in [1..Len(q) -> Int] /\ \A i \in 1..Len(q) : e[i] = d[i] + s
  BY <1>0
<1> HIDE DEF e
<1>2. p # <<>> => e[1] = left + s
  BY <1>0, <1>1, EmptySeq DEF DueRow
<1>3. ASSUME NEW i \in 2..Len(q) PROVE e[i] = e[i-1] + p[i].count
  <2>1. i \in 1..Len(q) /\ i - 1 \in 1..Len(q)
    BY <1>0
  <2>2. d[i] = d[i-1] + q[i].count /\ p[i].count = q[i].count
    BY DEF DueRow
  <2>3. d[i] \in Int /\ d[i-1] \in Int /\ q[i].count \in Int
    BY <1>0, <2>1 DEF ItemSet
  <2>4. e[i] = d[i] + s /\ e[i-1] = d[i-1] + s
    BY <1>1, <2>1
  <2>5. \A a, b, c, t \in Int : a = b + c => a + t = (b + t) + c
    OBVIOUS
  <2> QED BY <2>2, <2>3, <2>4, <2>5
<1>4. ASSUME NEW i \in 1..Len(q) PROVE rem2[p[i].id] <= e[i] \/ rem2[p[i].id] < 0
  <2>1. /\ rem[q[i].id] <= d[i] \/ rem[q[i].id] < 0
        /\ \/ rem[q[i].id] >= 0 /\ rem2[q[i].id] <= rem[q[i].id] + s
           \/ rem2[q[i].id] < 0
        /\ p[i].id = q[i].id /\ e[i] = d[i] + s
    BY <1>1 DEF DueRow
  <2>2. \A a, b, c, t \in Int : (a <= c \/ a < 0) /\ a >= 0 /\ b <= a + t => b <= c + t
    OBVIOUS
  <2>3. rem[q[i].id] \in Int /\ rem2[q[i].id] \in Int /\ d[i] \in Int
    BY <1>0
  <2> QED BY <2>1, <2>2, <2>3
<1> QED BY <1>1, <1>2, <1>3, <1>4 DEF DueRow

\* The counts of p are those of q with an item put in at k that will be answered at n, when
\* the items of q are answered at d: it delays none of them.
CountsGrown(p, q, k, n, d) ==
  /\ k # 1 => p[k].count = n - d[k-1]
  /\ k <= Len(q) => p[k+1].count = d[k] - n
  /\ \A i \in 2..Len(q) + 1 :
       (i < k => p[i].count = q[i].count) /\ (i > k + 1 => p[i].count = q[i-1].count)

\* If the item that is put in is not early, no item is.
LEMMA RowGrown ==
  ASSUME NEW q \in Seq(ItemSet), NEW p \in Seq(ItemSet), NEW k \in 1..Len(q) + 1,
         NEW r \in Requests, Grown(p, q, k, r), NEW n \in Int,
         NEW rem \in [Requests -> Int], rem[r] <= n,
         NEW left, NEW left2, NEW d, DueRow(q, left, rem, d), CountsGrown(p, q, k, n, d),
         left2 = IF k = 1 THEN n ELSE left
  PROVE  \E e : DueRow(p, left2, rem, e)
<1> DEFINE e == [i \in 1..Len(q) + 1 |-> IF i < k THEN d[i] ELSE IF i = k THEN n ELSE d[i-1]]
<1>0. /\ Len(q) \in Nat /\ Len(p) = Len(q) + 1 /\ d \in [1..Len(q) -> Int] /\ k \in Int
      /\ \A i \in 1..Len(q) : q[i] \in ItemSet /\ d[i] \in Int
      /\ \A i \in 1..Len(q) + 1 :
           p[i].id = IF i < k THEN q[i].id ELSE IF i = k THEN r ELSE q[i-1].id
  <2>1. \A i \in 1..Len(q) : q[i] \in ItemSet
    BY ElementOfSeq
  <2>2. Len(q) \in Nat /\ d \in [1..Len(q) -> Int]
    BY DEF DueRow
  <2>3. \A i \in 1..Len(q) : d[i] \in Int
    BY <2>2
  <2> QED BY <2>1, <2>2, <2>3 DEF Grown
<1>1. ASSUME NEW i \in 1..Len(q) + 1
      PROVE  /\ e[i] = IF i < k THEN d[i] ELSE IF i = k THEN n ELSE d[i-1]
             /\ e[i] \in Int
             /\ i < k => i \in 1..Len(q)
             /\ i > k => i - 1 \in 1..Len(q)
  <2>1. i < k => i \in 1..Len(q)
    BY <1>0
  <2>2. i > k => i - 1 \in 1..Len(q)
    BY <1>0
  <2>3. i \in Int /\ (i < k \/ i = k \/ i > k)
    BY <1>0
  <2> QED BY <1>0, <2>1, <2>2, <2>3
<1>2. e \in [1..Len(p) -> Int]
  BY <1>0, <1>1
<1> HIDE DEF e
<1>3. e[1] = left2
  <2>1. 1 \in 1..Len(q) + 1
    BY <1>0
  <2>2. CASE k = 1
    BY <1>1, <2>1, <2>2
  <2>3. CASE k # 1
    <3>1. 1 < k /\ q # <<>>
      BY <1>0, <2>3
    <3> QED BY <1>1, <2>1, <2>3, <3>1 DEF DueRow
  <2> QED BY <2>2, <2>3
<1>4. ASSUME NEW i \in 2..Len(p) PROVE e[i] = e[i-1] + p[i].count
  <2>0. /\ i \in 1..Len(q) + 1 /\ i - 1 \in 1..Len(q) + 1 /\ i \in Int /\ i \in 2..Len(q) + 1
        /\ i < k \/ i = k \/ i = k + 1 \/ i > k + 1
    <3>1. i \in 1..Len(q) + 1 /\ i - 1 \in 1..Len(q) + 1 /\ i \in Int /\ i \in 2..Len(q) + 1
      BY <1>0
    <3>2. \A a, b \in Int : a < b \/ a = b \/ a = b + 1 \/ a > b + 1
      OBVIOUS
    <3> QED BY <1>0, <3>1, <3>2
  <2>5. \A a, b \in Int : a = b + (a - b)
    OBVIOUS
  <2>1. CASE i < k
    <3>1. i - 1 < k /\ i \in 2..Len(q)
      BY <1>0, <2>0, <2>1
    <3>2. e[i] = d[i] /\ e[i-1] = d[i-1] /\ p[i].count = q[i].count
      BY <1>1, <2>0, <2>1, <3>1 DEF CountsGrown
    <3> QED BY <3>1, <3>2 DEF DueRow
  <2>2. CASE i = k
    <3>1. i - 1 < k /\ k # 1 /\ i - 1 \in 1..Len(q)
      BY <1>0, <2>0, <2>2
    <3>2. e[i] = n /\ e[i-1] = d[i-1] /\ p[i].count = n - d[i-1] /\ d[i-1] \in Int
      BY <1>0, <1>1, <2>0, <2>2, <3>1 DEF CountsGrown
    <3> QED BY <2>5, <3>2
  <2>3. CASE i = k + 1
    <3>1. i - 1 = k /\ i > k /\ k \in 1..Len(q) /\ k <= Len(q) /\ ~(i < k) /\ i # k
      BY <1>0, <2>0, <2>3
    <3>2. e[i] = d[k] /\ e[i-1] = n /\ p[i].count = d[k] - n /\ d[k] \in Int
      <4>1. e[i] = d[k] /\ d[k] \in Int
        BY <1>0, <1>1, <2>0, <3>1
      <4>2. e[k] = n /\ e[i-1] = e[k]
        BY <1>1, <3>1
      <4>3. p[i].count = d[k] - n
        BY <2>3, <3>1 DEF CountsGrown
      <4> QED BY <4>1, <4>2, <4>3
    <3> QED BY <2>5, <3>2
  <2>4. CASE i > k + 1
    <3>1. /\ ~(i < k) /\ i # k /\ ~(i - 1 < k) /\ i - 1 # k /\ i - 1 \in 2..Len(q)
      BY <1>0, <2>0, <2>4
    <3>2. e[i] = d[i-1] /\ e[i-1] = d[(i-1)-1] /\ p[i].count = q[i-1].count
      BY <1>1, <2>0, <2>4, <3>1 DEF CountsGrown
    <3>3. d[i-1] = d[(i-1)-1] + q[i-1].count
      BY <3>1 DEF DueRow
    <3> QED BY <3>2, <3>3
  <2> QED BY <2>0, <2>1, <2>2, <2>3, <2>4
<1>5. ASSUME NEW i \in 1..Len(p) PROVE rem[p[i].id] <= e[i] \/ rem[p[i].id] < 0
  <2>0. i \in 1..Len(q) + 1 /\ i \in Int /\ (i < k \/ i = k \/ i > k)
    BY <1>0
  <2>1. CASE i < k
    <3>1. e[i] = d[i] /\ p[i].id = q[i].id /\ i \in 1..Len(q)
      BY <1>0, <1>1, <2>0, <2>1
    <3> QED BY <3>1 DEF DueRow
  <2>2. CASE i = k
    <3>1. e[i] = n /\ p[i].id = r
      BY <1>0, <1>1, <2>0, <2>2
    <3> QED BY <3>1
  <2>3. CASE i > k
    <3>1. ~(i < k) /\ i # k
      BY <2>0, <2>3, <1>0
    <3>2. e[i] = d[i-1] /\ p[i].id = q[i-1].id /\ i - 1 \in 1..Len(q)
      BY <1>0, <1>1, <2>0, <2>3, <3>1
    <3> QED BY <3>2 DEF DueRow
  <2> QED BY <2>0, <2>1, <2>2, <2>3
<1> QED BY <1>2, <1>3, <1>4, <1>5, <1>0 DEF DueRow

\* Taking off a head that is answered now.
LEMMA RowTail ==
  ASSUME NEW q \in Seq(ItemSet), q # <<>>, NEW rem \in [Requests -> Int],
         NEW d, DueRow(q, 0, rem, d), NEW left, Tail(q) # <<>> => left = Tail(q)[1].count
  PROVE  \E e : DueRow(Tail(q), left, rem, e)
<1> DEFINE e == [i \in 1..Len(q) - 1 |-> d[i+1]]
           t == Tail(q)
<1>0. /\ Len(q) \in Nat \ {0} /\ t \in Seq(ItemSet) /\ Len(t) = Len(q) - 1
      /\ \A i \in 1..Len(q) - 1 : t[i] = q[i+1]
  BY Popped
<1>1. d \in [1..Len(q) -> Int] /\ d[1] = 0
  BY DEF DueRow
<1>2. /\ e \in [1..Len(t) -> Int]
      /\ \A i \in 1..Len(q) - 1 : e[i] = d[i+1] /\ i + 1 \in 1..Len(q)
  BY <1>0, <1>1
<1> HIDE DEF e
<1>3. t # <<>> => e[1] = left
  <2> SUFFICES ASSUME t # <<>> PROVE e[1] = left
    OBVIOUS
  <2>1. 1 \in 1..Len(q) - 1 /\ 2 \in 2..Len(q) /\ 2 - 1 = 1 /\ 1 + 1 = 2
    BY <1>0, EmptySeq
  <2>2. d[2] = d[1] + q[2].count /\ e[1] = d[2] /\ t[1] = q[2]
    BY <1>0, <1>2, <2>1 DEF DueRow
  <2>3. q[2].count \in Int
    <3>1. q[2] \in ItemSet
      BY <1>0, <2>1
    <3> QED BY <3>1 DEF ItemSet
  <2> QED BY <1>1, <2>2, <2>3
<1>4. ASSUME NEW i \in 2..Len(t) PROVE e[i] = e[i-1] + t[i].count
  <2>1. /\ i \in 1..Len(q) - 1 /\ i - 1 \in 1..Len(q) - 1 /\ i + 1 \in 2..Len(q)
        /\ (i + 1) - 1 = i /\ (i - 1) + 1 = i
    BY <1>0
  <2>2. d[i+1] = d[i] + q[i+1].count
    BY <2>1 DEF DueRow
  <2>3. e[i] = d[i+1] /\ e[i-1] = d[i] /\ t[i] = q[i+1]
    BY <1>0, <1>2, <2>1
  <2> QED BY <2>2, <2>3
<1>5. ASSUME NEW i \in 1..Len(t) PROVE rem[t[i].id] <= e[i] \/ rem[t[i].id] < 0
  <2>1. e[i] = d[i+1] /\ t[i] = q[i+1] /\ i + 1 \in 1..Len(q)
    BY <1>0, <1>2
  <2> QED BY <2>1 DEF DueRow
<1> QED BY <1>2, <1>3, <1>4, <1>5 DEF DueRow

\* With an empty queue anything is a row.
LEMMA CountsEmpty ==
  ASSUME queue = <<>>, driverPc # "scan"
  PROVE  CountsInv
<1>1. DueRow(queue, Left, remaining, [i \in 1..Len(queue) |-> 0])
  BY DEF DueRow
<1> QED BY <1>1 DEF CountsInv, ScanDue

LEMMA LeftIs == ASSUME TypeOK PROVE Left \in Int /\ CurrentCount \in Int
<1>1. CurrentCount \in Int
  BY DEF CurrentCount, TypeOK
<1>2. CASE responsePc = "loop"
  <2>1. queue \in Seq(ItemSet) /\ 1 \in 1..Len(queue)
    BY <1>2, EmptySeq DEF TypeOK
  <2>2. queue[1] \in ItemSet
    BY <2>1, ElementOfSeq
  <2> QED BY <1>1, <1>2, <2>2 DEF Left, ItemSet
<1> QED BY <1>1, <1>2 DEF Left

\* An item that goes first and is answered at n, before one that holds the clocks after.
LEMMA RowFront ==
  ASSUME NEW q \in Seq(ItemSet), q # <<>>, NEW e \in ItemSet, Distinct(q), e.id \notin Ids(q),
         NEW rem \in [Requests -> Int], NEW n \in Int, rem[e.id] <= n,
         NEW left \in Int, NEW d, DueRow(q, left, rem, d), q[1].count = d[1] - n
  PROVE  \E f : DueRow(Cons(e, q), n, rem, f)
<1> DEFINE p == Cons(e, q)
<1>0. Len(q) \in Nat \ {0} /\ e.id \in Requests
  BY EmptySeq DEF ItemSet
<1>1. /\ p \in Seq(ItemSet) /\ Len(p) = Len(q) + 1
      /\ \A i \in 1..Len(q) + 1 : p[i] = IF i = 1 THEN e ELSE q[i-1]
  BY PushFront
<1> HIDE DEF p
<1>2. Grown(p, q, 1, e.id)
  BY <1>0, <1>1 DEF Grown
<1>3. CountsGrown(p, q, 1, n, d)
  BY <1>0, <1>1 DEF CountsGrown
<1>4. PICK k \in 1..Len(q) + 1 : k = 1
  BY <1>0
<1>5. Grown(p, q, k, e.id) /\ CountsGrown(p, q, k, n, d) /\ n = IF k = 1 THEN n ELSE left
  BY <1>2, <1>3, <1>4
<1>6. \E f : DueRow(p, n, rem, f)
  BY <1>0, <1>1, <1>5, RowGrown
<1> QED BY <1>6 DEF p

LEMMA RequestCounts ==
  ASSUME QueueInv, CountsInv, TypeOK', ConstantsAssumption,
         NEW r \in Requests, NEW n \in 1..MaxCount, QueueRequest(r, n)
  PROVE  CountsInv'
<1>0. /\ driverPc = "get" /\ responsePc = "wait" /\ r \notin waiting /\ responsePc' = "wait"
      /\ remaining' = [remaining EXCEPT ![r] = n]
  BY DEF QueueRequest, QueueFirst, QueueShorter, QueueEqual, QueueLonger, Ask, Quiescent,
         responseVars
<1>1. /\ queue \in Seq(ItemSet) /\ n \in Int /\ n > 0 /\ CurrentCount \in Int
      /\ remaining \in [Requests -> Int] /\ remaining' \in [Requests -> Int]
      /\ remaining'[r] = n /\ counter \in Int
  BY <1>0, LeftIs DEF QueueInv, TypeOK, ConstantsAssumption
<1>2. Ids(queue) = waiting /\ Distinct(queue) /\ r \notin Ids(queue)
  BY <1>0 DEF QueueInv, Placed, Scanned
<1>3. PICK d : DueRow(queue, CurrentCount, remaining, d)
  BY <1>0 DEF CountsInv, Left
<1>4. DueRow(queue, CurrentCount, remaining', d)
  <2>1. \A i \in 1..Len(queue) : queue[i].id # r
    BY <1>2 DEF Ids
  <2>2. \A i \in 1..Len(queue) : queue[i].id \in Requests
    <3>1. \A i \in 1..Len(queue) : queue[i] \in ItemSet
      BY <1>1, ElementOfSeq
    <3> QED BY <3>1 DEF ItemSet
  <2>3. \A i \in 1..Len(queue) : remaining'[queue[i].id] = remaining[queue[i].id]
    BY <1>0, <1>1, <2>1, <2>2
  <2> QED BY <1>3, <2>3 DEF DueRow
<1>5. CurrentCount' = IF counter' # 0 THEN counter' - 1 ELSE 0
  BY DEF CurrentCount
<1>6. ASSUME NEW c \in Int, NEW p, p = [queue EXCEPT ![1].count = c], queue # <<>>
      PROVE  /\ p \in Seq(ItemSet) /\ p # <<>> /\ Distinct(p) /\ r \notin Ids(p)
             /\ p[1].count = c /\ Len(p) = Len(queue)
             /\ DueRow(p, CurrentCount, remaining', d)
  <2>1. /\ p \in Seq(ItemSet) /\ p # <<>> /\ Len(p) = Len(queue)
        /\ Distinct(p) /\ Ids(p) = Ids(queue) /\ p[1].count = c
        /\ \A i \in 1..Len(queue) : p[i].id = queue[i].id
        /\ \A i \in 2..Len(queue) : p[i].count = queue[i].count
    <3>1. queue \in Seq(ItemSet) /\ queue # <<>> /\ Distinct(queue) /\ c \in Int
      BY <1>1, <1>2, <1>6
    <3>2. p = [queue EXCEPT ![1].count = c]
      BY <1>6
    <3> DEFINE x == [queue EXCEPT ![1].count = c]
    <3>3. /\ x \in Seq(ItemSet) /\ x # <<>> /\ Len(x) = Len(queue)
          /\ Distinct(x) /\ Ids(x) = Ids(queue) /\ x[1].count = c
          /\ \A i \in 1..Len(queue) : x[i].id = queue[i].id
          /\ \A i \in 2..Len(queue) : x[i].count = queue[i].count
      BY <3>1, HeadWritten
    <3> HIDE DEF x
    <3>4. p = x
      BY <3>2 DEF x
    <3> QED BY <3>3, <3>4
  <2>2. DueRow(p, CurrentCount, remaining', d)
    BY <1>4, <1>6, <2>1 DEF DueRow
  <2> QED BY <1>2, <2>1, <2>2
<1>7. ASSUME NEW f, DueRow(queue', CurrentCount', remaining', f), driverPc' # "scan"
      PROVE  CountsInv'
  BY <1>0, <1>7 DEF CountsInv, ScanDue, Left
<1>8. CASE QueueFirst(r, n)
  <2>1. /\ queue' = <<Item(r, n)>> /\ counter' = n + 1 /\ driverPc' # "scan"
    BY <1>0, <1>8 DEF QueueFirst, CountFor, scanVars
  <2>2. Len(queue') = 1 /\ queue'[1].id = r
    BY <2>1 DEF Item
  <2>3. CurrentCount' = n
    BY <1>1, <1>5, <2>1
  <2>4. DueRow(queue', n, remaining', [i \in 1..1 |-> n])
    BY <1>1, <2>2 DEF DueRow
  <2> QED BY <1>7, <2>1, <2>3, <2>4
<1>9. CASE QueueShorter(r, n)
  <2>0. PICK p : p = [queue EXCEPT ![1].count = CurrentCount - n]
    OBVIOUS
  <2>1. /\ queue # <<>> /\ queue' = Cons(Item(r, n), p) /\ counter' = n + 1
        /\ driverPc' # "scan"
    BY <1>0, <1>9, <2>0 DEF QueueShorter, CountFor, scanVars
  <2>2. CurrentCount - n \in Int /\ CurrentCount' = n
    BY <1>1, <1>5, <2>1
  <2>3. /\ p \in Seq(ItemSet) /\ p # <<>> /\ Distinct(p) /\ r \notin Ids(p)
        /\ p[1].count = CurrentCount - n /\ DueRow(p, CurrentCount, remaining', d)
    BY <1>6, <2>0, <2>1, <2>2
  <2>4. PICK e : e = Item(r, n) /\ e \in ItemSet /\ e.id = r
    <3>1. Item(r, n) \in ItemSet /\ Item(r, n).id = r
      BY <1>1 DEF Item, ItemSet
    <3> QED BY <3>1
  <2>5. p[1].count = d[1] - n
    BY <2>3 DEF DueRow
  <2>6. \E f : DueRow(queue', n, remaining', f)
    <3>1. remaining'[e.id] <= n /\ e.id \notin Ids(p) /\ queue' = Cons(e, p)
      BY <1>1, <2>1, <2>3, <2>4
    <3> QED BY <1>1, <2>3, <2>4, <2>5, <3>1, RowFront
  <2> QED BY <1>7, <2>1, <2>2, <2>6
<1>10. CASE QueueEqual(r, n)
  <2>0. PICK p : p = [queue EXCEPT ![1].count = CurrentCount]
    OBVIOUS
  <2>1. /\ queue # <<>> /\ n = CurrentCount /\ queue' = Cons(Item(r, 0), p)
        /\ counter' = counter /\ driverPc' # "scan"
    BY <1>0, <1>10, <2>0 DEF QueueEqual, HeadRefreshed, scanVars
  <2>2. CurrentCount' = n
    BY <1>5, <2>1 DEF CurrentCount
  <2>3. /\ p \in Seq(ItemSet) /\ p # <<>> /\ Distinct(p) /\ r \notin Ids(p)
        /\ p[1].count = n /\ DueRow(p, n, remaining', d)
    BY <1>1, <1>6, <2>0, <2>1
  <2>4. PICK g : g = Item(r, 0) /\ g \in ItemSet /\ g.id = r
    <3>1. Item(r, 0) \in ItemSet /\ Item(r, 0).id = r
      BY <1>1 DEF Item, ItemSet
    <3> QED BY <3>1
  <2>5. PICK f : DueRow(p, n + n, remaining', f)
    <3>1. /\ \A i \in 1..Len(p) : p[i].id = p[i].id
          /\ \A i \in 2..Len(p) : p[i].count = p[i].count
      OBVIOUS
    <3>2. ASSUME NEW i \in 1..Len(p)
          PROVE  \/ remaining'[p[i].id] >= 0 /\ remaining'[p[i].id] <= remaining'[p[i].id] + n
                 \/ remaining'[p[i].id] < 0
      <4>1. p[i] \in ItemSet
        BY <2>3, ElementOfSeq
      <4>2. remaining'[p[i].id] \in Int
        BY <1>1, <4>1 DEF ItemSet
      <4>3. \A a, b \in Int : b > 0 => (a >= 0 /\ a <= a + b) \/ a < 0
        OBVIOUS
      <4> QED BY <1>1, <4>2, <4>3
    <3> QED BY <1>1, <2>3, <3>1, <3>2, RowMoved
  <2>6. p[1].count = f[1] - n
    <3>1. f[1] = n + n
      BY <2>3, <2>5 DEF DueRow
    <3> QED BY <1>1, <2>3, <3>1
  <2>7. \E e : DueRow(queue', n, remaining', e)
    <3>1. remaining'[g.id] <= n /\ g.id \notin Ids(p) /\ queue' = Cons(g, p) /\ n + n \in Int
      BY <1>1, <2>1, <2>3, <2>4
    <3> QED BY <1>1, <2>3, <2>4, <2>5, <2>6, <3>1, RowFront
  <2> QED BY <1>7, <2>1, <2>2, <2>7
<1>11. CASE QueueLonger(r, n)
  <2>0. PICK p : p = [queue EXCEPT ![1].count = CurrentCount]
    OBVIOUS
  <2>1. /\ queue # <<>> /\ n > CurrentCount /\ queue' = p /\ counter' = counter
        /\ item' = Item(r, n) /\ index' = 1 /\ total' = 0
    BY <1>11, <2>0 DEF QueueLonger, HeadRefreshed
  <2>2. CurrentCount' = CurrentCount
    BY <1>5, <2>1 DEF CurrentCount
  <2>3. p # <<>> /\ p[1].count = CurrentCount /\ DueRow(p, CurrentCount, remaining', d)
    BY <1>1, <1>6, <2>0, <2>1
  <2>4. DueRow(queue', Left', remaining', d)
    BY <1>0, <2>1, <2>2, <2>3 DEF Left
  <2>5. d[1] = CurrentCount
    BY <2>3 DEF DueRow
  <2>6. item'.count = n /\ item'.id = r
    BY <2>1 DEF Item
  <2>7. ScanDue(d)'
    BY <1>1, <2>1, <2>3, <2>5, <2>6 DEF ScanDue
  <2> QED BY <2>4, <2>7 DEF CountsInv
<1> QED BY <1>8, <1>9, <1>10, <1>11 DEF QueueRequest

LEMMA ScanCounts ==
  ASSUME QueueInv, CountsInv, Scan
  PROVE  CountsInv'
<1>0. /\ driverPc = "scan" /\ responsePc = "wait" /\ queue \in Seq(ItemSet)
      /\ index \in 1..Len(queue) /\ Len(queue) \in Nat \ {0} /\ index \in Int
      /\ item.id \in Requests /\ item.count \in Int /\ total \in Int
      /\ queue[index].count \in Int
  <2>1. driverPc = "scan" /\ responsePc = "wait"
    BY DEF Scan, ScanInsert, ScanNext, ScanLast, Scanning
  <2>2. queue \in Seq(ItemSet) /\ index \in 1..Len(queue) /\ item \in ItemSet /\ total \in Int
    BY <2>1 DEF QueueInv, TypeOK
  <2>3. queue[index] \in ItemSet /\ Len(queue) \in Nat
    BY <2>2, ElementOfSeq
  <2> QED BY <2>1, <2>2, <2>3 DEF ItemSet
<1>1. UNCHANGED <<remaining, counter, responsePc>>
  BY DEF Scan, ScanInsert, ScanNext, ScanLast, EndScan, ifVars, responseVars, sequenceVars
<1>2. /\ CurrentCount \in Int /\ remaining \in [Requests -> Int]
      /\ CurrentCount' = CurrentCount /\ Left = CurrentCount /\ Left' = CurrentCount
  <2>1. CurrentCount' = CurrentCount
    BY <1>1 DEF CurrentCount
  <2> QED BY <1>0, <1>1, <2>1, LeftIs DEF QueueInv, TypeOK, Left
<1>3. PICK d : DueRow(queue, CurrentCount, remaining, d) /\ ScanDue(d)
  BY <1>2 DEF CountsInv
<1>4. /\ queue[1].count = d[1] /\ item.count > d[1]
      /\ total = IF index = 1 THEN 0 ELSE d[index-1]
      /\ remaining[item.id] = item.count
      /\ \A i \in 1..Len(queue) : d[i] \in Int
  BY <1>0, <1>3 DEF ScanDue, DueRow
<1>5. d[index] = total + queue[index].count
  <2>1. CASE index = 1
    <3>1. 1 \in 1..Len(queue) /\ d[1] \in Int /\ total = 0
      BY <1>0, <1>4, <2>1
    <3> QED BY <1>4, <2>1, <3>1
  <2>2. CASE index # 1
    <3>1. index \in 2..Len(queue)
      BY <1>0, <2>2
    <3> QED BY <1>3, <1>4, <2>2, <3>1 DEF DueRow
  <2> QED BY <2>1, <2>2
<1>6. ASSUME NEW k \in 1..Len(queue) + 1, k # 1, queue' \in Seq(ItemSet),
             Grown(queue', queue, k, item.id), CountsGrown(queue', queue, k, item.count, d), EndScan
      PROVE  CountsInv'
  <2>1. /\ remaining[item.id] <= item.count
        /\ CurrentCount = IF k = 1 THEN item.count ELSE CurrentCount
    BY <1>0, <1>4, <1>6
  <2>2. \E e : DueRow(queue', CurrentCount, remaining, e)
    BY <1>0, <1>2, <1>3, <1>6, <2>1, RowGrown
  <2>3. driverPc' # "scan"
    BY <1>6 DEF EndScan
  <2> QED BY <1>1, <1>2, <2>2, <2>3 DEF CountsInv, ScanDue
<1>7. ASSUME InsertHere(item.count - total), index # 1, EndScan
      PROVE  CountsInv'
  <2>1. PICK n \in Int : n = item.count - total
    BY <1>0
  <2>2. queue' = InsertAt([queue EXCEPT ![index].count = @ - n], index, Item(item.id, n))
    BY <1>7, <2>1 DEF InsertHere
  <2>3. /\ queue' \in Seq(ItemSet) /\ Grown(queue', queue, index, item.id)
        /\ Split(queue', queue, index, n)
    BY <1>0, <2>2, InsertedHere
  <2>4. queue'[index].count = item.count - d[index-1]
    BY <1>4, <1>7, <2>1, <2>3 DEF Split
  <2>5. queue'[index+1].count = d[index] - item.count
    <3>1. \A a, b, c \in Int : a - (b - c) = (c + a) - b
      OBVIOUS
    <3>2. queue'[index+1].count = queue[index].count - n
      BY <2>3 DEF Split
    <3>3. queue[index].count - (item.count - total) = (total + queue[index].count) - item.count
      BY <1>0, <3>1
    <3> QED BY <1>5, <2>1, <3>2, <3>3
  <2>6. \A i \in 2..Len(queue) + 1 : i \in 1..Len(queue) + 1
    BY <1>0
  <2>7. CountsGrown(queue', queue, index, item.count, d)
    BY <2>3, <2>4, <2>5, <2>6 DEF CountsGrown, Split
  <2>8. index \in 1..Len(queue) + 1
    BY <1>0
  <2> QED BY <1>6, <1>7, <2>3, <2>7, <2>8
<1>8. CASE ScanInsert
  <2>1. InsertHere(item.count - total) /\ EndScan /\ item.count < total + queue[index].count
    BY <1>8 DEF ScanInsert, FitsBefore
  <2>2. index # 1
    <3>1. 1 \in 1..Len(queue) /\ d[1] \in Int
      BY <1>0, <1>4
    <3> QED BY <1>0, <1>4, <1>5, <2>1, <3>1
  <2> QED BY <1>7, <2>1, <2>2
<1>9. CASE ScanLast
  <2>1. CASE item.count < queue[index].count /\ InsertHere(item.count - total)
    <3>1. index # 1
      <4>1. 1 \in 1..Len(queue) /\ d[1] \in Int
        BY <1>0, <1>4
      <4> QED BY <1>0, <1>4, <2>1, <4>1
    <3> QED BY <1>7, <1>9, <2>1, <3>1 DEF ScanLast
  <2>2. CASE queue' = Append(queue, Item(item.id, item.count - (total + queue[index].count)))
    <3>1. PICK e : /\ e \in ItemSet /\ e.id = item.id /\ e.count = item.count - d[index]
                   /\ queue' = Append(queue, e)
      <4>1. item.count - (total + queue[index].count) \in Int
        BY <1>0
      <4>2. LET e == Item(item.id, item.count - (total + queue[index].count))
            IN  /\ e \in ItemSet /\ e.id = item.id
                /\ e.count = item.count - (total + queue[index].count)
        BY <1>0, <4>1, ItemIs
      <4> QED BY <1>5, <2>2, <4>2
    <3>2. queue'[Len(queue) + 1] = e /\ \A i \in 1..Len(queue) : queue'[i] = queue[i]
      BY <1>0, <3>1
    <3>3. queue' \in Seq(ItemSet) /\ Grown(queue', queue, Len(queue) + 1, item.id)
      BY <1>0, <3>1, AppendedLast
    <3>4. index = Len(queue) /\ EndScan
      BY <1>9 DEF ScanLast
    <3>5. /\ Len(queue) + 1 \in 1..Len(queue) + 1 /\ Len(queue) + 1 # 1
          /\ (Len(queue) + 1) - 1 = index /\ ~(Len(queue) + 1 <= Len(queue))
      BY <1>0, <3>4
    <3>6. ASSUME NEW i \in 2..Len(queue) + 1
          PROVE  /\ i < Len(queue) + 1 => queue'[i].count = queue[i].count
                 /\ ~(i > (Len(queue) + 1) + 1)
      <4>1. i < Len(queue) + 1 => i \in 1..Len(queue)
        BY <1>0
      <4>2. ~(i > (Len(queue) + 1) + 1)
        BY <1>0
      <4> QED BY <3>2, <4>1, <4>2
    <3>7. CountsGrown(queue', queue, Len(queue) + 1, item.count, d)
      BY <3>1, <3>2, <3>5, <3>6 DEF CountsGrown
    <3> QED BY <1>6, <3>3, <3>4, <3>5, <3>7
  <2> QED BY <1>9, <2>1, <2>2 DEF ScanLast
<1>10. CASE ScanNext
  <2>1. /\ UNCHANGED <<queue, driverPc, item>> /\ index < Len(queue)
        /\ total' = total + queue[index].count /\ index' = index + 1
    BY <1>10 DEF ScanNext
  <2>2. total' = IF index' = 1 THEN 0 ELSE d[index'-1]
    <3>1. index' # 1 /\ index' - 1 = index
      BY <1>0, <2>1
    <3> QED BY <1>5, <2>1, <3>1
  <2>3. ScanDue(d)'
    BY <1>1, <1>4, <2>1, <2>2 DEF ScanDue
  <2>4. DueRow(queue', Left', remaining', d)
    BY <1>1, <1>2, <1>3, <2>1
  <2> QED BY <2>3, <2>4 DEF CountsInv
<1> QED BY <1>8, <1>9, <1>10 DEF Scan

\* A step of the response loop: who is answered has waited long enough, and the counts of
\* the others still are.
LEMMA RespondCounts ==
  ASSUME QueueInv, CountsInv, Respond
  PROVE  CountsInv' /\ \A r \in waiting : r \notin waiting' => remaining[r] <= 0
<1>0. /\ queue # <<>> /\ queue \in Seq(ItemSet) /\ driverPc # "scan" /\ driverPc' # "scan"
      /\ counter \in Int /\ remaining \in [Requests -> Int] /\ remaining' = remaining
  <2>1. driverPc' = driverPc /\ driverPc # "scan" /\ remaining' = remaining
    BY DEF Respond, ResponseWake, ResponseSchedule, ResponseDue, Quiescent, Looping, PopHead,
           scanVars, sequenceVars, QueueInv, TypeOK
  <2>2. queue # <<>>
    BY DEF Respond, ResponseWake, ResponseSchedule, ResponseDue, Looping, QueueInv, TypeOK
  <2> QED BY <2>1, <2>2 DEF QueueInv, TypeOK
<1>1. Left \in Int /\ Len(queue) \in Nat \ {0} /\ Head(queue) = queue[1]
  BY <1>0, LeftIs, Popped DEF QueueInv
<1>2. PICK d : DueRow(queue, Left, remaining, d)
  BY DEF CountsInv
<1>3. ASSUME PopHead, Left = 0, responsePc' = IF queue' # <<>> THEN "loop" ELSE "wait"
      PROVE  CountsInv' /\ \A r \in waiting : r \notin waiting' => remaining[r] <= 0
  <2>1. queue' = Tail(queue) /\ waiting' = waiting \ {queue[1].id}
    BY <1>1, <1>3 DEF PopHead
  <2>2. remaining[queue[1].id] <= 0
    <3>1. 1 \in 1..Len(queue) /\ d[1] = 0
      BY <1>0, <1>1, <1>2, <1>3 DEF DueRow
    <3>2. queue[1] \in ItemSet
      BY <1>0, <3>1, ElementOfSeq
    <3>3. remaining[queue[1].id] \in Int
      BY <1>0, <3>2 DEF ItemSet
    <3>4. remaining[queue[1].id] <= d[1] \/ remaining[queue[1].id] < 0
      BY <1>2, <3>1 DEF DueRow
    <3> QED BY <3>1, <3>3, <3>4
  <2>3. Tail(queue) # <<>> => Left' = Tail(queue)[1].count
    BY <1>3, <2>1 DEF Left
  <2>4. \E e : DueRow(queue', Left', remaining', e)
    BY <1>0, <1>2, <1>3, <2>1, <2>3, RowTail
  <2>5. CountsInv'
    BY <1>0, <2>4 DEF CountsInv, ScanDue
  <2> QED BY <2>1, <2>2, <2>5
<1>4. CASE ResponseWake
  <2>1. Left = 0
    BY <1>4 DEF ResponseWake, Quiescent, QueueInv, EventHasHead, Left, CurrentCount
  <2> QED BY <1>3, <1>4, <2>1 DEF ResponseWake
<1>5. CASE ResponseDue
  <2>1. Left = 0
    BY <1>1, <1>5 DEF ResponseDue, Looping, Left
  <2> QED BY <1>3, <1>5, <2>1 DEF ResponseDue
<1>6. CASE ResponseSchedule
  <2>1. /\ responsePc = "loop" /\ counter' = queue[1].count + 1
        /\ UNCHANGED <<queue, waiting>>
    BY <1>1, <1>6 DEF ResponseSchedule, Looping, CountFor, sequenceVars
  <2>2. Left = queue[1].count
    BY <2>1 DEF Left
  <2>3. PICK s \in Int : s >= 0 /\ Left' = Left + s
    <3>1. CASE responsePc' = "loop" \/ counter' # 0
      <4>1. Left' = Left
        BY <1>1, <2>1, <2>2, <3>1 DEF Left, CurrentCount
      <4> QED BY <1>1, <4>1
    <3>2. CASE responsePc' # "loop" /\ counter' = 0
      <4>1. Left' = 0 /\ Left = -1
        BY <1>1, <2>1, <2>2, <3>2 DEF Left, CurrentCount
      <4> QED BY <4>1
    <3> QED BY <3>1, <3>2
  <2>4. ASSUME NEW i \in 1..Len(queue)
        PROVE  \/ /\ remaining[queue[i].id] >= 0
                  /\ remaining[queue[i].id] <= remaining[queue[i].id] + s
               \/ remaining[queue[i].id] < 0
    <3>1. queue[i] \in ItemSet
      BY <1>0, ElementOfSeq
    <3>2. remaining[queue[i].id] \in Int
      BY <1>0, <3>1 DEF ItemSet
    <3>3. \A a, b \in Int : b >= 0 => (a >= 0 /\ a <= a + b) \/ a < 0
      OBVIOUS
    <3> QED BY <2>3, <3>2, <3>3
  <2>5. \E e : DueRow(queue, Left + s, remaining, e)
    BY <1>0, <1>1, <1>2, <2>4, RowMoved
  <2>6. CountsInv'
    BY <1>0, <2>1, <2>3, <2>5 DEF CountsInv, ScanDue
  <2> QED BY <2>1, <2>6
<1> QED BY <1>4, <1>5, <1>6 DEF Respond

\* A clock brings every answer nearer by at most what it brings the deadline nearer.
LEMMA TickCounts ==
  ASSUME QueueInv, CountsInv, TypeOK', Tick
  PROVE  CountsInv'
<1>0. /\ queue \in Seq(ItemSet) /\ remaining \in [Requests -> Int] /\ counter \in Int
      /\ remaining' \in [Requests -> Int] /\ queue' = queue /\ Left \in Int
      /\ driverPc' # "scan" /\ responsePc = "wait" /\ responsePc' = "wait"
      /\ counter' = IF counter # 0 THEN counter - 1 ELSE counter
      /\ Ids(queue) = waiting
  <2>1. driverPc = "get" /\ responsePc = "wait"
    BY DEF Tick, Quiescent
  <2> QED BY <2>1, LeftIs DEF Tick, scanVars, responseVars, QueueInv, TypeOK, Placed, Scanned
<1>1. PICK d : DueRow(queue, Left, remaining, d)
  BY DEF CountsInv
<1>2. PICK s \in Int : s >= -1 /\ Left' = Left + s
  <2>1. CASE counter \in {0, 1}
    <3>1. Left = 0 /\ Left' = 0
      BY <1>0, <2>1 DEF Left, CurrentCount
    <3> QED BY <3>1
  <2>2. CASE counter \notin {0, 1}
    <3>1. Left = counter - 1 /\ Left' = (counter - 1) - 1
      BY <1>0, <2>2 DEF Left, CurrentCount
    <3>2. Left' = Left + (-1)
      BY <1>0, <3>1
    <3> QED BY <3>2
  <2> QED BY <2>1, <2>2
<1>3. ASSUME NEW i \in 1..Len(queue)
      PROVE  \/ /\ remaining[queue[i].id] >= 0
                /\ remaining'[queue[i].id] <= remaining[queue[i].id] + s
             \/ remaining'[queue[i].id] < 0
  <2>1. queue[i] \in ItemSet /\ queue[i].id \in waiting
    BY <1>0, ElementOfSeq DEF Ids
  <2>2. PICK r \in Requests : r = queue[i].id
    BY <2>1 DEF ItemSet
  <2>3. remaining'[r] = IF remaining[r] >= 0 THEN remaining[r] - 1 ELSE remaining[r]
    BY <2>1, <2>2 DEF Tick
  <2>4. remaining[r] \in Int
    BY <1>0
  <2>5. \A a, b \in Int : b >= -1 => a - 1 <= a + b
    OBVIOUS
  <2>6. CASE remaining[r] >= 0
    BY <1>2, <2>2, <2>3, <2>4, <2>5, <2>6
  <2>7. CASE remaining[r] < 0
    BY <2>2, <2>3, <2>4, <2>7
  <2> QED BY <2>4, <2>6, <2>7
<1>4. \E e : DueRow(queue, Left + s, remaining', e)
  BY <1>0, <1>1, <1>3, RowMoved
<1> QED BY <1>0, <1>2, <1>4 DEF CountsInv, ScanDue

LEMMA CountsInductive ==
  ASSUME QueueInv, CountsInv, [Next]_vars, TypeOK', QueueInv', ConstantsAssumption
  PROVE  CountsInv' /\ \A r \in waiting : r \notin waiting' => remaining[r] <= 0
<1>1. ASSUME UNCHANGED <<queue, counter, responsePc, remaining,
                         driverPc, item, index, total, waiting>>
      PROVE  CountsInv' /\ \A r \in waiting : r \notin waiting' => remaining[r] <= 0
  BY <1>1 DEF CountsInv, ScanDue, Left, CurrentCount
<1>2. ASSUME NEW p \in Periods, NEW d \in ResetDelays, NEW run \in BOOLEAN,
             StartClock(p, d, run)
      PROVE  UNCHANGED <<queue, counter, responsePc, remaining,
                         driverPc, item, index, total, waiting>>
  BY <1>2 DEF StartClock, scanVars, responseVars, sequenceVars
<1>3. ASSUME NEW r \in Requests, NEW n \in 1..MaxCount, QueueRequest(r, n)
      PROVE  CountsInv' /\ waiting \subseteq waiting'
  <2>1. waiting \subseteq waiting'
    BY <1>3 DEF QueueRequest, QueueFirst, QueueShorter, QueueEqual, QueueLonger, Ask
  <2> QED BY <1>3, <2>1, RequestCounts
<1>4. CASE Scan
  <2>1. waiting' = waiting
    BY <1>4 DEF Scan, ScanInsert, ScanNext, ScanLast, EndScan, sequenceVars
  <2> QED BY <1>4, <2>1, ScanCounts
<1>5. CASE Respond
  BY <1>5, RespondCounts
<1>6. CASE Tick
  <2>1. waiting' = waiting
    BY <1>6 DEF Tick
  <2> QED BY <1>6, <2>1, TickCounts
<1>7. CASE EndOfTest
  BY <1>1, <1>7 DEF EndOfTest, ifVars, scanVars, responseVars, sequenceVars
<1>8. CASE UNCHANGED vars
  BY <1>1, <1>8 DEF vars, ifVars, scanVars, responseVars, sequenceVars
<1> QED BY <1>1, <1>2, <1>3, <1>4, <1>5, <1>6, <1>7, <1>8 DEF Next

\* In every usage, with equal deadlines and with requests taken while the event is
\* pending, no sequence is answered before the clocks it asked for have passed
\* (clock_and_reset_driver.sv:66-72, 97-152, 170-193).
THEOREM CountsNeverShort == Spec => NeverEarly
<1>1. Init => CountsInv
  <2> SUFFICES ASSUME Init PROVE CountsInv
    OBVIOUS
  <2>1. queue = <<>> /\ driverPc # "scan"
    BY DEF Init
  <2> QED BY <2>1, CountsEmpty
<1>2. TypeOK' /\ QueueInv /\ QueueInv' /\ CountsInv /\ [Next]_vars => CountsInv'
  BY CountsInductive, ConstantsAssumption
<1>3. /\ TypeOK' /\ QueueInv /\ QueueInv' /\ CountsInv /\ [Next]_vars
      => [\A r \in waiting : r \notin waiting' => remaining[r] <= 0]_vars
  BY CountsInductive, ConstantsAssumption
<1> QED BY <1>1, <1>2, <1>3, TypeCorrect, QueueInvariant, PTL DEF Spec, NeverEarly
=============================================================================
