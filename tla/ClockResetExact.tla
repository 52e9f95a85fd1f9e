--------------------------- MODULE ClockResetExact --------------------------
(***************************************************************************)
(* While no two outstanding requests share a deadline and none is taken    *)
(* between the event and its response, the delta queue of ClockReset       *)
(* stands for the true deadlines, and the driver implements CountService.  *)
(***************************************************************************)
EXTENDS ClockResetProofs

\* The inductive invariant, and the usage it needs.
IInv == TypeOK /\ QueueEncodesDeadlines

Usage == ~AllowTies /\ ~AllowRace

-----------------------------------------------------------------------------
\* What the invariant says of an item of the queue.
LEMMA ItemFacts ==
  ASSUME IInv, NEW i \in 1..Len(queue)
  PROVE  /\ queue[i] \in ItemSet /\ queue[i].id \in Requests /\ queue[i].id \in waiting
         /\ queue[i].count \in Int /\ queue[i].count > 0
         /\ remaining[queue[i].id] \in Int /\ remaining[queue[i].id] >= 0
         /\ Len(queue) \in Nat /\ 1 \in 1..Len(queue) /\ queue # <<>>
<1>1. queue[i] \in ItemSet /\ Len(queue) \in Nat
  BY ElementOfSeq DEF IInv, TypeOK
<1>2. queue[i].id \in Requests /\ queue[i].count \in Int
  BY <1>1 DEF ItemSet
<1>3. queue[i].id \in Ids(queue)
  BY DEF Ids
<1>4. queue[i].id \in waiting
  BY <1>3 DEF IInv, QueueEncodesDeadlines
<1>5. queue[i].count > 0
  BY DEF IInv, QueueEncodesDeadlines, DeltasEncoded
<1>6. remaining[queue[i].id] \in Int /\ remaining[queue[i].id] >= 0
  BY <1>2, <1>4 DEF IInv, QueueEncodesDeadlines, TypeOK
<1>7. 1 \in 1..Len(queue) /\ queue # <<>>
  BY <1>1
<1> QED BY <1>1, <1>2, <1>4, <1>5, <1>6, <1>7

\* The head is due first: as much time is left for the others at least.
LEMMA HeadFirst ==
  ASSUME IInv, NEW i \in 1..Len(queue)
  PROVE  remaining[queue[i].id] >= remaining[queue[1].id]
<1>1. CASE i = 1
  BY <1>1, ItemFacts
<1>2. CASE i # 1
  <2>1. 1 \in 1..Len(queue) /\ 1 < i /\ remaining[queue[i].id] \in Int
        /\ remaining[queue[1].id] \in Int
    BY <1>2, ItemFacts
  <2>2. remaining[queue[1].id] < remaining[queue[i].id]
    BY <2>1 DEF IInv, QueueEncodesDeadlines, DeltasEncoded
  <2> QED BY <2>1, <2>2
<1> QED BY <1>1, <1>2

\* With nobody in a zero-time loop and no event pending, get_current_cycle_count
\* returns the time left of the head, which is not 0.
LEMMA CurrentIsHead ==
  ASSUME IInv, Quiescent, ~reached, queue # <<>>
  PROVE  /\ 1 \in 1..Len(queue)
         /\ CurrentCount = remaining[queue[1].id] /\ CurrentCount > 0
         /\ counter = remaining[queue[1].id] + 1
<1>1. 1 \in 1..Len(queue)
  BY EmptySeq DEF IInv, TypeOK
<1>2. counter = remaining[queue[1].id] + 1 /\ counter # 1
  BY DEF IInv, QueueEncodesDeadlines, CounterEncodesHead, ReachedAtDeadline, Quiescent
<1>3. remaining[queue[1].id] \in Int /\ remaining[queue[1].id] >= 0
  BY <1>1, ItemFacts
<1> QED BY <1>1, <1>2, <1>3 DEF CurrentCount

-----------------------------------------------------------------------------
\* A clock takes one from the time left of everybody and from the counter.
LEMMA TickExact ==
  ASSUME IInv, Tick, TypeOK'
  PROVE  QueueEncodesDeadlines'
<1>1. /\ queue' = queue /\ responsePc' = responsePc /\ driverPc' = driverPc /\ item' = item
      /\ waiting' = waiting /\ lastCount' = lastCount /\ index' = index /\ total' = total
      /\ responsePc = "wait" /\ driverPc = "get" /\ Quiescent /\ ~reached
  BY DEF Tick, scanVars, responseVars, Quiescent
<1>2. ASSUME NEW i \in 1..Len(queue)
      PROVE  /\ remaining'[queue[i].id] = remaining[queue[i].id] - 1
             /\ remaining[queue[i].id] > 0 /\ remaining[queue[i].id] \in Int
  <2>1. remaining[queue[1].id] > 0 /\ remaining[queue[1].id] \in Int
    BY <1>1, CurrentIsHead, ItemFacts
  <2>2. remaining[queue[i].id] > 0 /\ remaining[queue[i].id] \in Int
    BY <2>1, HeadFirst, ItemFacts
  <2> QED BY <2>2, ItemFacts DEF Tick
<1>3. CounterEncodesHead'
  <2>1. CASE queue = <<>>
    BY <1>1, <2>1 DEF CounterEncodesHead, IInv, QueueEncodesDeadlines, Tick
  <2>2. CASE queue # <<>>
    <3>1. counter = remaining[queue[1].id] + 1 /\ 1 \in 1..Len(queue)
      BY <1>1, <2>2, CurrentIsHead
    <3>2. counter' = counter - 1
      BY <3>1, <1>2 DEF Tick
    <3> QED BY <1>1, <1>2, <2>2, <3>1, <3>2 DEF CounterEncodesHead
  <2> QED BY <2>1, <2>2
<1>4. DeltasEncoded'
  <2>1. \A i \in 1..Len(queue) : queue[i].count > 0
    BY ItemFacts
  <2>2. ASSUME NEW i \in 2..Len(queue)
        PROVE  queue[i].count = remaining'[queue[i].id] - remaining'[queue[i-1].id]
    <3>1. i \in 1..Len(queue) /\ i-1 \in 1..Len(queue)
      BY DEF IInv, TypeOK
    <3>2. queue[i].count = remaining[queue[i].id] - remaining[queue[i-1].id]
      BY DEF IInv, QueueEncodesDeadlines, DeltasEncoded
    <3>3. /\ remaining'[queue[i].id] = remaining[queue[i].id] - 1
          /\ remaining'[queue[i-1].id] = remaining[queue[i-1].id] - 1
          /\ remaining[queue[i].id] \in Int /\ remaining[queue[i-1].id] \in Int
      BY <3>1, <1>2
    <3> QED BY <3>2, <3>3
  <2>3. ASSUME NEW i \in 1..Len(queue), NEW j \in 1..Len(queue), i < j
        PROVE  remaining'[queue[i].id] < remaining'[queue[j].id]
    <3>1. remaining[queue[i].id] < remaining[queue[j].id]
      BY <2>3 DEF IInv, QueueEncodesDeadlines, DeltasEncoded
    <3> QED BY <3>1, <1>2
  <2> QED BY <2>1, <2>2, <2>3, <1>1 DEF DeltasEncoded
<1>5. ScanEncoded'
  BY <1>1 DEF ScanEncoded
<1>6. ReachedAtDeadline'
  <2>1. reached' <=> counter' = 1
    BY DEF Tick
  <2>2. queue = <<>> => counter' # 1
    BY <1>1 DEF Tick, IInv, QueueEncodesDeadlines, CounterEncodesHead
  <2> QED BY <1>1, <2>1, <2>2 DEF ReachedAtDeadline
<1>7. (Ids(queue) \cup Scanned = waiting)'
  BY <1>1 DEF Ids, Scanned, IInv, QueueEncodesDeadlines
<1>8. \A r \in waiting' : remaining'[r] >= 0
  <2>1. waiting = Ids(queue)
    BY <1>1 DEF IInv, QueueEncodesDeadlines, Scanned
  <2> QED BY <2>1, <1>1, <1>2 DEF Ids
<1> QED BY <1>1, <1>3, <1>4, <1>5, <1>6, <1>7, <1>8 DEF QueueEncodesDeadlines

-----------------------------------------------------------------------------
\* What taking a request leaves of the history variables.
LEMMA AskFacts ==
  ASSUME IInv, Usage, ConstantsAssumption,
         NEW r \in Requests, NEW n \in 1..MaxCount, Ask(r, n)
  PROVE  /\ n \in Nat \ {0} /\ Quiescent /\ driverPc = "get" /\ responsePc = "wait"
         /\ ~reached /\ reached' = reached /\ responsePc' = responsePc
         /\ waiting = Ids(queue) /\ waiting' = waiting \cup {r} /\ r \notin waiting
         /\ remaining'[r] = n
         /\ \A i \in 1..Len(queue) : /\ remaining'[queue[i].id] = remaining[queue[i].id]
                                     /\ remaining[queue[i].id] # n
                                     /\ queue[i].id # r
         /\ \A s \in waiting' : remaining'[s] >= 0
<1>1. /\ n \in Nat \ {0} /\ Quiescent /\ driverPc = "get" /\ responsePc = "wait"
      /\ ~reached /\ reached' = reached /\ responsePc' = responsePc
      /\ waiting' = waiting \cup {r} /\ r \notin waiting
  BY DEF Ask, Quiescent, Usage, responseVars, ConstantsAssumption
<1>2. waiting = Ids(queue)
  BY <1>1 DEF IInv, QueueEncodesDeadlines, Scanned
<1>3. remaining' = [remaining EXCEPT ![r] = n] /\ remaining \in [Requests -> Int]
      /\ waiting \subseteq Requests
  BY DEF Ask, IInv, TypeOK
<1>4. \A i \in 1..Len(queue) : queue[i].id \in waiting
  BY ItemFacts
<1>5. \A s \in waiting : remaining[s] # n /\ remaining[s] >= 0
  BY DEF Ask, Usage, IInv, QueueEncodesDeadlines
<1> QED BY <1>1, <1>2, <1>3, <1>4, <1>5

\* The first request starts the counter with its own count.
LEMMA FirstExact ==
  ASSUME IInv, Usage, ConstantsAssumption, TypeOK',
         NEW r \in Requests, NEW n \in 1..MaxCount, QueueFirst(r, n)
  PROVE  QueueEncodesDeadlines'
<1>0. Ask(r, n)
  BY DEF QueueFirst
<1>1. /\ queue = <<>> /\ queue' = <<Item(r, n)>> /\ counter' = n + 1
      /\ driverPc' = driverPc
  BY DEF QueueFirst, CountFor, scanVars
<1>2. queue' # <<>> /\ Len(queue') = 1 /\ queue'[1] = Item(r, n)
  BY <1>1
<1>3. queue'[1].id = r /\ queue'[1].count = n
  BY <1>2 DEF Item
<1>4. waiting' = {r}
  BY <1>0, <1>1, AskFacts DEF Ids
<1>5. Ids(queue)' = {r}
  BY <1>2, <1>3 DEF Ids
<1>6. CounterEncodesHead'
  BY <1>0, <1>1, <1>2, <1>3, AskFacts DEF CounterEncodesHead
<1>7. DeltasEncoded'
  BY <1>0, <1>2, <1>3, AskFacts DEF DeltasEncoded
<1>8. ScanEncoded' /\ Scanned' = {}
  BY <1>0, <1>1, AskFacts DEF ScanEncoded, Scanned
<1>9. ReachedAtDeadline'
  BY <1>0, <1>1, AskFacts DEF ReachedAtDeadline
<1> QED BY <1>0, <1>1, <1>4, <1>5, <1>6, <1>7, <1>8, <1>9, AskFacts DEF QueueEncodesDeadlines

\* A request due before the head takes its place, and the counter.
LEMMA ShorterExact ==
  ASSUME IInv, Usage, ConstantsAssumption, TypeOK',
         NEW r \in Requests, NEW n \in 1..MaxCount, QueueShorter(r, n)
  PROVE  QueueEncodesDeadlines'
<1> DEFINE c == CurrentCount
           p == [queue EXCEPT ![1].count = c - n]
           L == Len(queue)
<1>0. Ask(r, n)
  BY DEF QueueShorter
<1>1. /\ queue # <<>> /\ n < c /\ queue' = Cons(Item(r, n), p)
      /\ counter' = n + 1 /\ driverPc' = driverPc
  BY DEF QueueShorter, CountFor, scanVars
<1>2. /\ 1 \in 1..L /\ L \in Nat /\ c = remaining[queue[1].id] /\ c \in Int /\ n \in Int
  BY <1>0, <1>1, AskFacts, CurrentIsHead, ItemFacts
<1>3. /\ p \in Seq(ItemSet) /\ Len(p) = L
      /\ \A i \in 1..L : p[i] = IF i = 1 THEN Item(queue[1].id, c - n) ELSE queue[i]
  <2>1. c - n \in Int
    BY <1>2
  <2>2. queue \in Seq(ItemSet)
    BY DEF IInv, TypeOK
  <2> QED BY <2>1, <2>2, <1>2, CountWritten
<1>4. Item(r, n) \in ItemSet
  BY <1>2 DEF Item, ItemSet
<1>5. /\ Len(queue') = L + 1
      /\ \A i \in 1..L+1 : queue'[i] = IF i = 1 THEN Item(r, n) ELSE p[i-1]
  <2> HIDE DEF p
  <2>1. /\ Len(Cons(Item(r, n), p)) = Len(p) + 1
        /\ \A i \in 1..Len(p) + 1 :
             Cons(Item(r, n), p)[i] = IF i = 1 THEN Item(r, n) ELSE p[i-1]
    BY <1>3, <1>4, PushFront
  <2> QED BY <1>1, <1>3, <2>1
<1> HIDE DEF p, c
<1>6. queue'[1].id = r /\ queue'[1].count = n /\ queue' # <<>>
  BY <1>2, <1>5 DEF Item
<1>7. queue'[2].id = queue[1].id /\ queue'[2].count = c - n
  BY <1>2, <1>3, <1>5 DEF Item
<1>8. \A i \in 3..L+1 : queue'[i] = queue[i-1]
  BY <1>2, <1>3, <1>5
<1>9. \A i \in 2..L+1 : queue'[i].id = queue[i-1].id /\ i-1 \in 1..L
  BY <1>2, <1>7, <1>8
<1>10. CounterEncodesHead'
  BY <1>0, <1>1, <1>6, AskFacts DEF CounterEncodesHead
<1>11. DeltasEncoded'
  <2>1. \A i \in 1..L+1 : queue'[i].count > 0
    BY <1>0, <1>1, <1>2, <1>6, <1>7, <1>8, AskFacts, ItemFacts
  <2>2. ASSUME NEW i \in 2..L+1
        PROVE  queue'[i].count = remaining'[queue'[i].id] - remaining'[queue'[i-1].id]
    <3>1. CASE i = 2
      BY <3>1, <1>0, <1>2, <1>6, <1>7, AskFacts
    <3>2. CASE i # 2
      <4>1. i-1 \in 2..L /\ i-1 \in 1..L /\ i-2 \in 1..L /\ i-1 \in 2..L+1 /\ (i-1)-1 = i-2
        BY <3>2, <1>2
      <4>2. queue[i-1].count = remaining[queue[i-1].id] - remaining[queue[i-2].id]
        BY <4>1 DEF IInv, QueueEncodesDeadlines, DeltasEncoded
      <4>3. queue'[i].count = queue[i-1].count /\ queue'[i].id = queue[i-1].id
            /\ queue'[i-1].id = queue[i-2].id
        BY <3>2, <4>1, <1>8, <1>9
      <4> QED BY <1>0, <4>1, <4>2, <4>3, AskFacts
    <3> QED BY <3>1, <3>2
  <2>3. ASSUME NEW i \in 1..L+1, NEW j \in 1..L+1, i < j
        PROVE  remaining'[queue'[i].id] < remaining'[queue'[j].id]
    <3>1. j-1 \in 1..L /\ queue'[j].id = queue[j-1].id
      BY <2>3, <1>2, <1>9
    <3>2. remaining'[queue'[j].id] = remaining[queue[j-1].id]
      BY <1>0, <3>1, AskFacts
    <3>3. CASE i = 1
      <4>1. remaining[queue[j-1].id] >= c /\ remaining[queue[j-1].id] \in Int
        BY <1>2, <3>1, HeadFirst, ItemFacts
      <4> QED BY <1>0, <1>1, <1>2, <1>6, <3>2, <3>3, <4>1, AskFacts
    <3>4. CASE i # 1
      <4>1. i-1 \in 1..L /\ i-1 < j-1 /\ queue'[i].id = queue[i-1].id
        BY <2>3, <3>4, <1>2, <1>9
      <4>2. remaining[queue[i-1].id] < remaining[queue[j-1].id]
        BY <3>1, <4>1 DEF IInv, QueueEncodesDeadlines, DeltasEncoded
      <4> QED BY <1>0, <3>2, <4>1, <4>2, AskFacts
    <3> QED BY <3>3, <3>4
  <2> QED BY <1>5, <2>1, <2>2, <2>3 DEF DeltasEncoded
<1>12. ScanEncoded' /\ Scanned' = {}
  BY <1>0, <1>1, AskFacts DEF ScanEncoded, Scanned
<1>13. ReachedAtDeadline'
  BY <1>0, <1>1, AskFacts DEF ReachedAtDeadline
<1>14. Ids(queue)' = waiting'
  <2>1. Ids(queue)' = {r} \cup Ids(queue)
    <3>1. \A i \in 1..L : i+1 \in 2..L+1 /\ queue'[i+1].id = queue[i].id
      BY <1>2, <1>9
    <3>2. \A i \in 1..L+1 : i = 1 \/ i \in 2..L+1
      BY <1>2
    <3>3. Ids(queue)' = {queue'[i].id : i \in 1..L+1}
      BY <1>5 DEF Ids
    <3>4. 1 \in 1..L+1 /\ \A i \in 2..L+1 : i \in 1..L+1
      BY <1>2
    <3>5. Ids(queue)' \subseteq {r} \cup Ids(queue)
      <4> SUFFICES ASSUME NEW x \in Ids(queue)'
                   PROVE  x = r \/ \E j \in 1..L : x = queue[j].id
        BY DEF Ids
      <4>1. PICK i \in 1..L+1 : x = queue'[i].id
        BY <3>3
      <4> QED BY <4>1, <1>6, <1>9, <3>2
    <3>6. {r} \cup Ids(queue) \subseteq Ids(queue)'
      BY <1>6, <3>1, <3>3, <3>4 DEF Ids
    <3> QED BY <3>5, <3>6
  <2> QED BY <2>1, <1>0, AskFacts
<1> QED BY <1>0, <1>10, <1>11, <1>12, <1>13, <1>14, AskFacts DEF QueueEncodesDeadlines

\* A request cannot be due with the head: no redundant item is queued.
LEMMA EqualNever ==
  ASSUME IInv, Usage, ConstantsAssumption, TypeOK',
         NEW r \in Requests, NEW n \in 1..MaxCount, QueueEqual(r, n)
  PROVE  FALSE
<1>1. Ask(r, n) /\ queue # <<>> /\ n = CurrentCount
  BY DEF QueueEqual
<1> QED BY <1>1, AskFacts, CurrentIsHead

\* A request due after the head refreshes the head and starts the for loop.
LEMMA LongerExact ==
  ASSUME IInv, Usage, ConstantsAssumption, TypeOK',
         NEW r \in Requests, NEW n \in 1..MaxCount, QueueLonger(r, n)
  PROVE  QueueEncodesDeadlines'
<1> DEFINE c == CurrentCount
           L == Len(queue)
<1>0. Ask(r, n)
  BY DEF QueueLonger
<1>1. /\ queue # <<>> /\ n > c /\ queue' = [queue EXCEPT ![1].count = c]
      /\ counter' = counter /\ driverPc' = "scan" /\ item' = Item(r, n)
      /\ index' = 1 /\ total' = 0
  BY DEF QueueLonger, HeadRefreshed
<1>2. /\ 1 \in 1..L /\ L \in Nat /\ c = remaining[queue[1].id] /\ c \in Int /\ c > 0 /\ n \in Int
      /\ counter = remaining[queue[1].id] + 1
  BY <1>0, <1>1, AskFacts, CurrentIsHead, ItemFacts
<1>3. /\ Len(queue') = L
      /\ \A i \in 1..L : queue'[i] = IF i = 1 THEN Item(queue[1].id, c) ELSE queue[i]
  <2>1. queue \in Seq(ItemSet)
    BY DEF IInv, TypeOK
  <2> QED BY <2>1, <1>1, <1>2, CountWritten
<1> HIDE DEF c
<1>4. /\ queue' # <<>> /\ queue'[1].count = c /\ item'.id = r /\ item'.count = n
      /\ \A i \in 1..L : queue'[i].id = queue[i].id
      /\ \A i \in 2..L : i \in 1..L /\ i-1 \in 1..L /\ queue'[i].count = queue[i].count
  BY <1>1, <1>2, <1>3 DEF Item
<1>5. CounterEncodesHead'
  BY <1>0, <1>1, <1>2, <1>4, AskFacts DEF CounterEncodesHead
<1>6. DeltasEncoded'
  <2>1. \A i \in 1..L : queue'[i].count > 0
    BY <1>2, <1>4, ItemFacts
  <2>2. ASSUME NEW i \in 2..L
        PROVE  queue'[i].count = remaining'[queue'[i].id] - remaining'[queue'[i-1].id]
    <3>1. queue[i].count = remaining[queue[i].id] - remaining[queue[i-1].id]
      BY DEF IInv, QueueEncodesDeadlines, DeltasEncoded
    <3> QED BY <1>0, <1>4, <3>1, AskFacts
  <2>3. ASSUME NEW i \in 1..L, NEW j \in 1..L, i < j
        PROVE  remaining'[queue'[i].id] < remaining'[queue'[j].id]
    <3>1. remaining[queue[i].id] < remaining[queue[j].id]
      BY <2>3 DEF IInv, QueueEncodesDeadlines, DeltasEncoded
    <3> QED BY <1>0, <1>4, <3>1, AskFacts
  <2> QED BY <1>3, <2>1, <2>2, <2>3 DEF DeltasEncoded
<1>7. Ids(queue)' = Ids(queue)
  BY <1>3, <1>4 DEF Ids
<1>8. ScanEncoded'
  <2>1. item'.id \in waiting' \ Ids(queue)'
    BY <1>0, <1>4, <1>7, AskFacts
  <2>2. remaining'[queue'[1].id] = c
    BY <1>0, <1>2, <1>4, AskFacts
  <2>3. \A i \in 1..L : remaining'[queue'[i].id] # item'.count
    BY <1>0, <1>4, AskFacts
  <2>4. item'.count = remaining'[item'.id] /\ 0 < item'.count /\ c < item'.count
    BY <1>0, <1>1, <1>2, <1>4, AskFacts
  <2> QED BY <1>1, <1>3, <1>4, <2>1, <2>2, <2>3, <2>4 DEF ScanEncoded
<1>9. ReachedAtDeadline'
  BY <1>0, <1>1, <1>2, AskFacts DEF ReachedAtDeadline
<1>10. Scanned' = {r}
  BY <1>1, <1>4 DEF Scanned
<1> QED BY <1>0, <1>5, <1>6, <1>7, <1>8, <1>9, <1>10, AskFacts DEF QueueEncodesDeadlines

-----------------------------------------------------------------------------
\* What the invariant says in an iteration of the for loop.
LEMMA ScanFacts ==
  ASSUME IInv, Scan
  PROVE  /\ driverPc = "scan" /\ responsePc = "wait"
         /\ Len(queue) \in Nat /\ index \in 1..Len(queue) /\ 1 \in 1..Len(queue) /\ queue # <<>>
         /\ item \in ItemSet /\ item.id \in Requests /\ item.count \in Nat /\ total \in Nat
         /\ item.id \notin Ids(queue) /\ waiting = Ids(queue) \cup {item.id}
         /\ item.count = remaining[item.id]
         /\ total < item.count /\ remaining[queue[1].id] < item.count
         /\ total + queue[index].count = remaining[queue[index].id]
         /\ index # 1 => index-1 \in 1..Len(queue) /\ total = remaining[queue[index-1].id]
         /\ \A i \in 1..Len(queue) : remaining[queue[i].id] # item.count
<1>1. driverPc = "scan" /\ responsePc = "wait"
  BY DEF Scan, ScanInsert, ScanNext, ScanLast, Scanning
<1>2. index \in 1..Len(queue) /\ item \in ItemSet /\ total \in Int
  BY <1>1 DEF IInv, TypeOK
<1>3. Len(queue) \in Nat /\ 1 \in 1..Len(queue) /\ queue # <<>>
  BY <1>2, ItemFacts
<1>4. item.id \in Requests /\ item.count \in Int
  BY <1>2 DEF ItemSet
<1>5. /\ item.id \in waiting \ Ids(queue)
      /\ item.count = remaining[item.id]
      /\ queue[1].count = remaining[queue[1].id]
      /\ total = IF index = 1 THEN 0 ELSE remaining[queue[index-1].id]
      /\ total < item.count /\ remaining[queue[1].id] < item.count
      /\ \A i \in 1..Len(queue) : remaining[queue[i].id] # item.count
  BY <1>1 DEF IInv, QueueEncodesDeadlines, ScanEncoded
<1>6. waiting = Ids(queue) \cup {item.id}
  BY <1>1 DEF IInv, QueueEncodesDeadlines, Scanned
<1>7. index # 1 => index-1 \in 1..Len(queue) /\ index \in 2..Len(queue)
  BY <1>2, <1>3
<1>8. total \in Nat /\ item.count \in Nat
  BY <1>2, <1>4, <1>5, <1>7, ItemFacts
<1>9. total + queue[index].count = remaining[queue[index].id]
  <2>1. CASE index = 1
    BY <2>1, <1>2, <1>5, ItemFacts
  <2>2. CASE index # 1
    <3>1. queue[index].count = remaining[queue[index].id] - remaining[queue[index-1].id]
      BY <2>2, <1>7 DEF IInv, QueueEncodesDeadlines, DeltasEncoded
    <3> QED BY <2>2, <3>1, <1>2, <1>5, <1>7, ItemFacts
  <2> QED BY <2>1, <2>2
<1> QED BY <1>1, <1>2, <1>3, <1>4, <1>5, <1>6, <1>7, <1>8, <1>9

\* Going on to the next item keeps the running total behind the new deadline.
LEMMA ScanNextExact ==
  ASSUME IInv, ScanNext, TypeOK'
  PROVE  QueueEncodesDeadlines'
<1>0. Scan
  BY DEF Scan
<1>1. /\ UNCHANGED <<queue, driverPc, item, counter, reached, responsePc, lastCount, waiting, remaining>>
      /\ ~FitsBefore /\ index < Len(queue)
      /\ total' = total + queue[index].count /\ index' = index + 1
  BY DEF ScanNext, ifVars, responseVars, sequenceVars
<1>2. total' = remaining[queue[index].id] /\ total' < item.count
  BY <1>0, <1>1, ScanFacts, ItemFacts DEF FitsBefore
<1>3. index' # 1 /\ index'-1 = index
  BY <1>0, <1>1, ScanFacts
<1>4. ScanEncoded'
  BY <1>0, <1>1, <1>2, <1>3, ScanFacts DEF ScanEncoded, IInv, QueueEncodesDeadlines
<1> QED BY <1>1, <1>4
    DEF IInv, QueueEncodesDeadlines, CounterEncodesHead, DeltasEncoded, ReachedAtDeadline, Ids, Scanned

\* The item goes between the deadlines of its neighbours.
LEMMA ScanInsertExact ==
  ASSUME IInv, Scan, FitsBefore, InsertHere(item.count - total), EndScan, TypeOK'
  PROVE  QueueEncodesDeadlines'
<1> DEFINE L == Len(queue)
           k == index
           n == item.count - total
           c == queue[index].count - n
           p == [queue EXCEPT ![index].count = c]
           e == Item(item.id, n)
<1>0. /\ L \in Nat /\ k \in 1..L /\ n \in Nat /\ c \in Int /\ queue \in Seq(ItemSet)
      /\ n > 0 /\ c > 0 /\ k # 1 /\ k-1 \in 1..L
      /\ c = remaining[queue[k].id] - item.count
      /\ n = item.count - remaining[queue[k-1].id]
      /\ remaining[queue[k-1].id] < item.count /\ item.count < remaining[queue[k].id]
  <2>1. queue \in Seq(ItemSet)
    BY DEF IInv, TypeOK
  <2>2. item.count < remaining[queue[k].id] /\ item.count \in Nat /\ total \in Nat /\ total < item.count
        /\ L \in Nat /\ k \in 1..L /\ queue[k].count \in Int
    BY ScanFacts, ItemFacts DEF FitsBefore
  <2>3. k # 1
    BY <2>2, ScanFacts
  <2>4. /\ k-1 \in 1..L /\ total = remaining[queue[k-1].id]
        /\ total + queue[k].count = remaining[queue[k].id]
    BY <2>3, ScanFacts
  <2> QED BY <2>1, <2>2, <2>3, <2>4
<1>1. /\ UNCHANGED <<counter, reached, responsePc, lastCount, waiting, remaining>>
      /\ driverPc' = "get" /\ queue' = InsertAt(p, k, e)
  BY DEF EndScan, InsertHere, ifVars, responseVars, sequenceVars
<1>2. /\ p \in Seq(ItemSet) /\ Len(p) = L
      /\ \A i \in 1..L : p[i] = IF i = k THEN Item(queue[k].id, c) ELSE queue[i]
  <2> HIDE DEF c
  <2> QED BY <1>0, CountWritten
<1>3. e \in ItemSet
  BY <1>0, ScanFacts DEF Item, ItemSet
<1> HIDE DEF p, e, c, n
<1>4. /\ Len(queue') = L + 1
      /\ \A i \in 1..L+1 : queue'[i] = IF i < k THEN p[i] ELSE IF i = k THEN e ELSE p[i-1]
  <2>1. k \in 1..Len(p)
    BY <1>0, <1>2
  <2>2. /\ Len(InsertAt(p, k, e)) = Len(p) + 1
        /\ \A i \in 1..Len(p) + 1 : InsertAt(p, k, e)[i] =
             IF i < k THEN p[i] ELSE IF i = k THEN e ELSE p[i-1]
    BY <1>2, <1>3, <2>1, Inserted
  <2> QED BY <1>1, <1>2, <2>2
<1>5. /\ \A i \in 1..k-1 : i \in 1..L /\ queue'[i] = queue[i]
      /\ queue'[k].id = item.id /\ queue'[k].count = n
      /\ k+1 \in 1..L+1 /\ queue'[k+1].id = queue[k].id /\ queue'[k+1].count = c
      /\ \A i \in k+2..L+1 : i-1 \in 1..L /\ queue'[i] = queue[i-1]
  <2>1. ASSUME NEW i \in 1..k-1
        PROVE  i \in 1..L /\ queue'[i] = queue[i]
    <3>1. i \in 1..L /\ i \in 1..L+1 /\ i < k /\ i # k
      BY <1>0
    <3>2. queue'[i] = p[i]
      BY <3>1, <1>4
    <3> QED BY <3>1, <3>2, <1>2
  <2>2. queue'[k].id = item.id /\ queue'[k].count = n
    BY <1>0, <1>4 DEF e, Item
  <2>3. k+1 \in 1..L+1 /\ queue'[k+1].id = queue[k].id /\ queue'[k+1].count = c
    <3>1. k+1 \in 1..L+1 /\ ~(k+1 < k) /\ k+1 # k /\ (k+1)-1 = k
      BY <1>0
    <3>2. queue'[k+1] = p[k] /\ p[k] = Item(queue[k].id, c)
      BY <3>1, <1>0, <1>2, <1>4
    <3> QED BY <3>1, <3>2 DEF Item
  <2>4. ASSUME NEW i \in k+2..L+1
        PROVE  i-1 \in 1..L /\ queue'[i] = queue[i-1]
    <3>1. i-1 \in 1..L /\ i \in 1..L+1 /\ ~(i < k) /\ i # k /\ i-1 # k
      BY <1>0
    <3>2. queue'[i] = p[i-1]
      BY <3>1, <1>4
    <3> QED BY <3>1, <3>2, <1>2
  <2> QED BY <2>1, <2>2, <2>3, <2>4
<1>6. \A i \in k+1..L+1 : i-1 \in 1..L /\ queue'[i].id = queue[i-1].id
  BY <1>0, <1>5
<1>7. CounterEncodesHead'
  <2>1. queue'[1] = queue[1] /\ queue # <<>> /\ queue' # <<>>
    BY <1>0, <1>4, <1>5, ScanFacts
  <2> QED BY <1>1, <2>1 DEF IInv, QueueEncodesDeadlines, CounterEncodesHead
<1>8. DeltasEncoded'
  <2>1. \A i \in 1..L+1 : queue'[i].count > 0
    <3>1. ASSUME NEW i \in 1..L+1
          PROVE  i \in 1..k-1 \/ i = k \/ i = k+1 \/ i \in k+2..L+1
      BY <1>0
    <3>2. \A i \in 1..L : queue[i].count > 0
      BY ItemFacts
    <3> QED BY <1>0, <1>5, <3>1, <3>2
  <2>2. ASSUME NEW i \in 2..L+1
        PROVE  queue'[i].count = remaining[queue'[i].id] - remaining[queue'[i-1].id]
    <3>1. CASE i < k
      <4>1. i \in 1..k-1 /\ i-1 \in 1..k-1 /\ i \in 2..L
        BY <3>1, <1>0
      <4>2. queue[i].count = remaining[queue[i].id] - remaining[queue[i-1].id]
        BY <4>1 DEF IInv, QueueEncodesDeadlines, DeltasEncoded
      <4> QED BY <4>1, <4>2, <1>5
    <3>2. CASE i = k
      BY <3>2, <1>0, <1>5, ScanFacts DEF n
    <3>3. CASE i = k+1
      <4>1. i - 1 = k
        BY <3>3, <1>0
      <4> QED BY <4>1, <3>3, <1>0, <1>5, ScanFacts
    <3>4. CASE i > k+1
      <4>1. i \in k+2..L+1 /\ i-1 \in 2..L /\ i-1 \in k+1..L+1 /\ (i-1)-1 = i-2
        BY <3>4, <1>0
      <4>2. queue[i-1].count = remaining[queue[i-1].id] - remaining[queue[i-2].id]
        BY <4>1 DEF IInv, QueueEncodesDeadlines, DeltasEncoded
      <4>3. queue'[i-1].id = queue[i-2].id /\ queue'[i] = queue[i-1]
        BY <4>1, <1>5, <1>6
      <4> QED BY <4>2, <4>3
    <3> QED BY <3>1, <3>2, <3>3, <3>4, <1>0
  <2>3. ASSUME NEW i \in 1..L, NEW j \in 1..L, i < j
        PROVE  remaining[queue[i].id] < remaining[queue[j].id]
    BY <2>3 DEF IInv, QueueEncodesDeadlines, DeltasEncoded
  <2>4. ASSUME NEW i \in 1..k-1
        PROVE  remaining[queue[i].id] < item.count /\ i \in 1..L
    <3>1. i \in 1..L /\ (i = k-1 \/ i < k-1)
      BY <1>0
    <3>2. CASE i = k-1
      BY <3>1, <3>2, <1>0
    <3>3. CASE i < k-1
      <4>1. remaining[queue[i].id] < remaining[queue[k-1].id]
        BY <3>1, <3>3, <1>0, <2>3
      <4>2. /\ remaining[queue[i].id] \in Int /\ remaining[queue[k-1].id] \in Int
            /\ item.count \in Int
        BY <3>1, <1>0, ItemFacts, ScanFacts
      <4> QED BY <4>1, <4>2, <3>1, <1>0
    <3> QED BY <3>1, <3>2, <3>3
  <2>5. ASSUME NEW j \in k+1..L+1
        PROVE  item.count < remaining[queue[j-1].id] /\ j-1 \in 1..L
    <3>1. j-1 \in 1..L /\ (j-1 = k \/ k < j-1)
      BY <1>0
    <3>2. CASE j-1 = k
      BY <3>1, <3>2, <1>0
    <3>3. CASE k < j-1
      <4>1. remaining[queue[k].id] < remaining[queue[j-1].id]
        BY <3>1, <3>3, <1>0, <2>3
      <4>2. /\ remaining[queue[k].id] \in Int /\ remaining[queue[j-1].id] \in Int
            /\ item.count \in Int
        BY <3>1, <1>0, ItemFacts, ScanFacts
      <4> QED BY <4>1, <4>2, <3>1, <1>0
    <3> QED BY <3>1, <3>2, <3>3
  <2>6. ASSUME NEW i \in 1..L+1, NEW j \in 1..L+1, i < j
        PROVE  remaining[queue'[i].id] < remaining[queue'[j].id]
    <3>1. CASE j < k
      <4>1. i \in 1..k-1 /\ j \in 1..k-1
        BY <3>1, <2>6, <1>0
      <4> QED BY <4>1, <2>3, <2>6, <1>5
    <3>2. CASE j = k
      <4>1. i \in 1..k-1
        BY <3>2, <2>6, <1>0
      <4> QED BY <4>1, <3>2, <2>4, <1>5, ScanFacts
    <3>3. CASE j > k /\ i < k
      <4>1. j \in k+1..L+1 /\ i \in 1..k-1
        BY <3>3, <2>6, <1>0
      <4>2. /\ item.count < remaining[queue[j-1].id] /\ j-1 \in 1..L
            /\ remaining[queue[i].id] < item.count /\ i \in 1..L
        BY <4>1, <2>4, <2>5
      <4>3. remaining[queue[i].id] \in Int /\ remaining[queue[j-1].id] \in Int /\ item.count \in Int
        BY <4>2, ItemFacts, ScanFacts
      <4>4. remaining[queue[i].id] < remaining[queue[j-1].id]
        BY <4>2, <4>3
      <4>5. queue'[i].id = queue[i].id /\ queue'[j].id = queue[j-1].id
        BY <4>1, <1>5, <1>6
      <4> QED BY <4>4, <4>5
    <3>4. CASE j > k /\ i = k
      <4>1. j \in k+1..L+1
        BY <3>4, <2>6, <1>0
      <4>2. item.count < remaining[queue[j-1].id] /\ queue'[j].id = queue[j-1].id
        BY <4>1, <2>5, <1>6
      <4> QED BY <3>4, <4>2, <1>5, ScanFacts
    <3>5. CASE j > k /\ i > k
      <4>1. j \in k+1..L+1 /\ i \in k+1..L+1 /\ i-1 < j-1
        BY <3>5, <2>6, <1>0
      <4> QED BY <4>1, <1>6, <2>3
    <3> QED BY <3>1, <3>2, <3>3, <3>4, <3>5, <1>0
  <2> QED BY <1>1, <1>4, <2>1, <2>2, <2>6 DEF DeltasEncoded
<1>9. ScanEncoded' /\ Scanned' = {}
  BY <1>1 DEF ScanEncoded, Scanned
<1>10. ReachedAtDeadline'
  <2>1. queue # <<>> /\ queue' # <<>>
    BY <1>0, <1>4, ScanFacts
  <2> QED BY <1>1, <2>1 DEF IInv, QueueEncodesDeadlines, ReachedAtDeadline
<1>11. Ids(queue)' = waiting'
  <2>1. Ids(queue)' \subseteq Ids(queue) \cup {item.id}
    <3> SUFFICES ASSUME NEW x \in Ids(queue)'
                 PROVE  x = item.id \/ \E j \in 1..L : x = queue[j].id
      BY DEF Ids
    <3>1. PICK i \in 1..L+1 : x = queue'[i].id
      BY <1>4 DEF Ids
    <3>2. i \in 1..k-1 \/ i = k \/ i \in k+1..L+1
      BY <1>0
    <3> QED BY <3>1, <3>2, <1>5, <1>6
  <2>2. Ids(queue) \cup {item.id} \subseteq Ids(queue)'
    <3>1. item.id \in Ids(queue)'
      <4>1. k \in 1..L+1
        BY <1>0
      <4> QED BY <4>1, <1>4, <1>5 DEF Ids
    <3>2. ASSUME NEW i \in 1..L
          PROVE  queue[i].id \in Ids(queue)'
      <4>1. CASE i < k
        <5>1. i \in 1..k-1 /\ i \in 1..L+1
          BY <4>1, <1>0
        <5> QED BY <5>1, <1>4, <1>5 DEF Ids
      <4>2. CASE i >= k
        <5>1. i+1 \in k+1..L+1 /\ i+1 \in 1..L+1 /\ (i+1)-1 = i
          BY <4>2, <1>0
        <5>2. queue'[i+1].id = queue[i].id
          BY <5>1, <1>6
        <5> QED BY <5>1, <5>2, <1>4 DEF Ids
      <4> QED BY <4>1, <4>2, <1>0
    <3> QED BY <3>1, <3>2 DEF Ids
  <2> QED BY <2>1, <2>2, <1>1, ScanFacts
<1> QED BY <1>1, <1>7, <1>8, <1>9, <1>10, <1>11, ScanFacts DEF IInv, QueueEncodesDeadlines

\* An item due after everybody goes last, with the distance from the last deadline.
LEMMA ScanLastExact ==
  ASSUME IInv, ScanLast, TypeOK'
  PROVE  QueueEncodesDeadlines'
<1> DEFINE L == Len(queue)
           n == item.count - (total + queue[index].count)
           e == Item(item.id, n)
<1>0. Scan
  BY DEF Scan
<1>1. /\ UNCHANGED <<counter, reached, responsePc, lastCount, waiting, remaining>>
      /\ driverPc' = "get" /\ ~FitsBefore /\ index = L
  BY DEF ScanLast, EndScan, ifVars, responseVars, sequenceVars
<1>2. /\ L \in Nat /\ L \in 1..L /\ 1 \in 1..L /\ queue \in Seq(ItemSet) /\ queue # <<>>
      /\ n = item.count - remaining[queue[L].id] /\ n > 0 /\ n \in Int
      /\ remaining[queue[L].id] < item.count /\ ~(item.count < queue[L].count)
  <2>1. queue \in Seq(ItemSet)
    BY DEF IInv, TypeOK
  <2>2. /\ L \in Nat /\ L \in 1..L /\ 1 \in 1..L /\ queue # <<>> /\ queue[L].count \in Int
        /\ item.count \in Nat /\ total \in Nat /\ total + queue[L].count = remaining[queue[L].id]
        /\ remaining[queue[L].id] # item.count /\ total < item.count
    BY <1>0, <1>1, ScanFacts, ItemFacts
  <2>3. ~(item.count < total + queue[L].count)
    BY <1>1, <2>2 DEF FitsBefore
  <2> QED BY <1>1, <2>1, <2>2, <2>3
<1>3. queue' = Append(queue, e)
  BY <1>1, <1>2 DEF ScanLast
<1>4. e \in ItemSet
  BY <1>0, <1>2, ScanFacts DEF Item, ItemSet
<1>5. /\ Len(queue') = L+1 /\ queue' # <<>>
      /\ \A i \in 1..L : queue'[i] = queue[i]
      /\ queue'[L+1].id = item.id /\ queue'[L+1].count = n
  <2> HIDE DEF n
  <2>1. /\ Len(queue') = L+1 /\ queue'[L+1] = e /\ \A i \in 1..L : queue'[i] = queue[i]
    BY <1>2, <1>3, <1>4
  <2>2. queue' # <<>>
    BY <1>2, <2>1
  <2> QED BY <2>1, <2>2 DEF e, Item
<1> HIDE DEF n, e
<1>6. CounterEncodesHead'
  BY <1>1, <1>2, <1>5 DEF IInv, QueueEncodesDeadlines, CounterEncodesHead
<1>7. DeltasEncoded'
  <2>0. \A i \in 1..L+1 : i \in 1..L \/ i = L+1
    BY <1>2
  <2>1. \A i \in 1..L+1 : queue'[i].count > 0
    BY <1>2, <1>5, <2>0, ItemFacts
  <2>2. ASSUME NEW i \in 2..L+1
        PROVE  queue'[i].count = remaining[queue'[i].id] - remaining[queue'[i-1].id]
    <3>1. CASE i = L+1
      <4>1. i-1 = L
        BY <3>1, <1>2
      <4> QED BY <3>1, <4>1, <1>0, <1>2, <1>5, ScanFacts
    <3>2. CASE i # L+1
      <4>1. i \in 2..L /\ i \in 1..L /\ i-1 \in 1..L
        BY <3>2, <1>2
      <4>2. queue[i].count = remaining[queue[i].id] - remaining[queue[i-1].id]
        BY <4>1 DEF IInv, QueueEncodesDeadlines, DeltasEncoded
      <4> QED BY <4>1, <4>2, <1>5
    <3> QED BY <3>1, <3>2
  <2>3. ASSUME NEW i \in 1..L, NEW j \in 1..L, i < j
        PROVE  remaining[queue[i].id] < remaining[queue[j].id]
    BY <2>3 DEF IInv, QueueEncodesDeadlines, DeltasEncoded
  <2>4. ASSUME NEW i \in 1..L
        PROVE  remaining[queue[i].id] < item.count
    <3>1. CASE i = L
      BY <3>1, <1>2
    <3>2. CASE i # L
      <4>1. remaining[queue[i].id] < remaining[queue[L].id]
        BY <3>2, <1>2, <2>3
      <4>2. /\ remaining[queue[i].id] \in Int /\ remaining[queue[L].id] \in Int /\ item.count \in Int
        BY <1>0, <1>2, ItemFacts, ScanFacts
      <4> QED BY <4>1, <4>2, <1>2
    <3> QED BY <3>1, <3>2
  <2>5. ASSUME NEW i \in 1..L+1, NEW j \in 1..L+1, i < j
        PROVE  remaining[queue'[i].id] < remaining[queue'[j].id]
    <3>1. i \in 1..L
      BY <2>5, <1>2
    <3>2. CASE j = L+1
      BY <3>1, <3>2, <2>4, <1>0, <1>5, ScanFacts
    <3>3. CASE j \in 1..L
      BY <3>1, <3>3, <2>3, <2>5, <1>5
    <3> QED BY <3>2, <3>3, <2>0
  <2> QED BY <1>1, <1>5, <2>1, <2>2, <2>5 DEF DeltasEncoded
<1>8. ScanEncoded' /\ Scanned' = {}
  BY <1>1 DEF ScanEncoded, Scanned
<1>9. ReachedAtDeadline'
  BY <1>1, <1>2, <1>5 DEF IInv, QueueEncodesDeadlines, ReachedAtDeadline
<1>10. Ids(queue)' = waiting'
  <2>1. \A i \in 1..L+1 : i \in 1..L \/ i = L+1
    BY <1>2
  <2>2. L+1 \in 1..L+1 /\ \A i \in 1..L : i \in 1..L+1
    BY <1>2
  <2>3. Ids(queue)' \subseteq Ids(queue) \cup {item.id}
    BY <1>5, <2>1 DEF Ids
  <2>4. Ids(queue) \cup {item.id} \subseteq Ids(queue)'
    BY <1>5, <2>2 DEF Ids
  <2> QED BY <2>3, <2>4, <1>0, <1>1, ScanFacts
<1> QED BY <1>0, <1>1, <1>6, <1>7, <1>8, <1>9, <1>10, ScanFacts DEF IInv, QueueEncodesDeadlines

-----------------------------------------------------------------------------
\* The event finds the head due.
LEMMA WakeFacts ==
  ASSUME IInv, ResponseWake
  PROVE  /\ queue \in Seq(ItemSet) /\ queue # <<>> /\ Len(queue) \in Nat \ {0} /\ 1 \in 1..Len(queue)
         /\ counter = 1 /\ remaining[queue[1].id] = 0 /\ driverPc = "get" /\ responsePc = "wait"
         /\ waiting = Ids(queue) /\ waiting' = waiting \ {queue[1].id}
<1>1. /\ queue \in Seq(ItemSet) /\ queue # <<>> /\ driverPc = "get" /\ responsePc = "wait" /\ reached
  BY DEF ResponseWake, IInv, TypeOK, Quiescent
<1>2. Len(queue) \in Nat \ {0} /\ 1 \in 1..Len(queue) /\ Head(queue) = queue[1]
  BY <1>1, Popped
<1>3. counter = 1 /\ counter = remaining[queue[1].id] + 1
  BY <1>1 DEF IInv, QueueEncodesDeadlines, ReachedAtDeadline, CounterEncodesHead
<1>4. remaining[queue[1].id] = 0
  BY <1>2, <1>3, ItemFacts
<1>5. waiting = Ids(queue)
  BY <1>1 DEF IInv, QueueEncodesDeadlines, Scanned
<1> QED BY <1>1, <1>2, <1>3, <1>4, <1>5 DEF ResponseWake, PopHead

\* Answering the head leaves a queue that stands for the other deadlines.
LEMMA WakeExact ==
  ASSUME IInv, ResponseWake, TypeOK'
  PROVE  QueueEncodesDeadlines'
<1> DEFINE L == Len(queue)
<1>1. /\ counter' = counter /\ reached' = FALSE /\ driverPc' = driverPc
      /\ queue' = Tail(queue) /\ lastCount' = queue[1].count /\ remaining' = remaining
      /\ responsePc' = IF queue' # <<>> THEN "loop" ELSE "wait"
  BY WakeFacts, Popped DEF ResponseWake, PopHead, scanVars
<1>2. /\ L \in Nat \ {0} /\ Len(queue') = L-1
      /\ \A i \in 1..L-1 : queue'[i] = queue[i+1] /\ i+1 \in 1..L /\ i+1 \in 2..L
  BY <1>1, WakeFacts, Popped
<1>3. \A i, j \in 1..L : i < j => remaining[queue[i].id] < remaining[queue[j].id]
  BY DEF IInv, QueueEncodesDeadlines, DeltasEncoded
<1>4. \A i \in 2..L : /\ queue[i].count = remaining[queue[i].id] - remaining[queue[i-1].id]
                       /\ i \in 1..L /\ 1 < i
  BY <1>2 DEF IInv, QueueEncodesDeadlines, DeltasEncoded
<1>5. \A i \in 2..L : remaining[queue[i].id] > 0
  BY <1>2, <1>3, <1>4, WakeFacts
<1>6. queue' # <<>> => 2 \in 2..L /\ 1 \in 1..L-1
  <2>1. queue' # <<>> => L-1 # 0
    BY <1>1, <1>2, WakeFacts, Popped
  <2> QED BY <2>1, <1>2
<1>7. CounterEncodesHead'
  <2>1. CASE queue' = <<>>
    BY <1>1, <2>1, WakeFacts DEF CounterEncodesHead
  <2>2. CASE queue' # <<>>
    <3>1. queue'[1] = queue[2] /\ 2 \in 1..L /\ 2-1 = 1
      BY <2>2, <1>2, <1>6
    <3>2. queue[2].count = remaining[queue[2].id] - remaining[queue[1].id]
          /\ remaining[queue[2].id] \in Int
      BY <2>2, <3>1, <1>4, <1>6, ItemFacts
    <3>3. lastCount' # 0
      BY <1>1, WakeFacts, ItemFacts
    <3> QED BY <2>2, <3>1, <3>2, <3>3, <1>1, WakeFacts DEF CounterEncodesHead
  <2> QED BY <2>1, <2>2
<1>8. DeltasEncoded'
  <2>1. \A i \in 1..L-1 : queue'[i].count > 0
    BY <1>2, ItemFacts
  <2>2. ASSUME NEW i \in 2..L-1
        PROVE  queue'[i].count = remaining[queue'[i].id] - remaining[queue'[i-1].id]
    <3>1. i \in 1..L-1 /\ i-1 \in 1..L-1 /\ (i-1)+1 = i /\ i+1 \in 2..L /\ (i+1)-1 = i
      BY <1>2
    <3>2. queue'[i] = queue[i+1] /\ queue'[i-1] = queue[i]
      BY <3>1, <1>2
    <3> QED BY <3>1, <3>2, <1>4
  <2>3. ASSUME NEW i \in 1..L-1, NEW j \in 1..L-1, i < j
        PROVE  remaining[queue'[i].id] < remaining[queue'[j].id]
    BY <2>3, <1>2, <1>3
  <2> QED BY <1>1, <1>2, <2>1, <2>2, <2>3 DEF DeltasEncoded
<1>9. ScanEncoded' /\ Scanned' = {}
  BY <1>1, WakeFacts DEF ScanEncoded, Scanned
<1>10. ReachedAtDeadline'
  BY <1>1 DEF ReachedAtDeadline, CounterEncodesHead
<1>11. Ids(queue)' = waiting'
  <2>1. Ids(queue)' \subseteq waiting'
    <3> SUFFICES ASSUME NEW i \in 1..L-1 PROVE queue'[i].id \in waiting'
      BY <1>2 DEF Ids
    <3>1. queue'[i].id = queue[i+1].id /\ i+1 \in 2..L /\ i+1 \in 1..L
      BY <1>2
    <3>2. remaining[queue[i+1].id] # remaining[queue[1].id]
      BY <3>1, <1>5, WakeFacts
    <3>3. queue[i+1].id # queue[1].id
      BY <3>2
    <3> QED BY <3>1, <3>3, WakeFacts DEF Ids
  <2>2. waiting' \subseteq Ids(queue)'
    <3> SUFFICES ASSUME NEW i \in 1..L, queue[i].id # queue[1].id
                 PROVE  queue[i].id \in Ids(queue)'
      BY WakeFacts DEF Ids
    <3>1. i-1 \in 1..L-1 /\ (i-1)+1 = i
      BY <1>2
    <3> QED BY <3>1, <1>2 DEF Ids
  <2> QED BY <2>1, <2>2
<1>12. responsePc' = "loop" => remaining'[queue'[1].id] > 0
  BY <1>1, <1>2, <1>5, <1>6
<1>13. \A r \in waiting' : remaining'[r] >= 0
  BY <1>1, WakeFacts DEF IInv, QueueEncodesDeadlines
<1> QED BY <1>7, <1>8, <1>9, <1>10, <1>11, <1>12, <1>13 DEF QueueEncodesDeadlines

\* The do-while starts the counter with the new head's own count and is left.
LEMMA ScheduleExact ==
  ASSUME IInv, ResponseSchedule, TypeOK'
  PROVE  QueueEncodesDeadlines'
<1>1. /\ responsePc = "loop" /\ queue # <<>> /\ lastCount # 0 /\ driverPc # "scan"
      /\ queue[1].count = remaining[queue[1].id] /\ remaining[queue[1].id] > 0 /\ ~reached
      /\ Head(queue) = queue[1]
  <2>1. responsePc = "loop" /\ queue # <<>> /\ driverPc # "scan" /\ queue \in Seq(ItemSet)
    BY DEF ResponseSchedule, Looping, IInv, TypeOK
  <2> QED BY <2>1, Popped
      DEF IInv, QueueEncodesDeadlines, CounterEncodesHead, ReachedAtDeadline
<1>2. /\ UNCHANGED <<queue, driverPc, item, index, total, waiting, remaining, reached>>
      /\ counter' = queue[1].count + 1 /\ responsePc' = "wait"
  BY <1>1 DEF ResponseSchedule, CountFor, scanVars, sequenceVars
<1>3. counter' # 1
  <2>1. 1 \in 1..Len(queue)
    BY <1>1, EmptySeq DEF IInv, TypeOK
  <2> QED BY <1>1, <1>2, <2>1, ItemFacts
<1>4. CounterEncodesHead' /\ ReachedAtDeadline'
  BY <1>1, <1>2, <1>3 DEF CounterEncodesHead, ReachedAtDeadline
<1> QED BY <1>1, <1>2, <1>4
    DEF IInv, QueueEncodesDeadlines, DeltasEncoded, ScanEncoded, Ids, Scanned

\* No item is due together with the one just answered.
LEMMA DueNever ==
  ASSUME IInv, ResponseDue
  PROVE  FALSE
<1>1. queue # <<>> /\ queue \in Seq(ItemSet)
  BY DEF ResponseDue, Looping, IInv, TypeOK
<1>2. 1 \in 1..Len(queue) /\ Head(queue) = queue[1]
  BY <1>1, Popped
<1>3. queue[1].count > 0
  BY <1>2, ItemFacts
<1> QED BY <1>2, <1>3 DEF ResponseDue

-----------------------------------------------------------------------------
\* A step that touches neither queue nor counter nor deadlines keeps the encoding.
LEMMA EncodingUntouched ==
  ASSUME IInv, UNCHANGED <<counter, reached, queue, scanVars, responseVars, sequenceVars>>
  PROVE  QueueEncodesDeadlines'
BY DEF IInv, QueueEncodesDeadlines, CounterEncodesHead, DeltasEncoded, ScanEncoded,
       ReachedAtDeadline, Ids, Scanned, scanVars, responseVars, sequenceVars

\* With distinct deadlines and no request between event and response, the shared
\* counter and the relative counts always stand for the true deadlines, through
\* every insertion, expiry and rescheduling (clock_and_reset_driver.sv:97-193).
THEOREM QueueIsExact ==
  ASSUME Usage
  PROVE  Spec => []QueueEncodesDeadlines
<1>1. Init => IInv
  <2> SUFFICES ASSUME Init PROVE IInv
    OBVIOUS
  <2>1. TypeOK
    BY InitTypeOK
  <2>2. /\ queue = <<>> /\ Len(queue) = 0 /\ counter = 0 /\ ~reached /\ waiting = {}
        /\ driverPc = "get" /\ responsePc = "wait"
    BY DEF Init
  <2>3. Ids(queue) = {} /\ Scanned = {}
    BY <2>2 DEF Ids, Scanned
  <2>4. CounterEncodesHead /\ ScanEncoded /\ ReachedAtDeadline
    BY <2>2 DEF CounterEncodesHead, ScanEncoded, ReachedAtDeadline
  <2>5. DeltasEncoded
    BY <2>2 DEF DeltasEncoded
  <2> QED BY <2>1, <2>2, <2>3, <2>4, <2>5 DEF IInv, QueueEncodesDeadlines
<1>2. IInv /\ TypeOK' /\ [Next]_vars => IInv'
  <2> SUFFICES ASSUME IInv, TypeOK', [Next]_vars PROVE QueueEncodesDeadlines'
    BY DEF IInv
  <2>1. ASSUME NEW p \in Periods, NEW d \in ResetDelays, NEW run \in BOOLEAN,
               StartClock(p, d, run)
        PROVE  QueueEncodesDeadlines'
    BY <2>1, EncodingUntouched DEF StartClock
  <2>2. ASSUME NEW r \in Requests, NEW n \in 1..MaxCount, QueueRequest(r, n)
        PROVE  QueueEncodesDeadlines'
    BY <2>2, ConstantsAssumption, Usage, FirstExact, ShorterExact, EqualNever, LongerExact
    DEF QueueRequest
  <2>3. CASE Scan
    <3>1. CASE ScanInsert
      BY <2>3, <3>1, ScanInsertExact DEF ScanInsert
    <3> QED BY <2>3, <3>1, ScanNextExact, ScanLastExact DEF Scan
  <2>4. CASE Respond
    BY <2>4, WakeExact, ScheduleExact, DueNever DEF Respond
  <2>5. CASE Tick
    BY <2>5, TickExact
  <2>6. CASE EndOfTest
    BY <2>6, EncodingUntouched DEF EndOfTest, ifVars
  <2>7. CASE UNCHANGED vars
    BY <2>7, EncodingUntouched DEF vars, ifVars
  <2> QED BY <2>1, <2>2, <2>3, <2>4, <2>5, <2>6, <2>7 DEF Next
<1>3. IInv => QueueEncodesDeadlines
  BY DEF IInv
<1> QED BY <1>1, <1>2, <1>3, TypeCorrect, PTL DEF Spec

\* The driver with its delta queue implements CountService: every answer is given
\* in the clock cycle of its deadline, and no clock passes while one is due
\* (rule 1 of the comment, clock_and_reset_driver.sv:66-67).
THEOREM DriverImplementsService ==
  ASSUME Usage
  PROVE  Spec => ImplementsCountService
<1>1. Init => Service!Init
  BY DEF Init, Service!Init
<1>2. IInv /\ [Next]_vars => [Service!Next]_(Service!vars)
  <2> SUFFICES ASSUME IInv, [Next]_vars
               PROVE  Service!Next \/ UNCHANGED <<waiting, remaining>>
    BY DEF Service!vars
  <2>1. ASSUME NEW p \in Periods, NEW d \in ResetDelays, NEW run \in BOOLEAN,
               StartClock(p, d, run)
        PROVE  UNCHANGED <<waiting, remaining>>
    BY <2>1 DEF StartClock, sequenceVars
  <2>2. ASSUME NEW r \in Requests, NEW n \in 1..MaxCount, QueueRequest(r, n)
        PROVE  Service!Next
    <3>1. Ask(r, n)
      BY <2>2 DEF QueueRequest, QueueFirst, QueueShorter, QueueEqual, QueueLonger
    <3>2. Service!Ask(r, n)
      BY <3>1 DEF Ask, Service!Ask
    <3> QED BY <3>2 DEF Service!Next
  <2>3. CASE Scan
    BY <2>3 DEF Scan, ScanInsert, ScanNext, ScanLast, EndScan, sequenceVars
  <2>4. CASE Respond
    <3>1. CASE ResponseWake
      <4>1. /\ queue[1].id \in waiting /\ queue[1].id \in Requests /\ remaining[queue[1].id] = 0
            /\ waiting' = waiting \ {queue[1].id}
        BY <3>1, WakeFacts, ItemFacts
      <4>2. remaining' = remaining
        BY <3>1 DEF ResponseWake, PopHead
      <4>3. Service!Answer(queue[1].id)
        BY <4>1, <4>2 DEF Service!Answer
      <4> QED BY <4>1, <4>3 DEF Service!Next
    <3>2. CASE ResponseSchedule
      BY <3>2 DEF ResponseSchedule, sequenceVars
    <3> QED BY <2>4, <3>1, <3>2, DueNever DEF Respond
  <2>5. CASE Tick
    <3>1. Quiescent /\ ~reached /\ waiting' = waiting /\ driverPc = "get"
      BY <2>5 DEF Tick, Quiescent
    <3>2. waiting = Ids(queue)
      BY <3>1 DEF IInv, QueueEncodesDeadlines, Scanned
    <3>3. ASSUME NEW i \in 1..Len(queue)
          PROVE  remaining[queue[i].id] > 0
      <4>1. CurrentCount = remaining[queue[1].id] /\ CurrentCount > 0 /\ 1 \in 1..Len(queue)
        BY <3>1, CurrentIsHead, ItemFacts
      <4> QED BY <4>1, HeadFirst, ItemFacts
    <3>4. \A r \in waiting : remaining[r] > 0 /\ remaining[r] >= 0
      BY <3>2, <3>3 DEF Ids, IInv, QueueEncodesDeadlines
    <3>5. remaining' = [r \in Requests |->
                         IF r \in waiting THEN remaining[r] - 1 ELSE remaining[r]]
      BY <2>5, <3>4 DEF Tick
    <3>6. Service!Tick
      BY <3>1, <3>4, <3>5 DEF Service!Tick
    <3> QED BY <3>6 DEF Service!Next
  <2>6. CASE EndOfTest
    BY <2>6 DEF EndOfTest, sequenceVars
  <2>7. CASE UNCHANGED vars
    BY <2>7 DEF vars, sequenceVars
  <2> QED BY <2>1, <2>2, <2>3, <2>4, <2>5, <2>6, <2>7 DEF Next
<1>3. TypeOK /\ QueueEncodesDeadlines => IInv
  BY DEF IInv
<1> QED BY <1>1, <1>2, <1>3, TypeCorrect, QueueIsExact, PTL DEF Spec, ImplementsCountService, Service!Spec
=============================================================================
