----------------------------- MODULE ClockReset -----------------------------
(***************************************************************************)
(* The clock-and-reset UVC of Soc/clock_and_reset: the driver, its two     *)
(* processes (the request loop of run_phase and the response loop forked   *)
(* from it), and the interface that owns the one clock counter they share. *)
(*                                                                         *)
(* Outstanding counts are kept in a delta queue: the counter holds the     *)
(* clocks left for the head, and every later item holds the clocks from    *)
(* its predecessor's deadline to its own.  A simulator runs a process      *)
(* until it blocks, so a process in the middle of a zero-time loop         *)
(* (driverPc = "scan", responsePc = "loop") keeps the others, and time,    *)
(* from moving; between blocking points every order is possible.           *)
(***************************************************************************)
EXTENDS Integers, Sequences, SequencesExt, FiniteSets

CONSTANTS
  Requests,     \* the count-clocks sequences that share the driver
  MaxCount,     \* bound: longest count a sequence asks for
  MustHappen,   \* the requests whose item sets cycle_count_must_happen
  Periods,      \* clock periods asked for by the start-clock sequence
  ResetDelays,  \* reset delays asked for by the start-clock sequence
  MaxStarts,    \* bound: number of start-clock requests
  AllowTies,    \* whether two outstanding requests may share a deadline
  AllowRace     \* whether a request may be taken between event and response

ASSUME ConstantsAssumption ==
  /\ MaxCount \in Nat
  /\ MustHappen \subseteq Requests
  /\ Periods \subseteq Int
  /\ ResetDelays \subseteq Nat
  /\ MaxStarts \in Nat
  /\ AllowTies \in BOOLEAN /\ AllowRace \in BOOLEAN

VARIABLES
  \* clock_and_reset_if
  runClock,     \* run_clock: the generator produces edges
  resetDelay,   \* reset_delay
  reset,        \* the reset output, as an active flag
  counter,      \* clock_cycles_to_count
  reached,      \* clock_cycle_count_reached toggled and not yet seen
  \* clock_and_reset_driver
  queue,        \* count_clocks_request_queue: items [id, count]
  driverPc,     \* "get": blocked in seq_item_port.get; "scan": in the for loop
  item,         \* item_to_queue while the for loop looks for its place
  index, total, \* the for loop's index (from 1 here) and running total
  responsePc,   \* "wait": blocked on the event; "loop": in the do-while
  lastCount,    \* rsp_item_to_return.clock_cycles_to_count
  \* the sequences and the test
  waiting,      \* sequences blocked in get_response
  remaining,    \* history: clocks until each deadline, -1 once it has passed
  starts,       \* start-clock requests so far
  phase,        \* "run", "report" (test ended) or "fatal" (uvm_fatal)
  missed        \* must-happen counts report_phase found in the queue

ifVars       == <<runClock, resetDelay, reset, counter, reached>>
scanVars     == <<driverPc, item, index, total>>
responseVars == <<responsePc, lastCount>>
sequenceVars == <<waiting, remaining>>
testVars     == <<starts, phase, missed>>
vars == <<ifVars, queue, scanVars, responseVars, sequenceVars, testVars>>

Item(r, n) == [id |-> r, count |-> n]

NoItem == [count |-> 0]

Ids(q) == {q[i].id : i \in 1..Len(q)}

Init ==
  /\ runClock = FALSE /\ resetDelay = 0 /\ reset = FALSE
  /\ counter = 0 /\ reached = FALSE
  /\ queue = <<>>
  /\ driverPc = "get" /\ item = NoItem /\ index = 1 /\ total = 0
  /\ responsePc = "wait" /\ lastCount = 0
  /\ waiting = {} /\ remaining = [r \in Requests |-> 0]
  /\ starts = 0 /\ phase = "run" /\ missed = 0

\* No process is inside a zero-time loop.
Quiescent == phase = "run" /\ driverPc = "get" /\ responsePc = "wait"

-----------------------------------------------------------------------------
(* The interface's counter.                                                *)

\* Mutant of CountFor: the idle state and the last clock are confused.
CountForUnshifted(n) == n

\* count_clocks(n): the event fires when the counter has come down to 1.
CountFor(n) == n + 1

\* get_current_cycle_count
CurrentCount == IF counter # 0 THEN counter - 1 ELSE 0

\* Mutant of Tick: the reset delay is not counted down.
TickResetHeld ==
  /\ Quiescent /\ runClock /\ ~reached
  /\ reset' = (resetDelay > 0)
  /\ counter' = IF counter # 0 THEN counter - 1 ELSE counter
  /\ reached' = (counter' = 1)
  /\ remaining' = [r \in Requests |->
                     IF r \in waiting /\ remaining[r] >= 0
                       THEN remaining[r] - 1 ELSE remaining[r]]
  /\ UNCHANGED <<runClock, resetDelay, queue, scanVars, responseVars, waiting, testVars>>

\* A positive clock edge: both always blocks.  It happens only when every
\* process is blocked, so never between the event and the response loop.
Tick ==
  /\ Quiescent /\ runClock /\ ~reached
  /\ reset' = (resetDelay > 0)
  /\ resetDelay' = IF resetDelay > 0 THEN resetDelay - 1 ELSE resetDelay
  /\ counter' = IF counter # 0 THEN counter - 1 ELSE counter
  /\ reached' = (counter' = 1)
  /\ remaining' = [r \in Requests |->
                     IF r \in waiting /\ remaining[r] >= 0
                       THEN remaining[r] - 1 ELSE remaining[r]]
  /\ UNCHANGED <<runClock, queue, scanVars, responseVars, waiting, testVars>>

-----------------------------------------------------------------------------
(* The request loop of run_phase.                                          *)

\* An item without a count starts or stops the clock and arms the reset.
StartClock(period, delay, run) ==
  /\ Quiescent /\ starts < MaxStarts
  /\ starts' = starts + 1
  /\ \/ /\ period < 2
        /\ phase' = "fatal"
        /\ UNCHANGED <<runClock, resetDelay>>
     \/ /\ period >= 2
        /\ runClock' = run /\ resetDelay' = delay
        /\ UNCHANGED phase
  /\ UNCHANGED <<reset, counter, reached, queue, scanVars, responseVars,
                 sequenceVars, missed>>

\* A sequence asks for n clocks and blocks in get_response; the driver takes
\* the item.  What the driver then does depends on the queue.
Ask(r, n) ==
  /\ Quiescent /\ r \notin waiting /\ n > 0
  /\ AllowTies \/ \A s \in waiting : remaining[s] # n
  /\ AllowRace \/ ~reached
  /\ waiting' = waiting \cup {r}
  /\ remaining' = [remaining EXCEPT ![r] = n]
  /\ UNCHANGED <<runClock, resetDelay, reset, reached, responseVars, testVars>>

\* The queue is empty: the counter is started for this item.
QueueFirst(r, n) ==
  /\ Ask(r, n)
  /\ queue = <<>>
  /\ queue' = <<Item(r, n)>>
  /\ counter' = CountFor(n)
  /\ UNCHANGED scanVars

\* Mutant of HeadRefreshed: the head keeps the count it was queued with.
HeadAsQueued == queue

\* The head item, refreshed with what the counter has left.
HeadRefreshed == [queue EXCEPT ![1].count = CurrentCount]

\* Shorter than the running count: it becomes the head.
QueueShorter(r, n) ==
  /\ Ask(r, n)
  /\ queue # <<>> /\ n < CurrentCount
  /\ queue' = Cons(Item(r, n), [queue EXCEPT ![1].count = CurrentCount - n])
  /\ counter' = CountFor(n)
  /\ UNCHANGED scanVars

\* The same as the running count: a redundant item with count 0 goes first.
QueueEqual(r, n) ==
  /\ Ask(r, n)
  /\ queue # <<>> /\ n = CurrentCount
  /\ queue' = Cons(Item(r, 0), HeadRefreshed)
  /\ UNCHANGED <<counter, scanVars>>

\* Longer: the for loop looks for its place.
QueueLonger(r, n) ==
  /\ Ask(r, n)
  /\ queue # <<>> /\ n > CurrentCount
  /\ queue' = HeadRefreshed
  /\ item' = Item(r, n) /\ index' = 1 /\ total' = 0
  /\ driverPc' = "scan"
  /\ UNCHANGED counter

Scanning == phase = "run" /\ driverPc = "scan" /\ responsePc = "wait"

\* The item's deadline falls before the indexed item's.
FitsBefore ==
  /\ item.count > total
  /\ item.count < total + queue[index].count

\* The for loop puts the item, with count n, before the indexed one, whose own
\* count is reduced by n.
InsertHere(n) ==
  queue' = InsertAt([queue EXCEPT ![index].count = @ - n], index, Item(item.id, n))

\* The for loop is left; its locals are dead until the next item.
EndScan ==
  /\ driverPc' = "get" /\ item' = NoItem /\ index' = 1 /\ total' = 0
  /\ UNCHANGED <<ifVars, responseVars, sequenceVars, testVars>>

ScanInsert ==
  /\ Scanning /\ FitsBefore
  /\ InsertHere(item.count - total)
  /\ EndScan

\* Mutant of ScanNext: the loop runs past the last item.
ScanNextPastEnd ==
  /\ Scanning /\ ~FitsBefore
  /\ total' = total + queue[index].count
  /\ index' = index + 1
  /\ UNCHANGED <<ifVars, queue, driverPc, item, responseVars, sequenceVars, testVars>>

ScanNext ==
  /\ Scanning /\ ~FitsBefore /\ index < Len(queue)
  /\ total' = total + queue[index].count
  /\ index' = index + 1
  /\ UNCHANGED <<ifVars, queue, driverPc, item, responseVars, sequenceVars, testVars>>

\* The last item, compared with the whole count (not with what is left of it).
ScanLast ==
  /\ Scanning /\ ~FitsBefore /\ index = Len(queue)
  /\ \/ /\ item.count < queue[index].count
        /\ InsertHere(item.count - total)
     \/ /\ item.count >= queue[index].count
        /\ queue' = Append(queue, Item(item.id, item.count - (total + queue[index].count)))
  /\ EndScan

-----------------------------------------------------------------------------
(* The response loop.                                                      *)

\* Mutant of PopHead: the head is answered but stays in the queue.
ReadHead ==
  /\ waiting' = waiting \ {Head(queue).id}
  /\ lastCount' = Head(queue).count
  /\ UNCHANGED <<queue, remaining>>

\* Pop the head, answer its sequence, and leave the loop or go round it.
PopHead ==
  /\ waiting' = waiting \ {Head(queue).id}
  /\ queue' = Tail(queue)
  /\ lastCount' = Head(queue).count
  /\ UNCHANGED remaining

\* Mutant of ResponseWake: the do-while is entered without the size check.
ResponseWakeUnchecked ==
  /\ Quiescent /\ reached
  /\ queue # <<>>
  /\ PopHead
  /\ reached' = FALSE
  /\ responsePc' = "loop"
  /\ UNCHANGED <<runClock, resetDelay, reset, counter, scanVars, testVars>>

\* The event is seen: the item the counter was counting for is answered.
ResponseWake ==
  /\ Quiescent /\ reached
  /\ queue # <<>>
  /\ PopHead
  /\ reached' = FALSE
  /\ responsePc' = IF queue' # <<>> THEN "loop" ELSE "wait"
  /\ UNCHANGED <<runClock, resetDelay, reset, counter, scanVars, testVars>>

Looping == phase = "run" /\ responsePc = "loop"

\* Mutant of ResponseSchedule: the counter is not started for the next item.
ResponseScheduleIdle ==
  /\ Looping /\ Head(queue).count # 0
  /\ responsePc' = IF lastCount = 0 THEN "loop" ELSE "wait"
  /\ UNCHANGED <<ifVars, queue, scanVars, lastCount, sequenceVars, testVars>>

\* The new head has clocks left to count: the counter is started for it.
ResponseSchedule ==
  /\ Looping /\ Head(queue).count # 0
  /\ counter' = CountFor(Head(queue).count)
  /\ responsePc' = IF lastCount = 0 THEN "loop" ELSE "wait"
  /\ UNCHANGED <<runClock, resetDelay, reset, reached, queue, scanVars, lastCount,
                 sequenceVars, testVars>>

\* The new head is due already: it is answered at once.
ResponseDue ==
  /\ Looping /\ Head(queue).count = 0
  /\ PopHead
  /\ responsePc' = IF queue' # <<>> THEN "loop" ELSE "wait"
  /\ UNCHANGED <<ifVars, scanVars, testVars>>

-----------------------------------------------------------------------------
\* Mutant of EndOfTest: the loop of report_phase starts at the second item.
EndOfTestPastHead ==
  /\ Quiescent
  /\ phase' = "report"
  /\ missed' = Cardinality({i \in 2..Len(queue) : queue[i].id \in MustHappen})
  /\ UNCHANGED <<ifVars, queue, scanVars, responseVars, sequenceVars, starts>>

\* The test drops its objection; report_phase counts the must-happen leftovers.
EndOfTest ==
  /\ Quiescent
  /\ phase' = "report"
  /\ missed' = Cardinality({i \in 1..Len(queue) : queue[i].id \in MustHappen})
  /\ UNCHANGED <<ifVars, queue, scanVars, responseVars, sequenceVars, starts>>

QueueRequest(r, n) ==
  \/ QueueFirst(r, n)
  \/ QueueShorter(r, n)
  \/ QueueEqual(r, n)
  \/ QueueLonger(r, n)

Scan == ScanInsert \/ ScanNext \/ ScanLast

Respond == ResponseWake \/ ResponseSchedule \/ ResponseDue

Next ==
  \/ \E p \in Periods, d \in ResetDelays, run \in BOOLEAN : StartClock(p, d, run)
  \/ \E r \in Requests, n \in 1..MaxCount : QueueRequest(r, n)
  \/ Scan
  \/ Respond
  \/ Tick
  \/ EndOfTest

Spec == Init /\ [][Next]_vars

\* The generator keeps producing edges while run_clock is set, and a runnable
\* process runs; nothing makes a sequence ask or a test end.
Fairness == WF_vars(Tick) /\ WF_vars(Scan) /\ WF_vars(Respond)

FairSpec == Spec /\ Fairness
-----------------------------------------------------------------------------
(* Properties.                                                             *)

ItemSet == [id : Requests, count : Int]

\* Type invariant of the interface, the driver and the sequences.
TypeOK ==
  /\ runClock \in BOOLEAN /\ resetDelay \in Nat /\ reset \in BOOLEAN
  /\ counter \in Int /\ reached \in BOOLEAN
  /\ queue \in Seq(ItemSet)
  /\ driverPc \in {"get", "scan"} /\ responsePc \in {"wait", "loop"}
  /\ driverPc = "scan" => item \in ItemSet /\ responsePc = "wait" /\ index \in 1..Len(queue)
  /\ responsePc = "loop" => queue # <<>>
  /\ index \in Nat /\ total \in Int /\ lastCount \in Int
  /\ waiting \subseteq Requests /\ remaining \in [Requests -> Int]
  /\ starts \in Nat /\ phase \in {"run", "report", "fatal"} /\ missed \in Nat

\* The item being placed by the for loop, if there is one.
Scanned == IF driverPc = "scan" THEN {item.id} ELSE {}

\* Every sequence blocked in get_response has exactly one item on its way, in
\* the queue or in the for loop's hands, and nobody else has one: no request
\* is dropped, queued twice, or answered after its answer
\* (clock_and_reset_driver.sv:85-153, 176-191).
QueueHoldsWaiting ==
  /\ Ids(queue) \cup Scanned = waiting
  /\ Len(queue) + Cardinality(Scanned) = Cardinality(waiting)

\* The response loop never pops an empty queue, which would put a null item:
\* when the event has fired, or the do-while goes round, somebody waits
\* (clock_and_reset_driver.sv:176, 180, 188).
PopHasItem == (reached \/ responsePc = "loop") => queue # <<>>

\* report_phase finds every must-happen count that was not answered
\* (clock_and_reset_driver.sv:201-208).
MissedReported == phase = "report" => missed = Cardinality(waiting \cap MustHappen)

\* Rule 1 of the driver's comment, "At the exact expiration of each requested
\* count we return a response item" (clock_and_reset_driver.sv:66): an answer is
\* given in the clock cycle of the deadline, neither before nor after.
AnsweredOnTime ==
  [][\A r \in waiting : r \notin waiting' => remaining[r] = 0]_vars

\* With equal deadlines, and with requests taken while the event is pending, an answer
\* may come late or never, but none is given before the clocks asked for have passed:
\* whatever the counts in the queue have become, they add up to no less than the deadlines
\* (clock_and_reset_driver.sv:66-72, 97-152, 170-193).
NeverEarly ==
  [][\A r \in waiting : r \notin waiting' => remaining[r] <= 0]_vars

\* The counter stands for the time left of the head, or has run out when nobody
\* waits; while the response loop is about to start it for a new head, that
\* head's own count does.
CounterEncodesHead ==
  IF queue = <<>> THEN counter \in {0, 1}
  ELSE IF responsePc = "wait" THEN counter = remaining[queue[1].id] + 1
  ELSE queue[1].count = remaining[queue[1].id] /\ lastCount # 0 /\ counter = 1

\* Each later count is the distance from its predecessor's deadline, and no item is
\* redundant, so deadlines increase along the queue.
DeltasEncoded ==
  /\ \A i \in 1..Len(queue) : queue[i].count > 0
  /\ \A i \in 2..Len(queue) :
       queue[i].count = remaining[queue[i].id] - remaining[queue[i-1].id]
  /\ \A i, j \in 1..Len(queue) : i < j => remaining[queue[i].id] < remaining[queue[j].id]

\* In the for loop the head's count is fresh, the running total is the time left of
\* the item before the indexed one, and the new item is due after both.
ScanEncoded ==
  driverPc = "scan" =>
    /\ item.id \in waiting \ Ids(queue)
    /\ item.count = remaining[item.id]
    /\ queue[1].count = remaining[queue[1].id]
    /\ total = IF index = 1 THEN 0 ELSE remaining[queue[index-1].id]
    /\ total < item.count /\ remaining[queue[1].id] < item.count
    /\ \A i \in 1..Len(queue) : remaining[queue[i].id] # item.count

\* The event is pending exactly while the head is due.
ReachedAtDeadline == reached <=> counter = 1 /\ responsePc = "wait" /\ queue # <<>>

\* While no two outstanding requests share a deadline and none arrives between the
\* event and its response, the shared counter and the relative counts of the queue
\* always stand for the true deadlines (clock_and_reset_driver.sv:68-72, 97-152).
QueueEncodesDeadlines ==
  /\ CounterEncodesHead /\ DeltasEncoded /\ ScanEncoded /\ ReachedAtDeadline
  /\ Ids(queue) \cup Scanned = waiting
  /\ \A r \in waiting : remaining[r] >= 0
  /\ responsePc = "loop" => remaining[queue[1].id] > 0

\* The driver and its queue implement the service CountService describes.
Service ==
  INSTANCE CountService
    WITH Requests <- Requests, MaxCount <- MaxCount, waiting <- waiting, remaining <- remaining

ImplementsCountService == Service!Spec

\* A sequence that waits is answered unless the clock is stopped or the test ends:
\* no count is lost and no zero-time loop runs for ever
\* (clock_and_reset_driver.sv:170-193, clock_and_reset_count_clocks_seq.sv:34).
EveryRequestAnswered ==
  \A r \in Requests :
    (r \in waiting) ~> (r \notin waiting \/ ~runClock \/ phase # "run")

\* A reset pulse ends once start_clock is not called any more, whatever counts are
\* outstanding (clock_and_reset_if.sv:36-44).
ResetReleased == (reset \/ resetDelay > 0) ~> (~reset /\ resetDelay = 0) \/ ~runClock \/ phase # "run"
=============================================================================
