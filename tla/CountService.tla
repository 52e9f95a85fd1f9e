---------------------------- MODULE CountService ----------------------------
(***************************************************************************)
(* What the clock-and-reset UVC promises to the sequences that ask it to   *)
(* count clocks (clock_and_reset_driver.sv:66-84): every request is        *)
(* answered, in the very clock cycle in which its count expires.  Nothing  *)
(* is said here of how the counts of several requests share one hardware   *)
(* counter: that is module ClockReset, which implements this one.          *)
(***************************************************************************)
EXTENDS Integers

CONSTANTS Requests,   \* the sequences that may ask for a count
          MaxCount    \* bound: the longest count a sequence asks for

VARIABLES waiting,    \* the requests not answered yet
          remaining   \* clocks left until the deadline of each request

vars == <<waiting, remaining>>

Init ==
  /\ waiting = {}
  /\ remaining = [r \in Requests |-> 0]

Ask(r, n) ==
  /\ r \notin waiting
  /\ waiting' = waiting \cup {r}
  /\ remaining' = [remaining EXCEPT ![r] = n]

\* A clock may pass only while no deadline has been reached: a request that
\* is due is answered before the next clock.
Tick ==
  /\ \A r \in waiting : remaining[r] > 0
  /\ remaining' = [r \in Requests |->
                     IF r \in waiting THEN remaining[r] - 1 ELSE remaining[r]]
  /\ UNCHANGED waiting

Answer(r) ==
  /\ r \in waiting
  /\ remaining[r] = 0
  /\ waiting' = waiting \ {r}
  /\ UNCHANGED remaining

Next ==
  \/ \E r \in Requests, n \in 1..MaxCount : Ask(r, n)
  \/ \E r \in Requests : Answer(r)
  \/ Tick

Spec == Init /\ [][Next]_vars
=============================================================================
