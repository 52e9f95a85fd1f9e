---------------------------- MODULE RvfiTracker ----------------------------
(***************************************************************************)
(* The RVFI tracker (RV32_SoC/modules/tracer_modules/                      *)
(* rvfi_tracker_delay.sv): a queue of instructions in issue order, which   *)
(* get their results by matching program counters and are reported from    *)
(* the front, one per clock, when they are finished.                       *)
(*                                                                         *)
(* The core is not in this repository.  It is modelled from the signals    *)
(* the tracker taps, by its stages ID, EXE, MEM and WB and by units with a *)
(* latency of their own, whose results join at p_mux in the MEM stage.     *)
(* Branches are decided in MEM, with at most two instructions of the wrong *)
(* path behind them.  A result is named by the number of the instruction   *)
(* it belongs to; numbers follow program order, 0 is the wrong path.       *)
(***************************************************************************)
EXTENDS Integers, Sequences, FiniteSets, FiniteSetsExt

CONSTANTS
  Program,    \* the instruction memory: pc |-> [kind, target]
  Entry,      \* the pc after a reset
  MaxIssued,  \* bound: instructions of the right path
  UnitSlots   \* instructions the long-latency units hold

Kinds == {"alu", "long", "load", "store", "branch"}

ASSUME TrackerAssumption ==
  /\ DOMAIN Program \subseteq Nat \ {0}
  /\ \A pc \in DOMAIN Program : /\ Program[pc].kind \in Kinds
                                /\ Program[pc].target \in DOMAIN Program
  /\ Entry \in DOMAIN Program
  /\ MaxIssued \in Nat /\ UnitSlots \in Nat

VARIABLES
  \* the core
  nextPc,    \* the pc fetched next
  onPath,    \* whether it is on the right path
  issued,    \* instructions of the right path fetched so far
  id, exe, mem, wb,  \* the instruction in each stage
  units,     \* the instructions in the long-latency units
  \* the tracker
  wbPc,      \* pc_plus_4_wb_ff, less 4
  file,      \* inst_file
  \* history
  reported,  \* the records put out: [n, result]
  clean      \* none of the situations the tracker is not made for has come up

fetchVars == <<nextPc, onPath, issued>>
coreVars  == <<fetchVars, id, exe, mem, wb, units>>
vars == <<coreVars, wbPc, file, reported, clean>>

Instr(n, pc, taken) == [n |-> n, pc |-> pc, taken |-> taken]
Bubble == Instr(0, 0, FALSE)

NoResult == 0

Kind(i) == IF i = Bubble THEN "none" ELSE Program[i.pc].kind

Init ==
  /\ nextPc = Entry /\ onPath = TRUE /\ issued = 0
  /\ id = Bubble /\ exe = Bubble /\ mem = Bubble /\ wb = Bubble /\ units = {}
  /\ wbPc = 0 /\ file = <<>>
  /\ reported = <<>> /\ clean = TRUE

-----------------------------------------------------------------------------
(* The tracker's always block, in the order of its statements.             *)

NewTrace(i) ==
  [n |-> i.n, pc |-> i.pc, result |-> NoResult, finished |-> FALSE, branchHazard |-> FALSE]

\* Mutant of Pushed: an instruction that stays in ID is entered again each clock.
PushedAgain == IF id # Bubble THEN Append(file, NewTrace(id)) ELSE file

\* A valid instruction in ID is entered, unless it is the one entered last.
Pushed ==
  IF id # Bubble /\ (file = <<>> \/ file[Len(file)].pc # id.pc)
    THEN Append(file, NewTrace(id)) ELSE file

\* The entries waiting for what is in WB, and those waiting for what is in MEM.
AwaitsWb(e)  == e.pc = wbPc /\ ~e.finished
AwaitsMem(e) == e.pc = mem.pc /\ ~e.finished /\ ~AwaitsWb(e)

FromWb(e) == [e EXCEPT !.result = wb.n, !.finished = TRUE]

\* Mutant of FromMem: a load does not wait for WB.
FromMemAtOnce(e) ==
  [e EXCEPT !.result = IF Kind(mem) = "load" THEN NoResult ELSE mem.n,
            !.finished = TRUE, !.branchHazard = mem.taken]

\* Mutant of FromMem: the hazard is not recorded.
FromMemNoHazard(e) ==
  [e EXCEPT !.result = IF Kind(mem) = "load" THEN NoResult ELSE mem.n,
            !.finished = Kind(mem) # "load"]

FromMem(e) ==
  [e EXCEPT !.result = IF Kind(mem) = "load" THEN NoResult ELSE mem.n,
            !.finished = Kind(mem) # "load",
            !.branchHazard = mem.taken]

\* The loop over the entries: it ends at the first one that gets a result from MEM,
\* so no later one gets the word in WB.
Matched(q) ==
  LET hits == {i \in 1..Len(q) : AwaitsMem(q[i])}
  IN  [i \in 1..Len(q) |->
         IF hits # {} /\ i > Min(hits) THEN q[i]
         ELSE IF AwaitsWb(q[i]) THEN FromWb(q[i])
         ELSE IF i \in hits THEN FromMem(q[i])
         ELSE q[i]]

\* The front leaves, and with a branch the two entries behind it, if they are there.
Removed(q) == SubSeq(q, IF q[1].branchHazard THEN 4 ELSE 2, Len(q))

\* The front is put out and removed, if it is finished.
Report(q) ==
  IF q # <<>> /\ q[1].finished
    THEN /\ reported' = Append(reported, [n |-> q[1].n, result |-> q[1].result])
         /\ file' = Removed(q)
    ELSE file' = q /\ UNCHANGED reported

Track ==
  /\ Report(Matched(Pushed))
  /\ wbPc' = mem.pc

-----------------------------------------------------------------------------
(* The core.                                                               *)

\* The next instruction, if memory holds one, or a bubble, comes into ID.
Fetch ==
  \/ id' = Bubble /\ UNCHANGED fetchVars
  \/ /\ onPath /\ nextPc \in DOMAIN Program /\ issued < MaxIssued
     /\ issued' = issued + 1
     /\ nextPc' = nextPc + 1
     /\ \/ id' = Instr(issued', nextPc, FALSE) /\ UNCHANGED onPath
        \/ /\ Program[nextPc].kind = "branch"
           /\ id' = Instr(issued', nextPc, TRUE) /\ onPath' = FALSE
  \/ /\ ~onPath /\ nextPc \in DOMAIN Program
     /\ id' = Instr(0, nextPc, FALSE)
     /\ nextPc' = nextPc + 1
     /\ UNCHANGED <<onPath, issued>>

\* EXE takes the instruction in ID, or a bubble while that one stalls.
Issue ==
  \/ exe' = id /\ Fetch
  \/ exe' = Bubble /\ UNCHANGED <<id, fetchVars>>

\* A unit gives up a result; those of one instruction come in order.
Leaves(u) == u \in units /\ \A v \in units : v.pc = u.pc => u.n <= v.n

\* No branch is taken: MEM gets the result of EXE, of a unit, or none.
Advance ==
  /\ ~mem.taken
  /\ wb' = mem
  /\ \/ Kind(exe) # "long" /\ mem' = exe /\ UNCHANGED units /\ Issue
     \/ /\ Kind(exe) = "long" /\ Cardinality(units) < UnitSlots
        /\ mem' = Bubble /\ units' = units \cup {exe} /\ Issue
     \/ \E u \in units :
          /\ Leaves(u) /\ mem' = u /\ units' = units \ {u}
          /\ \/ exe = Bubble /\ Issue
             \/ exe # Bubble /\ UNCHANGED <<exe, id, fetchVars>>

\* A taken branch in MEM: what is behind it is squashed, its target is fetched next.
Flush ==
  /\ mem.taken
  /\ wb' = mem /\ exe' = Bubble /\ id' = Bubble
  /\ nextPc' = Program[mem.pc].target /\ onPath' = TRUE
  /\ \/ mem' = Bubble /\ UNCHANGED units
     \/ \E u \in units : Leaves(u) /\ mem' = u /\ units' = units \ {u}
  /\ UNCHANGED issued

\* The data memory is not ready, and the pipeline is stalled.
Wait ==
  /\ Kind(mem) \in {"load", "store"}
  /\ UNCHANGED coreVars

-----------------------------------------------------------------------------
(* Situations the tracker is not made for, and the clock.                  *)

\* A taken branch gets its result while an older instruction is not reported yet: the
\* two entries behind it are removed later, when others may have taken their place.
BranchOvertakes == mem.taken /\ (file = <<>> \/ file[1].n # mem.n)

\* The result of an older instruction comes in the clock in which a load's word is in
\* WB: the loop ends before it gets to the load.
LoadPassedBy == Kind(wb) = "load" /\ mem.n < wb.n /\ mem # Bubble

\* A load that waits for the data memory takes what is in WB meanwhile.
LoadWaits == Kind(mem) = "load"

Clock ==
  /\ Track
  /\ \/ /\ Advance \/ Flush
        /\ clean' = (clean /\ ~BranchOvertakes /\ ~LoadPassedBy)
     \/ /\ Wait
        /\ clean' = (clean /\ ~LoadWaits /\ ~LoadPassedBy)

\* Reset empties the pipeline; the tracker's queue is not reset.
Reset ==
  /\ id' = Bubble /\ exe' = Bubble /\ mem' = Bubble /\ wb' = Bubble /\ units' = {}
  /\ nextPc' = Entry /\ onPath' = TRUE
  /\ wbPc' = 0
  /\ clean' = (clean /\ file = <<>>)
  /\ issued' = IF clean' THEN Len(reported) ELSE issued
  /\ UNCHANGED <<file, reported>>

Next == Clock \/ Reset

Spec == Init /\ [][Next]_vars

\* The clock runs; nothing makes the core fetch, finish or be reset.
FairSpec == Spec /\ WF_vars(Clock)

-----------------------------------------------------------------------------
(* Properties.                                                             *)

Instrs == [n : 0..MaxIssued, pc : DOMAIN Program, taken : BOOLEAN] \cup {Bubble}

\* Type invariant of the core and the tracker, with the bound of the queue: a stalled
\* instruction is not entered again and again.
TypeOK ==
  /\ nextPc \in Nat /\ onPath \in BOOLEAN /\ issued \in 0..MaxIssued
  /\ {id, exe, mem, wb} \subseteq Instrs /\ units \subseteq Instrs
  /\ wbPc \in DOMAIN Program \cup {0}
  /\ file \in Seq([n : 0..MaxIssued, pc : DOMAIN Program, result : 0..MaxIssued,
                   finished : BOOLEAN, branchHazard : BOOLEAN])
  /\ Len(file) <= 3 * MaxIssued
  /\ reported \in Seq([n : 0..MaxIssued, result : 0..MaxIssued])
  /\ clean \in BOOLEAN

\* Apart from BranchOvertakes, LoadPassedBy, LoadWaits and a reset of a busy core, what
\* is reported is the program in its order, without a gap, each instruction with its
\* own result, whatever order the units, the loads and the ALU finish in, and nothing of
\* a wrong path (rvfi_tracker_delay.sv:146-193, 213-234).
ReportsProgram ==
  clean => \A i \in 1..Len(reported) : reported[i] = [n |-> i, result |-> i]

\* The instructions on their way, and those of which the first k are not any more.
InFlight == {id, exe, mem, wb} \cup units
Completed(k) == k <= issued /\ \A i \in InFlight : i.n = 0 \/ i.n > k

\* An instruction that is complete, as are the older ones, is reported: no entry stays
\* at the front without a result for ever (rvfi_tracker_delay.sv:159-193, 213-234).
CompletedReported ==
  \A k \in 1..MaxIssued :
    (clean /\ Completed(k)) ~> (Len(reported) >= k \/ ~clean)
=============================================================================
