-------------------------- MODULE RvfiTrackerProofs --------------------------
(***************************************************************************)
(* Proofs about RvfiTracker, for any program, any number of instructions   *)
(* and any number of units.                                                *)
(*                                                                         *)
(* Between two taken branches the instructions fetched have consecutive    *)
(* pcs, and while the tracker is clean no two such stretches overlap: a    *)
(* taken branch is reported, with the wrong path behind it, in the clock   *)
(* in which it flushes the pipeline.  So an instruction's place in the     *)
(* program's order is its pc less an offset, and everything the pipeline   *)
(* and the queue hold can be placed in one row.                            *)
(***************************************************************************)
EXTENDS RvfiTracker, SequenceTheorems, TLAPS

One(b) == IF b THEN 1 ELSE 0

-----------------------------------------------------------------------------
(* The pipeline.                                                           *)

\* The pc up to which instructions have left ID, and EXE for MEM or a unit.
LeftId  == nextPc - 1 - One(id # Bubble)
LeftExe == LeftId - One(exe # Bubble)

\* ID and EXE hold the instructions fetched last; a taken branch is nowhere but on its
\* way from ID to MEM, and off the path there is one; a wrong-path instruction is
\* behind it, and gets no further than EXE.
Path ==
  /\ id # Bubble => id.pc = nextPc - 1 /\ issued >= 1
  /\ exe # Bubble => exe.pc = LeftId /\ issued >= 1
  /\ onPath <=> ~id.taken /\ ~exe.taken /\ ~mem.taken
  /\ id.taken => ~exe.taken /\ ~mem.taken
  /\ exe.taken => ~mem.taken
  /\ \A i \in {id, exe, mem} : i.taken => Kind(i) = "branch"
  /\ \A u \in units : Kind(u) = "long" /\ ~u.taken
  /\ exe # Bubble /\ exe.n = 0 => mem.taken
  /\ id # Bubble /\ id.n = 0 => exe.taken \/ mem.taken

-----------------------------------------------------------------------------
(* The size of the queue.                                                  *)

\* The instruction in ID is still to be entered.
Unentered == id # Bubble /\ (file = <<>> \/ file[Len(file)].pc # id.pc)

\* The wrong-path instructions that may still be fetched.
Spare == IF id.taken THEN 2 ELSE IF exe.taken THEN 2 - One(id # Bubble) ELSE 0

SizeInv == Len(file) + One(Unentered) + Spare <= 3 * issued

-----------------------------------------------------------------------------
(* The order of the program.                                               *)

\* Everything fetched and not squashed, and the pc of the place before the first.
Entered == Len(reported) + Len(file) + One(Unentered)
Offset  == nextPc - 1 - Entered

\* The number of the instruction at a pc: its place, or 0 on the wrong path.
NumberAt(pc) == IF pc - Offset <= issued THEN pc - Offset ELSE 0

\* What has been reported is the program so far.
ReportedInOrder ==
  /\ \A i \in 1..Len(reported) : reported[i] = [n |-> i, result |-> i]
  /\ Len(reported) <= issued

\* The queue goes on from there, and what is finished has its own result.
FileInOrder ==
  \A i \in 1..Len(file) :
    /\ file[i].pc = Offset + Len(reported) + i
    /\ file[i].n = NumberAt(file[i].pc)
    /\ ~file[i].branchHazard
    /\ file[i].finished => file[i].result = file[i].n /\ file[i].n # 0

\* x is neither reported nor finished.
Pending(x) ==
  /\ x.pc > Offset + Len(reported)
  /\ \A i \in 1..Len(file) : file[i].pc = x.pc => ~file[i].finished

\* The instructions in the pipeline, and where the row ends.
PipelineInOrder ==
  /\ onPath => Entered = issued
  /\ \A i \in {id, exe, mem} \cup units : i # Bubble => i.n = NumberAt(i.pc)
  /\ \A i \in {id, exe, mem} : i.taken => i.n = issued
  /\ \A i \in {id, exe} \cup units : i # Bubble => Pending(i)
  /\ mem # Bubble => mem.pc <= LeftExe /\ mem.n # 0
  /\ mem.taken => mem.pc = LeftExe /\ Pending(mem) /\ \A u \in units : u.pc < mem.pc
  /\ \A u \in units : u # Bubble /\ u.pc <= LeftExe /\ u.pc # mem.pc /\ u.n # 0
  /\ \A u, v \in units : u.pc = v.pc => u = v

\* wbPc is the pc of an instruction that has left MEM, or waits there; if that is not
\* finished, its result is in WB.
WbInOrder ==
  /\ id # Bubble => wbPc < id.pc
  /\ exe # Bubble => wbPc < exe.pc
  /\ mem.taken => wbPc # mem.pc
  /\ \A u \in units : wbPc # u.pc
  /\ \A i \in 1..Len(file) :
       file[i].pc = wbPc /\ ~file[i].finished => wb.n = file[i].n /\ wb.n # 0

InOrder == ReportedInOrder /\ FileInOrder /\ PipelineInOrder /\ WbInOrder

TrackerInv == TypeOK /\ Path /\ SizeInv /\ (clean => InOrder)

-----------------------------------------------------------------------------
(* Instructions and entries.                                               *)

Entries == [n : 0..MaxIssued, pc : DOMAIN Program, result : 0..MaxIssued,
            finished : BOOLEAN, branchHazard : BOOLEAN]
Records == [n : 0..MaxIssued, result : 0..MaxIssued]

LEMMA OneIs == \A b \in BOOLEAN : One(b) \in 0..1 /\ (b => One(b) = 1) /\ (~b => One(b) = 0)
  BY DEF One

LEMMA BubbleIs ==
  TrackerAssumption =>
    /\ Bubble \in Instrs /\ Bubble.n = 0 /\ Bubble.pc = 0 /\ Bubble.taken = FALSE
    /\ Kind(Bubble) = "none"
  BY DEF Bubble, Instr, Instrs, Kind

\* What is not a bubble is at a place of the memory, which holds a kind of instruction.
LEMMA InstrIs ==
  ASSUME TrackerAssumption, NEW i \in Instrs
  PROVE  /\ i.n \in 0..MaxIssued /\ i.pc \in Nat /\ i.taken \in BOOLEAN
         /\ i # Bubble => i.pc \in DOMAIN Program /\ i.pc >= 1 /\ Kind(i) = Program[i.pc].kind
         /\ i.n # 0 \/ i.taken \/ i.pc # 0 => i # Bubble
<1>1. CASE i = Bubble
  <2>1. i.n = 0 /\ i.pc = 0 /\ i.taken = FALSE
    BY <1>1, BubbleIs
  <2>a. i.taken \in BOOLEAN /\ ~i.taken
    BY <2>1
  <2>2. 0 \in 0..MaxIssued
    BY DEF TrackerAssumption
  <2> QED BY <1>1, <2>1, <2>a, <2>2
<1>2. CASE i # Bubble
  <2>1. i \in [n : 0..MaxIssued, pc : DOMAIN Program, taken : BOOLEAN]
    BY <1>2 DEF Instrs
  <2>2. i.n \in 0..MaxIssued /\ i.pc \in DOMAIN Program /\ i.taken \in BOOLEAN
    BY <2>1
  <2>3. i.pc \in Nat /\ i.pc >= 1
    BY <2>2 DEF TrackerAssumption
  <2> QED BY <1>2, <2>2, <2>3 DEF Kind
<1> QED BY <1>1, <1>2

LEMMA NewInstr ==
  ASSUME TrackerAssumption, NEW n \in 0..MaxIssued, NEW pc \in DOMAIN Program,
         NEW taken \in BOOLEAN
  PROVE  /\ Instr(n, pc, taken) \in Instrs /\ Instr(n, pc, taken) # Bubble
         /\ Instr(n, pc, taken).n = n /\ Instr(n, pc, taken).pc = pc
         /\ Instr(n, pc, taken).taken <=> taken
         /\ pc \in Nat /\ pc >= 1
<1>1. pc \in Nat /\ pc >= 1
  BY DEF TrackerAssumption
<1>2. /\ Instr(n, pc, taken) \in Instrs
      /\ Instr(n, pc, taken).n = n /\ Instr(n, pc, taken).pc = pc
      /\ Instr(n, pc, taken).taken = taken
  BY DEF Instr, Instrs
<1>3. Instr(n, pc, taken) # Bubble
  BY <1>1, <1>2, BubbleIs
<1> QED BY <1>1, <1>2, <1>3

\* The stages, and what is in them.
LEMMA Stages ==
  ASSUME TypeOK
  PROVE  /\ id \in Instrs /\ exe \in Instrs /\ mem \in Instrs /\ wb \in Instrs
         /\ units \subseteq Instrs
         /\ file \in Seq(Entries) /\ Len(file) \in Nat
         /\ reported \in Seq(Records) /\ Len(reported) \in Nat
  BY DEF TypeOK, Entries, Records

LEMMA TraceType ==
  ASSUME TrackerAssumption, NEW i \in Instrs, i # Bubble
  PROVE  /\ NewTrace(i) \in Entries
         /\ NewTrace(i).n = i.n /\ NewTrace(i).pc = i.pc
         /\ ~NewTrace(i).finished /\ ~NewTrace(i).branchHazard
  BY InstrIs DEF NewTrace, Entries, NoResult, TrackerAssumption

\* The result of WB and that of MEM.
LEMMA ResultType ==
  ASSUME TrackerAssumption, TypeOK, NEW e \in Entries
  PROVE  /\ FromWb(e) \in Entries /\ FromMem(e) \in Entries
         /\ FromWb(e).n = e.n /\ FromWb(e).pc = e.pc
         /\ FromWb(e).finished /\ FromWb(e).result = wb.n
         /\ FromWb(e).branchHazard <=> e.branchHazard
         /\ FromMem(e).n = e.n /\ FromMem(e).pc = e.pc
         /\ FromMem(e).finished <=> Kind(mem) # "load"
         /\ FromMem(e).branchHazard <=> mem.taken
         /\ Kind(mem) # "load" => FromMem(e).result = mem.n
<1>1. wb.n \in 0..MaxIssued /\ mem.n \in 0..MaxIssued /\ mem.taken \in BOOLEAN
      /\ NoResult \in 0..MaxIssued
  BY Stages, InstrIs DEF NoResult, TrackerAssumption
<1>2. (Kind(mem) # "load") \in BOOLEAN
  OBVIOUS
<1> QED BY <1>1, <1>2 DEF FromWb, FromMem, Entries

-----------------------------------------------------------------------------
(* The queue.                                                              *)

LEMMA Appended ==
  ASSUME NEW S, NEW q \in Seq(S), NEW v \in S
  PROVE  /\ Append(q, v) \in Seq(S)
         /\ Len(q) \in Nat /\ Len(Append(q, v)) = Len(q) + 1
         /\ \A i \in 1..Len(q) + 1 : Append(q, v)[i] = IF i <= Len(q) THEN q[i] ELSE v
  OBVIOUS

LEMMA ElementIs ==
  ASSUME NEW S, NEW q \in Seq(S)
  PROVE  Len(q) \in Nat /\ (q = <<>> <=> Len(q) = 0) /\ \A i \in 1..Len(q) : q[i] \in S
  OBVIOUS

\* What is entered is at the end of the queue, whether in this clock or before.
LEMMA PushedIs ==
  ASSUME TrackerAssumption, TypeOK
  PROVE  /\ Pushed \in Seq(Entries) /\ Len(Pushed) \in Nat
         /\ Len(Pushed) = Len(file) + One(Unentered)
         /\ \A i \in 1..Len(file) : Pushed[i] = file[i]
         /\ Unentered => Pushed[Len(Pushed)] = NewTrace(id)
         /\ id # Bubble => Len(Pushed) >= 1 /\ Pushed[Len(Pushed)].pc = id.pc
<1> file \in Seq(Entries) /\ Len(file) \in Nat /\ id \in Instrs
  BY Stages
<1>1. CASE Unentered
  <2>1. Pushed = Append(file, NewTrace(id)) /\ id # Bubble
    BY <1>1 DEF Pushed, Unentered
  <2>2. NewTrace(id) \in Entries /\ NewTrace(id).pc = id.pc
    BY <2>1, TraceType
  <2>3. One(Unentered) = 1
    BY <1>1 DEF One
  <2> QED BY <2>1, <2>2, <2>3, Appended
<1>2. CASE ~Unentered
  <2>1. Pushed = file /\ One(Unentered) = 0
    BY <1>2 DEF Pushed, Unentered, One
  <2>2. id # Bubble => file # <<>> /\ file[Len(file)].pc = id.pc
    BY <1>2 DEF Unentered
  <2> QED BY <1>2, <2>1, <2>2, ElementIs
<1> QED BY <1>1, <1>2

\* Matching changes no entry but those that wait for the pc in WB or in MEM.
LEMMA MatchedIs ==
  ASSUME TrackerAssumption, TypeOK, NEW q \in Seq(Entries)
  PROVE  /\ Matched(q) \in Seq(Entries) /\ Len(Matched(q)) = Len(q)
         /\ \A i \in 1..Len(q) :
              \/ Matched(q)[i] = q[i]
              \/ AwaitsWb(q[i]) /\ Matched(q)[i] = FromWb(q[i])
              \/ AwaitsMem(q[i]) /\ Matched(q)[i] = FromMem(q[i])
<1> DEFINE hits == {i \in 1..Len(q) : AwaitsMem(q[i])}
           At(i) == IF hits # {} /\ i > Min(hits) THEN q[i]
                    ELSE IF AwaitsWb(q[i]) THEN FromWb(q[i])
                    ELSE IF i \in hits THEN FromMem(q[i])
                    ELSE q[i]
<1>1. Len(q) \in Nat /\ \A i \in 1..Len(q) : q[i] \in Entries
  BY ElementIs
<1>2. Matched(q) = [i \in 1..Len(q) |-> At(i)]
  BY DEF Matched
<1>3. ASSUME NEW i \in 1..Len(q)
      PROVE  /\ \/ At(i) = q[i]
                \/ AwaitsWb(q[i]) /\ At(i) = FromWb(q[i])
                \/ AwaitsMem(q[i]) /\ At(i) = FromMem(q[i])
             /\ At(i) \in Entries
  <2>1. \/ At(i) = q[i]
        \/ AwaitsWb(q[i]) /\ At(i) = FromWb(q[i])
        \/ AwaitsMem(q[i]) /\ At(i) = FromMem(q[i])
    OBVIOUS
  <2>2. q[i] \in Entries /\ FromWb(q[i]) \in Entries /\ FromMem(q[i]) \in Entries
    BY <1>1, ResultType
  <2> QED BY <2>1, <2>2
<1> HIDE DEF At
<1>4. Matched(q) \in [1..Len(q) -> Entries]
  BY <1>2, <1>3
<1>5. Matched(q) \in Seq(Entries) /\ Len(Matched(q)) = Len(q)
  BY <1>1, <1>4
<1>6. \A i \in 1..Len(q) : Matched(q)[i] = At(i)
  BY <1>2
<1> QED BY <1>3, <1>5, <1>6

\* If one entry at most waits for MEM, that one gets its result, and where none does
\* every entry that waits for WB does.
LEMMA MatchedOne ==
  ASSUME TrackerAssumption, TypeOK, NEW q \in Seq(Entries), NEW k \in 1..Len(q),
         \A i \in 1..Len(q) : AwaitsMem(q[i]) => i = k
  PROVE  /\ AwaitsMem(q[k]) => Matched(q)[k] = FromMem(q[k])
         /\ ~AwaitsMem(q[k]) => \A i \in 1..Len(q) : AwaitsWb(q[i]) => Matched(q)[i] = FromWb(q[i])
<1> DEFINE hits == {i \in 1..Len(q) : AwaitsMem(q[i])}
<1>1. Len(q) \in Nat /\ k \in Int
  BY ElementIs
<1>2. \A i \in 1..Len(q) : Matched(q)[i] =
         IF hits # {} /\ i > Min(hits) THEN q[i]
         ELSE IF AwaitsWb(q[i]) THEN FromWb(q[i])
         ELSE IF i \in hits THEN FromMem(q[i])
         ELSE q[i]
  BY DEF Matched
<1>3. \A i \in 1..Len(q) : i \in hits <=> AwaitsMem(q[i])
  OBVIOUS
<1>4. AwaitsMem(q[k]) => hits = {k}
  OBVIOUS
<1>5. ~AwaitsMem(q[k]) => hits = {}
  OBVIOUS
<1> HIDE DEF hits
<1>6. CASE AwaitsMem(q[k])
  <2>1. Min({k}) = k
    BY <1>1 DEF Min
  <2>2. ~AwaitsWb(q[k])
    BY <1>6 DEF AwaitsMem
  <2>3. k \in hits /\ Min(hits) = k
    BY <1>4, <1>6, <2>1, Zenon
  <2>4. ~(k > Min(hits))
    BY <1>1, <2>3
  <2> QED BY <1>2, <1>6, <2>2, <2>3, <2>4
<1>7. CASE ~AwaitsMem(q[k])
  BY <1>2, <1>5, <1>7
<1> QED BY <1>6, <1>7

LEMMA RemovedIs ==
  ASSUME NEW q \in Seq(Entries), q # <<>>
  PROVE  /\ Removed(q) \in Seq(Entries) /\ Len(Removed(q)) \in Nat
         /\ ~q[1].branchHazard => /\ Len(Removed(q)) = Len(q) - 1
                                  /\ \A i \in 1..Len(q) - 1 : Removed(q)[i] = q[i + 1]
         /\ q[1].branchHazard => Len(Removed(q)) = IF Len(q) <= 3 THEN 0 ELSE Len(q) - 3
         /\ Len(Removed(q)) < Len(q)
         /\ Removed(q) # <<>> => Removed(q)[Len(Removed(q))] = q[Len(q)]
<1>1. Len(q) \in Nat /\ Len(q) >= 1
  BY ElementIs
<1>2. CASE q[1].branchHazard
  <2>1. Removed(q) = SubSeq(q, 4, Len(q))
    BY <1>2 DEF Removed
  <2> QED BY <1>1, <1>2, <2>1
<1>3. CASE ~q[1].branchHazard
  <2>1. Removed(q) = SubSeq(q, 2, Len(q))
    BY <1>3 DEF Removed
  <2>2. Removed(q) \in Seq(Entries) /\ Len(Removed(q)) = Len(q) - 1
    <3>1. \A i \in 2..Len(q) : q[i] \in Entries
      BY <1>1, ElementIs
    <3>2. /\ Removed(q) \in Seq(Entries)
          /\ Len(Removed(q)) = IF 2 <= Len(q) THEN Len(q) - 2 + 1 ELSE 0
      BY <1>1, <2>1, <3>1, SubSeqProperties
    <3>3. CASE Len(q) = 1
      BY <3>2, <3>3
    <3>4. CASE 2 <= Len(q)
      BY <1>1, <3>2, <3>4
    <3>5. \A n \in Nat : n >= 1 => n = 1 \/ 2 <= n
      OBVIOUS
    <3> QED BY <1>1, <3>3, <3>4, <3>5
  <2>3. \A i \in 1..Len(q) - 1 : Removed(q)[i] = q[i + 1]
    BY <1>1, <2>1
  <2> QED BY <1>1, <1>3, <2>2, <2>3, ElementIs
<1> QED BY <1>2, <1>3

\* What the tracker does to its queue: the entries keep their order, those waiting get
\* their results, and the front may leave for the record.
LEMMA TrackIs ==
  ASSUME TrackerAssumption, TypeOK, Track
  PROVE  /\ file' \in Seq(Entries) /\ Len(file') \in Nat
         /\ reported' \in Seq(Records)
         /\ wbPc' \in DOMAIN Program \cup {0}
         /\ Len(file') <= Len(file) + One(Unentered)
         /\ id # Bubble => /\ Len(file) + One(Unentered) >= 1
                           /\ file' # <<>> => file'[Len(file')].pc = id.pc
<1> DEFINE q == Matched(Pushed)
<1>1. /\ Pushed \in Seq(Entries) /\ Len(Pushed) \in Nat
      /\ Len(Pushed) = Len(file) + One(Unentered)
      /\ id # Bubble => Len(Pushed) >= 1 /\ Pushed[Len(Pushed)].pc = id.pc
  BY PushedIs
<1>2. /\ q \in Seq(Entries) /\ Len(q) = Len(Pushed)
      /\ \A i \in 1..Len(Pushed) : q[i].pc = Pushed[i].pc
  <2>1. /\ q \in Seq(Entries) /\ Len(q) = Len(Pushed)
        /\ \A i \in 1..Len(Pushed) :
             \/ q[i] = Pushed[i]
             \/ q[i] = FromWb(Pushed[i])
             \/ q[i] = FromMem(Pushed[i])
    BY <1>1, MatchedIs
  <2>2. \A i \in 1..Len(Pushed) : Pushed[i] \in Entries
    BY <1>1, ElementIs
  <2> QED BY <2>1, <2>2, ResultType
<1>3. Report(q) /\ wbPc' = mem.pc
  BY DEF Track
<1> HIDE DEF q
<1>4. wbPc' \in DOMAIN Program \cup {0}
  <2>1. mem \in Instrs
    BY Stages
  <2>2. mem.pc \in DOMAIN Program \/ mem = Bubble
    BY <2>1, InstrIs
  <2> QED BY <1>3, <2>2, BubbleIs
<1>5. id # Bubble => q # <<>> /\ q[Len(q)].pc = id.pc
  BY <1>1, <1>2, ElementIs
<1>6. CASE q # <<>> /\ q[1].finished
  <2>1. /\ reported' = Append(reported, [n |-> q[1].n, result |-> q[1].result])
        /\ file' = Removed(q)
    BY <1>3, <1>6 DEF Report
  <2>2. [n |-> q[1].n, result |-> q[1].result] \in Records
    <3>1. q[1] \in Entries
      BY <1>2, <1>6
    <3> QED BY <3>1 DEF Entries, Records
  <2>3. reported' \in Seq(Records)
    BY <2>1, <2>2, Stages, Appended
  <2>4. /\ file' \in Seq(Entries) /\ Len(file') \in Nat /\ Len(file') < Len(q)
        /\ file' # <<>> => file'[Len(file')] = q[Len(q)]
    BY <1>2, <1>6, <2>1, RemovedIs
  <2> QED BY <1>1, <1>2, <1>4, <1>5, <2>3, <2>4
<1>7. CASE ~(q # <<>> /\ q[1].finished)
  <2>1. file' = q /\ reported' = reported
    BY <1>3, <1>7 DEF Report
  <2>2. reported' \in Seq(Records)
    BY <2>1, Stages
  <2> QED BY <1>1, <1>2, <1>4, <1>5, <2>1, <2>2
<1> QED BY <1>6, <1>7

-----------------------------------------------------------------------------
(* The pipeline's steps.                                                   *)

\* What comes into ID: nothing, the next instruction of the path, or one off it.
LEMMA FetchIs ==
  ASSUME TrackerAssumption, TypeOK, Fetch
  PROVE  /\ id' \in Instrs /\ nextPc' \in Nat /\ onPath' \in BOOLEAN /\ issued' \in 0..MaxIssued
         /\ \/ id' = Bubble /\ nextPc' = nextPc /\ onPath' = onPath /\ issued' = issued
            \/ /\ onPath /\ nextPc' = nextPc + 1 /\ issued' = issued + 1
               /\ id' # Bubble /\ id'.n = issued' /\ id'.pc = nextPc
               /\ id'.taken <=> ~onPath'
               /\ id'.taken => Program[id'.pc].kind = "branch"
            \/ /\ ~onPath /\ nextPc' = nextPc + 1 /\ onPath' = onPath /\ issued' = issued
               /\ id' # Bubble /\ id'.n = 0 /\ id'.pc = nextPc /\ ~id'.taken
<1> nextPc \in Nat /\ onPath \in BOOLEAN /\ issued \in 0..MaxIssued /\ MaxIssued \in Nat
  BY DEF TypeOK, TrackerAssumption
<1>1. CASE id' = Bubble /\ UNCHANGED fetchVars
  BY <1>1, BubbleIs DEF fetchVars
<1>2. CASE /\ onPath /\ nextPc \in DOMAIN Program /\ issued < MaxIssued
           /\ issued' = issued + 1
           /\ nextPc' = nextPc + 1
           /\ \/ id' = Instr(issued', nextPc, FALSE) /\ UNCHANGED onPath
              \/ /\ Program[nextPc].kind = "branch"
                 /\ id' = Instr(issued', nextPc, TRUE) /\ onPath' = FALSE
  <2>1. issued' \in 0..MaxIssued
    BY <1>2
  <2>2. CASE id' = Instr(issued', nextPc, FALSE) /\ UNCHANGED onPath
    <3>1. /\ id' \in Instrs /\ id' # Bubble /\ id'.n = issued' /\ id'.pc = nextPc
          /\ ~id'.taken
      <4>1. nextPc \in DOMAIN Program /\ id' = Instr(issued', nextPc, FALSE)
        BY <1>2, <2>2
      <4>2. id' \in Instrs /\ id' # Bubble
        BY <2>1, <4>1, NewInstr, Zenon
      <4>3. id'.n = issued' /\ id'.pc = nextPc /\ ~id'.taken
        BY <4>1 DEF Instr
      <4> QED BY <4>2, <4>3
    <3>2. /\ onPath /\ onPath' /\ nextPc' = nextPc + 1 /\ issued' = issued + 1
          /\ onPath' \in BOOLEAN /\ nextPc' \in Nat
      BY <1>2, <2>2
    <3> QED BY <2>1, <3>1, <3>2
  <2>3. CASE /\ Program[nextPc].kind = "branch"
             /\ id' = Instr(issued', nextPc, TRUE) /\ onPath' = FALSE
    <3>1. /\ id' \in Instrs /\ id' # Bubble /\ id'.n = issued' /\ id'.pc = nextPc
          /\ id'.taken
      <4>1. nextPc \in DOMAIN Program /\ id' = Instr(issued', nextPc, TRUE)
        BY <1>2, <2>3
      <4>2. id' \in Instrs /\ id' # Bubble
        BY <2>1, <4>1, NewInstr, Zenon
      <4>3. id'.n = issued' /\ id'.pc = nextPc /\ id'.taken
        BY <4>1 DEF Instr
      <4> QED BY <4>2, <4>3
    <3>2. /\ onPath /\ nextPc' = nextPc + 1 /\ issued' = issued + 1
          /\ nextPc' \in Nat
      BY <1>2
    <3>3. onPath' \in BOOLEAN /\ ~onPath'
      BY <2>3
    <3>4. Program[id'.pc].kind = "branch"
      BY <2>3, <3>1
    <3> QED BY <2>1, <3>1, <3>2, <3>3, <3>4
  <2> QED BY <1>2, <2>2, <2>3
<1>3. CASE /\ ~onPath /\ nextPc \in DOMAIN Program
           /\ id' = Instr(0, nextPc, FALSE)
           /\ nextPc' = nextPc + 1
           /\ UNCHANGED <<onPath, issued>>
  <2>1. 0 \in 0..MaxIssued
    OBVIOUS
  <2>2. /\ id' \in Instrs /\ id' # Bubble /\ id'.n = 0 /\ id'.pc = nextPc
        /\ ~id'.taken
    <3>1. nextPc \in DOMAIN Program /\ id' = Instr(0, nextPc, FALSE)
      BY <1>3
    <3>2. id' \in Instrs /\ id' # Bubble
      BY <2>1, <3>1, NewInstr, Zenon
    <3>3. id'.n = 0 /\ id'.pc = nextPc /\ ~id'.taken
      BY <3>1 DEF Instr
    <3> QED BY <3>2, <3>3
  <2>3. /\ ~onPath /\ onPath' = onPath /\ nextPc' = nextPc + 1 /\ issued' = issued
        /\ onPath' \in BOOLEAN /\ nextPc' \in Nat /\ issued' \in 0..MaxIssued
    BY <1>3
  <2> QED BY <2>2, <2>3
<1> QED BY <1>1, <1>2, <1>3 DEF Fetch

\* ID and EXE after Issue, with what has left EXE.
LEMMA IssueIs ==
  ASSUME TrackerAssumption, TypeOK, Path, ~mem.taken, Issue
  PROVE  /\ id' \in Instrs /\ exe' \in Instrs
         /\ nextPc' \in Nat /\ onPath' \in BOOLEAN /\ issued' \in 0..MaxIssued
         /\ LeftExe' = LeftId
         /\ id' # Bubble => id'.pc = nextPc' - 1 /\ issued' >= 1
         /\ exe' # Bubble => exe'.pc = LeftId' /\ issued' >= 1
         /\ onPath' <=> ~id'.taken /\ ~exe'.taken /\ ~exe.taken
         /\ id'.taken => ~exe'.taken /\ ~exe.taken
         /\ exe'.taken => ~exe.taken
         /\ id'.taken => Kind(id') = "branch"
         /\ exe'.taken => Kind(exe') = "branch"
         /\ exe' # Bubble /\ exe'.n = 0 => exe.taken
         /\ id' # Bubble /\ id'.n = 0 => exe'.taken \/ exe.taken
<1> /\ id \in Instrs /\ exe \in Instrs /\ mem \in Instrs
    /\ nextPc \in Nat /\ onPath \in BOOLEAN /\ issued \in 0..MaxIssued /\ MaxIssued \in Nat
  BY Stages DEF TypeOK, TrackerAssumption
<1>0. /\ id.taken \in BOOLEAN /\ exe.taken \in BOOLEAN /\ id.pc \in Nat /\ exe.pc \in Nat
      /\ Bubble \in Instrs /\ Bubble.taken = FALSE /\ Bubble.n = 0
      /\ id.taken => id # Bubble
      /\ exe.taken => exe # Bubble
  BY InstrIs, BubbleIs
<1>1. CASE exe' = id /\ Fetch
  BY <1>0, <1>1, FetchIs, InstrIs DEF Path, LeftId, LeftExe, One
<1>2. CASE exe' = Bubble /\ UNCHANGED <<id, fetchVars>>
  <2>1. /\ exe' = Bubble /\ id' = id
        /\ nextPc' = nextPc /\ onPath' = onPath /\ issued' = issued
    BY <1>2 DEF fetchVars
  <2>2. LeftExe' = LeftId
    BY <2>1 DEF LeftId, LeftExe, One
  <2> QED BY <1>0, <2>1, <2>2 DEF Path
<1> QED BY <1>1, <1>2 DEF Issue

\* No instruction is lost or made on the way through the pipeline.
LEMMA CoreStep ==
  ASSUME TrackerAssumption, TypeOK, Path, Advance \/ Flush \/ Wait
  PROVE  /\ nextPc' \in Nat /\ onPath' \in BOOLEAN /\ issued' \in 0..MaxIssued
         /\ {id', exe', mem', wb'} \subseteq Instrs /\ units' \subseteq Instrs
         /\ Path'
<1>0. /\ id \in Instrs /\ exe \in Instrs /\ mem \in Instrs /\ wb \in Instrs
      /\ units \subseteq Instrs
      /\ nextPc \in Nat /\ onPath \in BOOLEAN /\ issued \in 0..MaxIssued
      /\ Bubble \in Instrs /\ ~Bubble.taken /\ Bubble.n = 0 /\ Kind(Bubble) = "none"
  BY Stages, BubbleIs DEF TypeOK
<1>1. CASE Advance
  <2>1. ~mem.taken /\ wb' = mem
    BY <1>1 DEF Advance
  <2>2. ASSUME Issue, mem' \in Instrs, mem'.taken <=> exe.taken,
               mem'.taken => Kind(mem') = "branch",
               units' \subseteq Instrs, \A u \in units' : Kind(u) = "long" /\ ~u.taken
        PROVE  /\ nextPc' \in Nat /\ onPath' \in BOOLEAN /\ issued' \in 0..MaxIssued
               /\ {id', exe', mem', wb'} \subseteq Instrs /\ units' \subseteq Instrs
               /\ Path'
    <3>1. /\ nextPc' \in Nat /\ onPath' \in BOOLEAN /\ issued' \in 0..MaxIssued
          /\ id' \in Instrs /\ exe' \in Instrs
      BY <2>1, <2>2, IssueIs
    <3>2. Path'
      BY <2>1, <2>2, IssueIs DEF Path
    <3> QED BY <1>0, <2>1, <2>2, <3>1, <3>2
  <2>3. CASE Kind(exe) # "long" /\ mem' = exe /\ UNCHANGED units /\ Issue
    BY <1>0, <2>2, <2>3 DEF Path
  <2>4. CASE /\ Kind(exe) = "long" /\ Cardinality(units) < UnitSlots
             /\ mem' = Bubble /\ units' = units \cup {exe} /\ Issue
    <3>1. ~exe.taken
      BY <2>4 DEF Path
    <3> QED BY <1>0, <2>2, <2>4, <3>1 DEF Path
  <2>5. ASSUME NEW u \in units, mem' = u, units' = units \ {u}, exe = Bubble, Issue
        PROVE  /\ nextPc' \in Nat /\ onPath' \in BOOLEAN /\ issued' \in 0..MaxIssued
               /\ {id', exe', mem', wb'} \subseteq Instrs /\ units' \subseteq Instrs
               /\ Path'
    <3>1. u \in Instrs /\ ~u.taken /\ ~exe.taken
      BY <1>0, <2>5 DEF Path
    <3> QED BY <1>0, <2>2, <2>5, <3>1 DEF Path
  <2>6. ASSUME NEW u \in units, mem' = u, units' = units \ {u},
               UNCHANGED <<exe, id, fetchVars>>
        PROVE  /\ nextPc' \in Nat /\ onPath' \in BOOLEAN /\ issued' \in 0..MaxIssued
               /\ {id', exe', mem', wb'} \subseteq Instrs /\ units' \subseteq Instrs
               /\ Path'
    <3>1. u \in Instrs /\ ~u.taken
      BY <1>0, <2>6 DEF Path
    <3>2. exe' = exe /\ id' = id /\ nextPc' = nextPc /\ onPath' = onPath /\ issued' = issued
      BY <2>6 DEF fetchVars
    <3>3. LeftId' = LeftId
      BY <3>2 DEF LeftId
    <3>4. Path'
      BY <1>0, <2>1, <2>6, <3>1, <3>2, <3>3 DEF Path
    <3> QED BY <1>0, <2>1, <2>6, <3>1, <3>2, <3>4
  <2> QED BY <1>1, <2>3, <2>4, <2>5, <2>6 DEF Advance
<1>2. CASE Flush
  <2>1. /\ wb' = mem /\ exe' = Bubble /\ id' = Bubble /\ mem.taken
        /\ nextPc' = Program[mem.pc].target /\ onPath' = TRUE /\ issued' = issued
    BY <1>2 DEF Flush
  <2>2. /\ mem' \in Instrs /\ ~mem'.taken /\ units' \subseteq units
    BY <1>0, <1>2 DEF Flush, Path
  <2>3. nextPc' \in Nat
    BY <1>0, <2>1, InstrIs DEF TrackerAssumption
  <2>4. Path'
    BY <1>0, <2>1, <2>2 DEF Path
  <2> QED BY <1>0, <2>1, <2>2, <2>3, <2>4
<1>3. CASE Wait
  <2>1. /\ id' = id /\ exe' = exe /\ mem' = mem /\ wb' = wb /\ units' = units
        /\ nextPc' = nextPc /\ onPath' = onPath /\ issued' = issued
    BY <1>3 DEF Wait, coreVars, fetchVars
  <2>2. LeftId' = LeftId
    BY <2>1 DEF LeftId
  <2> QED BY <1>0, <2>1, <2>2 DEF Path
<1> QED BY <1>1, <1>2, <1>3

-----------------------------------------------------------------------------
(* The size of the queue, kept.                                            *)

\* A queue of f with u to be entered and s to spare for k, before and after a clock:
\* nothing new comes; one of those to spare does; or one more of the right path does.
Fits(f, u, s, k, g, v, t, l) ==
  /\ f + u + s <= 3 * k /\ g <= f + u /\ v <= 1
  /\ \/ l = k /\ t <= s /\ (v = 0 \/ (g = 0 /\ f + u >= 1))
     \/ l = k /\ t <= s - 1
     \/ l = k + 1 /\ t <= 2 /\ s >= 0
  => g + v + t <= 3 * l

LEMMA FitsIs ==
  ASSUME NEW f \in Int, NEW u \in Int, NEW s \in Int, NEW k \in Int,
         NEW g \in Int, NEW v \in Int, NEW t \in Int, NEW l \in Int
  PROVE  Fits(f, u, s, k, g, v, t, l)
  BY DEF Fits

\* Each instruction of the right path is entered once, and brings at most two others.
LEMMA SizeStep ==
  ASSUME TrackerAssumption, TypeOK, Path, SizeInv, Track, Advance \/ Flush \/ Wait
  PROVE  SizeInv'
<1>0. /\ id \in Instrs /\ exe \in Instrs /\ mem \in Instrs
      /\ Len(file) \in Nat /\ issued \in Nat /\ onPath \in BOOLEAN
      /\ ~Bubble.taken
      /\ id.taken \in BOOLEAN /\ exe.taken \in BOOLEAN
      /\ id.taken => id # Bubble
  BY Stages, BubbleIs, InstrIs DEF TypeOK
<1>1. /\ Len(file') \in Nat /\ Len(file') <= Len(file) + One(Unentered)
      /\ id # Bubble => /\ Len(file) + One(Unentered) >= 1
                        /\ file' # <<>> => file'[Len(file')].pc = id.pc
      /\ file' = <<>> => Len(file') = 0
  BY TrackIs
<1>2. /\ One(Unentered) \in 0..1 /\ One(Unentered') \in 0..1
      /\ (id' = Bubble => One(Unentered') = 0)
      /\ One(id # Bubble) = IF id # Bubble THEN 1 ELSE 0
      /\ One(id' # Bubble) = IF id' # Bubble THEN 1 ELSE 0
  BY DEF One, Unentered
<1>3. Spare = IF id.taken THEN 2 ELSE IF exe.taken THEN 2 - One(id # Bubble) ELSE 0
  BY DEF Spare
<1>4. Spare' = IF id'.taken THEN 2 ELSE IF exe'.taken THEN 2 - One(id' # Bubble) ELSE 0
  BY DEF Spare, One
<1>5. Spare \in 0..2 /\ Spare' \in 0..2
  BY <1>2, <1>3, <1>4
<1>6. ASSUME issued' \in Int,
             \/ /\ issued' = issued /\ Spare' <= Spare
                /\ One(Unentered') = 0 \/ (Len(file') = 0 /\ Len(file) + One(Unentered) >= 1)
             \/ issued' = issued /\ Spare' <= Spare - 1
             \/ issued' = issued + 1
      PROVE  SizeInv'
  <2>1. /\ Len(file) \in Int /\ One(Unentered) \in Int /\ Spare \in Int /\ issued \in Int
        /\ Len(file') \in Int /\ One(Unentered') \in Int /\ Spare' \in Int /\ issued' \in Int
    BY <1>0, <1>1, <1>2, <1>5, <1>6
  <2>2. Fits(Len(file), One(Unentered), Spare, issued,
             Len(file'), One(Unentered'), Spare', issued')
    BY <2>1, FitsIs, Zenon
  <2>3. One(Unentered') <= 1 /\ Spare' <= 2 /\ Spare >= 0
    BY <1>2, <1>5
  <2>4. Len(file) + One(Unentered) + Spare <= 3 * issued
    BY Zenon DEF SizeInv
  <2>5. \/ /\ issued' = issued /\ Spare' <= Spare
           /\ One(Unentered') = 0 \/ (Len(file') = 0 /\ Len(file) + One(Unentered) >= 1)
        \/ issued' = issued /\ Spare' <= Spare - 1
        \/ issued' = issued + 1 /\ Spare' <= 2 /\ Spare >= 0
    BY <1>6, <2>3, Zenon
  <2>6. Len(file') <= Len(file) + One(Unentered)
    BY <1>1, Zenon
  <2>7. Len(file') + One(Unentered') + Spare' <= 3 * issued'
    BY <2>2, <2>3, <2>4, <2>5, <2>6, Zenon DEF Fits
  <2> QED BY <2>7, Zenon DEF SizeInv
\* What stays in ID is at the end of the queue, or has left it at once.
<1>7. ASSUME id' = id, id # Bubble
      PROVE  One(Unentered') = 0 \/ (Len(file') = 0 /\ Len(file) + One(Unentered) >= 1)
  <2>1. CASE file' = <<>>
    BY <1>1, <1>7, <2>1, Zenon
  <2>2. CASE file' # <<>>
    <3>1. Unentered' = FALSE
      BY <1>1, <1>7, <2>2 DEF Unentered
    <3> QED BY <3>1 DEF One
  <2> QED BY <2>1, <2>2
<1>8. CASE exe' = id /\ Fetch /\ ~mem.taken
  <2>1. /\ issued' \in Nat
        /\ \/ id' = Bubble /\ issued' = issued
           \/ onPath /\ issued' = issued + 1 /\ id' # Bubble
           \/ ~onPath /\ issued' = issued /\ id' # Bubble /\ ~id'.taken
    BY <1>8, FetchIs
  <2>2. issued' \in Int
    BY <2>1
  <2>3. ~onPath => id.taken \/ exe.taken
    BY <1>8 DEF Path
  <2>4. CASE id' = Bubble /\ issued' = issued
    <3>1. One(Unentered') = 0
      BY <1>2, <2>4, Zenon
    <3>2. Spare' <= Spare
      BY <1>0, <1>2, <1>3, <1>4, <1>8, <2>4
    <3> QED BY <1>6, <2>2, <2>4, <3>1, <3>2, Zenon
  <2>5. CASE onPath /\ issued' = issued + 1
    BY <1>6, <2>2, <2>5, Zenon
  <2>6. CASE ~onPath /\ issued' = issued /\ id' # Bubble /\ ~id'.taken
    <3>1. Spare' <= Spare - 1
      BY <1>0, <1>2, <1>3, <1>4, <1>8, <2>3, <2>6
    <3> QED BY <1>6, <2>2, <2>6, <3>1, Zenon
  <2> QED BY <2>1, <2>4, <2>5, <2>6, Zenon
<1>9. ASSUME id' = id, exe' = Bubble \/ exe' = exe, issued' = issued
      PROVE  SizeInv'
  <2>1. Spare' <= Spare
    BY <1>0, <1>2, <1>3, <1>4, <1>9
  <2>2. issued' \in Int
    BY <1>0, <1>9
  <2>3. One(Unentered') = 0 \/ (Len(file') = 0 /\ Len(file) + One(Unentered) >= 1)
    BY <1>2, <1>7, <1>9, Zenon
  <2> QED BY <1>6, <1>9, <2>1, <2>2, <2>3, Zenon
<1>10. CASE Advance
  <2>1. CASE Issue
    BY <1>8, <1>9, <1>10, <2>1 DEF Issue, fetchVars, Advance
  <2>2. CASE UNCHANGED <<exe, id, fetchVars>>
    BY <1>9, <2>2 DEF fetchVars
  <2> QED BY <1>10, <2>1, <2>2 DEF Advance
<1>11. CASE Flush
  <2>1. id' = Bubble /\ exe' = Bubble /\ issued' = issued
    BY <1>11 DEF Flush
  <2>2. One(Unentered') = 0
    BY <1>2, <2>1, Zenon
  <2>3. Spare' <= Spare
    BY <1>0, <1>2, <1>3, <1>4, <2>1
  <2>4. issued' \in Int
    BY <1>0, <2>1
  <2> QED BY <1>6, <2>1, <2>2, <2>3, <2>4, Zenon
<1>12. CASE Wait
  BY <1>9, <1>12 DEF Wait, coreVars, fetchVars
<1> QED BY <1>10, <1>11, <1>12

-----------------------------------------------------------------------------
(* The order, through one clock of the tracker.                            *)

\* An entry at its place of the row: its number, and its own result when finished.
InPlace(e, place) ==
  /\ e.pc = place
  /\ e.n = NumberAt(place)
  /\ ~e.branchHazard
  /\ e.finished => e.result = e.n /\ e.n # 0

LEMMA RowIs ==
  ASSUME TrackerAssumption, TypeOK
  PROVE  /\ Entered \in Nat /\ Offset \in Int /\ Offset + Entered = nextPc - 1
         /\ One(Unentered) \in 0..1 /\ Len(reported) \in Nat /\ Len(file) \in Nat
         /\ Entered = Len(reported) + Len(file) + One(Unentered)
<1>1. One(Unentered) \in 0..1
  BY DEF One
<1>2. Len(reported) \in Nat /\ Len(file) \in Nat /\ nextPc \in Nat
  BY Stages DEF TypeOK
<1> QED BY <1>1, <1>2 DEF Entered, Offset

\* The k-th place of the row.
LEMMA NumberIs ==
  ASSUME TrackerAssumption, TypeOK, NEW k \in Int
  PROVE  NumberAt(Offset + k) = IF k <= issued THEN k ELSE 0
<1>1. \A o \in Int : (o + k) - o = k
  OBVIOUS
<1>2. (Offset + k) - Offset = k
  BY <1>1, RowIs
<1> QED BY <1>2 DEF NumberAt

LEMMA PushedInOrder ==
  ASSUME TrackerAssumption, TypeOK, Path, InOrder
  PROVE  /\ Len(reported) + Len(Pushed) = Entered
         /\ \A i \in 1..Len(Pushed) :
              /\ InPlace(Pushed[i], Offset + Len(reported) + i)
              /\ Pushed[i].pc = wbPc /\ ~Pushed[i].finished => wb.n = Pushed[i].n /\ wb.n # 0
         /\ \A x : Pending(x) => \A i \in 1..Len(Pushed) :
                                   Pushed[i].pc = x.pc => ~Pushed[i].finished
<1>0. /\ Entered \in Nat /\ Offset \in Int /\ Offset + Entered = nextPc - 1
      /\ Len(reported) \in Nat /\ Len(file) \in Nat /\ One(Unentered) \in 0..1
      /\ Entered = Len(reported) + Len(file) + One(Unentered)
  BY RowIs
<1>1. /\ Len(Pushed) \in Nat /\ Len(Pushed) = Len(file) + One(Unentered)
      /\ \A i \in 1..Len(file) : Pushed[i] = file[i]
      /\ Unentered => Pushed[Len(Pushed)] = NewTrace(id)
  BY PushedIs
<1>2. \A i \in 1..Len(file) :
        /\ InPlace(Pushed[i], Offset + Len(reported) + i)
        /\ Pushed[i].pc = wbPc /\ ~Pushed[i].finished => wb.n = Pushed[i].n /\ wb.n # 0
        /\ \A x : Pending(x) /\ Pushed[i].pc = x.pc => ~Pushed[i].finished
  BY <1>1 DEF InOrder, FileInOrder, WbInOrder, InPlace, Pending
<1>5. Len(reported) + Len(Pushed) = Entered
  <2>1. \A r, f, o \in Int : r + (f + o) = r + f + o
    OBVIOUS
  <2>2. Len(reported) + (Len(file) + One(Unentered)) = Entered
    BY <1>0, <2>1
  <2> QED BY <1>1, <2>2
<1>3. CASE ~Unentered
  <2>1. Len(Pushed) = Len(file)
    BY <1>0, <1>1, <1>3 DEF One
  <2>2. \A i \in 1..Len(Pushed) : i \in 1..Len(file)
    BY <1>0, <1>1, <2>1
  <2> QED BY <1>5, <1>2, <2>2
<1>4. CASE Unentered
  <2>1. Len(Pushed) = Len(file) + 1 /\ One(Unentered) = 1
    BY <1>0, <1>1, <1>4 DEF One
  <2>2. id \in Instrs /\ id # Bubble
    BY <1>4, Stages DEF Unentered
  <2>3. /\ NewTrace(id).n = id.n /\ NewTrace(id).pc = id.pc
        /\ ~NewTrace(id).finished /\ ~NewTrace(id).branchHazard
    BY <2>2, TraceType
  <2>4. id.pc = nextPc - 1 /\ id.n = NumberAt(id.pc) /\ wbPc < id.pc
    BY <2>2 DEF Path, InOrder, PipelineInOrder, WbInOrder
  <2>5. id.pc = Offset + Len(reported) + Len(Pushed)
    BY <1>0, <2>1, <2>4
  <2>6. wbPc # id.pc
    <3>1. wbPc \in Int
      BY DEF TypeOK, TrackerAssumption
    <3>2. id.pc \in Int
      BY <2>2, InstrIs
    <3> QED BY <2>4, <3>1, <3>2
  <2>7. /\ InPlace(Pushed[Len(Pushed)], Offset + Len(reported) + Len(Pushed))
        /\ Pushed[Len(Pushed)].pc # wbPc /\ ~Pushed[Len(Pushed)].finished
    BY <1>1, <1>4, <2>3, <2>4, <2>5, <2>6 DEF InPlace
  <2>8. \A i \in 1..Len(Pushed) : i \in 1..Len(file) \/ i = Len(Pushed)
    BY <1>0, <1>1, <2>1
  <2>9. ASSUME NEW i \in 1..Len(Pushed)
        PROVE  /\ InPlace(Pushed[i], Offset + Len(reported) + i)
               /\ Pushed[i].pc = wbPc /\ ~Pushed[i].finished => wb.n = Pushed[i].n /\ wb.n # 0
               /\ \A x : Pending(x) /\ Pushed[i].pc = x.pc => ~Pushed[i].finished
    BY <1>2, <2>7, <2>8
  <2> QED BY <1>5, <2>9
<1> QED BY <1>3, <1>4

\* Results go to the entries they belong to, when no branch is taken.
LEMMA MatchedInOrder ==
  ASSUME TrackerAssumption, TypeOK, Path, InOrder, ~mem.taken
  PROVE  /\ Matched(Pushed) \in Seq(Entries) /\ Len(Matched(Pushed)) = Len(Pushed)
         /\ \A i \in 1..Len(Pushed) :
              /\ InPlace(Matched(Pushed)[i], Offset + Len(reported) + i)
              /\ Matched(Pushed)[i].finished =>
                   Pushed[i].finished \/ Pushed[i].pc \in {mem.pc, wbPc}
              /\ Pushed[i].pc = mem.pc /\ ~Matched(Pushed)[i].finished => Kind(mem) = "load"
<1>0. /\ Pushed \in Seq(Entries) /\ Len(Pushed) \in Nat
      /\ \A i \in 1..Len(Pushed) : Pushed[i] \in Entries
  BY PushedIs, ElementIs
<1>1. \A i \in 1..Len(Pushed) :
        /\ InPlace(Pushed[i], Offset + Len(reported) + i)
        /\ Pushed[i].pc = wbPc /\ ~Pushed[i].finished => wb.n = Pushed[i].n /\ wb.n # 0
  BY PushedInOrder
<1>2. /\ Matched(Pushed) \in Seq(Entries) /\ Len(Matched(Pushed)) = Len(Pushed)
      /\ \A i \in 1..Len(Pushed) :
           \/ Matched(Pushed)[i] = Pushed[i]
           \/ AwaitsWb(Pushed[i]) /\ Matched(Pushed)[i] = FromWb(Pushed[i])
           \/ AwaitsMem(Pushed[i]) /\ Matched(Pushed)[i] = FromMem(Pushed[i])
  BY <1>0, MatchedIs
<1>3. Offset \in Int /\ Len(reported) \in Nat
  BY RowIs
<1>4. mem \in Instrs /\ (mem # Bubble => mem.n = NumberAt(mem.pc) /\ mem.n # 0)
  BY Stages DEF InOrder, PipelineInOrder
<1>5. ASSUME NEW i \in 1..Len(Pushed)
      PROVE  /\ InPlace(Matched(Pushed)[i], Offset + Len(reported) + i)
             /\ Matched(Pushed)[i].finished =>
                  Pushed[i].finished \/ Pushed[i].pc \in {mem.pc, wbPc}
             /\ Pushed[i].pc = mem.pc /\ ~Matched(Pushed)[i].finished => Kind(mem) = "load"
  <2> DEFINE e == Pushed[i]
             m == Matched(Pushed)[i]
  <2>0. e \in Entries /\ e.finished \in BOOLEAN
    BY <1>0 DEF Entries
  <2>1. InPlace(e, Offset + Len(reported) + i)
    BY <1>1
  <2>2. e.pc = mem.pc => mem # Bubble
    <3>1. e.pc \in DOMAIN Program
      BY <2>0 DEF Entries
    <3> QED BY <3>1, BubbleIs DEF TrackerAssumption
  <2>3. ASSUME AwaitsWb(e), m = FromWb(e)
        PROVE  InPlace(m, Offset + Len(reported) + i) /\ m.finished /\ e.pc = wbPc
    <3>1. e.pc = wbPc /\ wb.n = e.n /\ wb.n # 0
      BY <1>1, <2>3 DEF AwaitsWb
    <3>2. /\ m.n = e.n /\ m.pc = e.pc /\ m.finished /\ m.result = wb.n
          /\ m.branchHazard <=> e.branchHazard
      BY <2>0, <2>3, ResultType
    <3> QED BY <2>1, <3>1, <3>2 DEF InPlace
  <2>4. ASSUME AwaitsMem(e), m = FromMem(e)
        PROVE  /\ InPlace(m, Offset + Len(reported) + i) /\ e.pc = mem.pc
               /\ ~m.finished => Kind(mem) = "load"
    <3>1. e.pc = mem.pc /\ mem # Bubble
      BY <2>2, <2>4 DEF AwaitsMem
    <3>2. mem.n = e.n /\ mem.n # 0
      BY <1>4, <2>1, <3>1 DEF InPlace
    <3> QED BY <2>0, <2>1, <2>4, <3>1, <3>2, ResultType DEF InPlace
  <2>5. m = e \/ (AwaitsWb(e) /\ m = FromWb(e)) \/ (AwaitsMem(e) /\ m = FromMem(e))
    BY <1>2
  <2>6. ASSUME e.pc = mem.pc, ~e.finished, m = e
        PROVE  Kind(mem) = "load"
    <3>1. \A j \in 1..Len(Pushed) : AwaitsMem(Pushed[j]) => j = i
      <4>1. \A j \in 1..Len(Pushed) : Pushed[j].pc = Offset + Len(reported) + j
        BY <1>1 DEF InPlace
      <4> QED BY <1>0, <1>3, <2>6, <4>1 DEF AwaitsMem
    <3>2. AwaitsMem(e) \/ AwaitsWb(e)
      BY <2>6 DEF AwaitsMem
    <3>3. CASE AwaitsMem(e)
      <4>1. m = FromMem(e)
        BY <1>0, <3>1, <3>3, MatchedOne
      <4> QED BY <2>0, <2>6, <4>1, ResultType
    <3>4. CASE ~AwaitsMem(e) /\ AwaitsWb(e)
      <4>1. m = FromWb(e)
        BY <1>0, <3>1, <3>4, MatchedOne
      <4> QED BY <2>0, <2>6, <4>1, ResultType
    <3> QED BY <3>2, <3>3, <3>4
  <2> QED BY <2>1, <2>3, <2>4, <2>5, <2>6
<1> QED BY <1>2, <1>5

\* The tracker's clock when no branch is taken: the row is as it was, the record may
\* have got the next instruction of it, and what has no result stays unfinished.
LEMMA TrackInOrder ==
  ASSUME TrackerAssumption, TypeOK, Path, InOrder, ~mem.taken, Track
  PROVE  /\ Len(reported') \in Nat /\ Len(file') \in Nat
         /\ Len(reported') + Len(file') = Entered
         /\ Len(reported') <= issued
         /\ \A i \in 1..Len(reported') : reported'[i] = [n |-> i, result |-> i]
         /\ \A i \in 1..Len(file') :
              /\ InPlace(file'[i], Offset + Len(reported') + i)
              /\ file'[i].pc = mem.pc /\ ~file'[i].finished => Kind(mem) = "load"
         /\ \A x : Pending(x) /\ x.pc \in Int /\ x.pc # mem.pc /\ x.pc # wbPc =>
              /\ x.pc > Offset + Len(reported')
              /\ \A i \in 1..Len(file') : file'[i].pc = x.pc => ~file'[i].finished
<1> DEFINE q == Matched(Pushed)
           r == Len(reported)
<1>0. Entered \in Nat /\ Offset \in Int /\ r \in Nat /\ issued \in Nat
  BY RowIs DEF TypeOK
<1>1. /\ q \in Seq(Entries) /\ Len(q) = Len(Pushed) /\ Len(Pushed) \in Nat
      /\ r + Len(Pushed) = Entered
  BY MatchedInOrder, PushedInOrder, PushedIs
<1>2. \A i \in 1..Len(Pushed) :
        /\ InPlace(q[i], Offset + r + i)
        /\ q[i].pc = mem.pc /\ ~q[i].finished => Kind(mem) = "load"
  BY MatchedInOrder, PushedInOrder DEF InPlace
<1>3. ASSUME NEW x, Pending(x), x.pc # mem.pc, x.pc # wbPc, NEW i \in 1..Len(Pushed),
             q[i].pc = x.pc
      PROVE  ~q[i].finished
  <2>1. Pushed[i].pc = x.pc
    BY <1>2, <1>3, PushedInOrder DEF InPlace
  <2>2. ~Pushed[i].finished
    BY <1>3, <2>1, PushedInOrder
  <2> QED BY <1>3, <2>1, <2>2, MatchedInOrder
<1>4. Report(q)
  BY DEF Track
<1>5. r <= issued /\ \A i \in 1..r : reported[i] = [n |-> i, result |-> i]
  BY DEF InOrder, ReportedInOrder
<1>6. \A x : Pending(x) => x.pc > Offset + r
  BY DEF Pending
<1>7. reported \in Seq(Records) /\ file' \in Seq(Entries)
  BY Stages, TrackIs
<1> HIDE DEF q
<1>8. CASE ~(q # <<>> /\ q[1].finished)
  <2>1. file' = q /\ reported' = reported
    BY <1>4, <1>8 DEF Report
  <2>2. \A i \in 1..Len(file') : i \in 1..Len(Pushed)
    BY <1>1, <2>1
  <2>3. r + Len(file') = Entered /\ Len(file') \in Nat
    BY <1>1, <2>1
  <2> QED BY <1>0, <1>2, <1>3, <1>5, <1>6, <2>1, <2>2, <2>3
<1>9. CASE q # <<>> /\ q[1].finished
  <2>1. /\ reported' = Append(reported, [n |-> q[1].n, result |-> q[1].result])
        /\ file' = Removed(q)
    BY <1>4, <1>9 DEF Report
  <2>2. 1 \in 1..Len(Pushed) /\ Len(Pushed) >= 1
    BY <1>1, <1>9, ElementIs
  <2>3. InPlace(q[1], Offset + r + 1)
    BY <1>2, <2>2
  \* The front is the next of the path.
  <2>4. r + 1 <= issued /\ q[1].n = r + 1 /\ q[1].result = r + 1
    <3>1. NumberAt(Offset + r + 1) # 0 /\ q[1].n = NumberAt(Offset + r + 1) /\ q[1].result = q[1].n
      BY <1>9, <2>3 DEF InPlace
    <3>2. Offset + (r + 1) = Offset + r + 1
      BY <1>0
    <3>3. NumberAt(Offset + r + 1) = IF r + 1 <= issued THEN r + 1 ELSE 0
      <4>1. r + 1 \in Int
        BY <1>0
      <4>2. NumberAt(Offset + (r + 1)) = IF r + 1 <= issued THEN r + 1 ELSE 0
        BY <4>1, NumberIs, Zenon
      <4> QED BY <3>2, <4>2, Zenon
    <3> QED BY <3>1, <3>3
  <2>5. [n |-> q[1].n, result |-> q[1].result] = [n |-> r + 1, result |-> r + 1]
    BY <2>4
  <2>6. [n |-> q[1].n, result |-> q[1].result] \in Records
    <3>1. q[1] \in Entries
      BY <1>1, <1>9
    <3> QED BY <3>1 DEF Entries, Records
  <2>7. /\ Len(reported') = r + 1
        /\ \A i \in 1..r + 1 : reported'[i] = IF i <= r THEN reported[i]
                                              ELSE [n |-> q[1].n, result |-> q[1].result]
    BY <1>7, <2>1, <2>6, Appended
  <2>8. \A i \in 1..Len(reported') : reported'[i] = [n |-> i, result |-> i]
    <3>1. ASSUME NEW i \in 1..r + 1
          PROVE  reported'[i] = [n |-> i, result |-> i]
      <4>1. CASE i <= r
        <5>1. i \in 1..r
          BY <1>0, <4>1
        <5>2. reported'[i] = reported[i]
          BY <2>7, <4>1
        <5> QED BY <1>5, <5>1, <5>2
      <4>2. CASE i = r + 1
        BY <1>0, <2>5, <2>7, <4>2
      <4> QED BY <1>0, <4>1, <4>2
    <3> QED BY <2>7, <3>1
  <2>9. /\ Len(file') \in Nat /\ Len(file') = Len(q) - 1
        /\ \A i \in 1..Len(q) - 1 : file'[i] = q[i + 1]
    BY <1>1, <1>9, <2>1, <2>3, RemovedIs DEF InPlace
  <2>10. Len(reported') + Len(file') = Entered
    <3>1. Len(file') = Len(Pushed) - 1
      BY <1>1, <2>9
    <3>2. \A a, b \in Int : (a + 1) + (b - 1) = a + b
      OBVIOUS
    <3>3. Len(reported') + Len(file') = r + Len(Pushed)
      BY <1>0, <1>1, <2>7, <3>1, <3>2
    <3> QED BY <1>1, <3>3
  <2>11. ASSUME NEW i \in 1..Len(file')
         PROVE  /\ i + 1 \in 1..Len(Pushed) /\ file'[i] = q[i + 1]
                /\ Offset + r + (i + 1) = Offset + Len(reported') + i
    BY <1>0, <1>1, <2>7, <2>9
  <2>12. \A i \in 1..Len(file') :
           /\ InPlace(file'[i], Offset + Len(reported') + i)
           /\ file'[i].pc = mem.pc /\ ~file'[i].finished => Kind(mem) = "load"
    BY <1>2, <2>11
  <2>13. ASSUME NEW x, Pending(x), x.pc \in Int, x.pc # mem.pc, x.pc # wbPc
         PROVE  /\ x.pc > Offset + Len(reported')
                /\ \A i \in 1..Len(file') : file'[i].pc = x.pc => ~file'[i].finished
    <3>1. x.pc # q[1].pc
      BY <1>3, <1>9, <2>2, <2>13
    <3>2. q[1].pc = Offset + r + 1
      BY <2>3 DEF InPlace
    <3>3. x.pc > Offset + Len(reported')
      <4>1. \A a, o, k \in Int : a > o + k /\ a # o + k + 1 => a > o + (k + 1)
        OBVIOUS
      <4>2. x.pc > Offset + r /\ x.pc # Offset + r + 1
        BY <1>6, <2>13, <3>1, <3>2
      <4>3. x.pc > Offset + (r + 1)
        BY <1>0, <2>13, <4>1, <4>2
      <4> QED BY <2>7, <4>3
    <3>4. \A i \in 1..Len(file') : file'[i].pc = x.pc => ~file'[i].finished
      <4>1. \A i \in 1..Len(Pushed) : q[i].pc = x.pc => ~q[i].finished
        BY <1>3, <2>13
      <4> QED BY <2>11, <4>1
    <3> QED BY <3>3, <3>4
  <2>14. Len(reported') \in Nat /\ Len(reported') <= issued
    BY <1>0, <2>4, <2>7
  <2> QED BY <2>8, <2>9, <2>10, <2>12, <2>13, <2>14
<1> QED BY <1>8, <1>9

-----------------------------------------------------------------------------
(* The order, through one clock of the core in which no branch is taken.   *)

\* Pending and NumberAt in the next state.
PendingNext(x) ==
  /\ x.pc > Offset' + Len(reported')
  /\ \A i \in 1..Len(file') : file'[i].pc = x.pc => ~file'[i].finished
NumberNext(pc) == IF pc - Offset' <= issued' THEN pc - Offset' ELSE 0

\* ID keeps its instruction, or gives it to EXE and gets another or none.
LEMMA MovesIs ==
  ASSUME TrackerAssumption, TypeOK, Path, Advance \/ Wait
  PROVE  /\ ~mem.taken
         /\ \/ /\ id' = id /\ (exe' = exe \/ exe' = Bubble)
               /\ nextPc' = nextPc /\ onPath' = onPath /\ issued' = issued
            \/ exe' = id /\ Fetch
<1>1. CASE Advance
  <2>1. ~mem.taken /\ (Issue \/ UNCHANGED <<exe, id, fetchVars>>)
    BY <1>1 DEF Advance
  <2> QED BY <2>1 DEF Issue, fetchVars
<1>2. CASE Wait
  <2>1. ~mem.taken
    BY <1>2 DEF Wait, Path
  <2> QED BY <1>2, <2>1 DEF Wait, coreVars, fetchVars
<1> QED BY <1>1, <1>2

\* What is in ID is behind EXE, that is behind what has left it.
LEMMA PlacesAre ==
  ASSUME TrackerAssumption, TypeOK, Path, InOrder
  PROVE  /\ LeftId \in Int /\ LeftExe \in Int /\ nextPc \in Nat
         /\ LeftExe <= LeftId /\ LeftId <= nextPc - 1
         /\ id # Bubble => /\ id.pc \in Int /\ id.pc = nextPc - 1 /\ LeftId < id.pc
                           /\ mem.pc < id.pc /\ wbPc < id.pc
         /\ exe # Bubble => /\ exe.pc \in Int /\ exe.pc = LeftId /\ LeftExe < exe.pc
                            /\ mem.pc < exe.pc /\ wbPc < exe.pc
         /\ mem # Bubble => mem.pc \in Int /\ mem.pc <= LeftExe
         /\ mem.pc \in Int /\ wbPc \in Int
         /\ \A u \in units : /\ u \in Instrs /\ u.pc \in Int /\ u.pc <= LeftExe
                             /\ u # Bubble /\ u.pc # mem.pc /\ u.pc # wbPc
<1>1. /\ id \in Instrs /\ exe \in Instrs /\ mem \in Instrs /\ units \subseteq Instrs
      /\ nextPc \in Nat /\ Bubble.pc = 0 /\ wbPc \in Int
  BY Stages, BubbleIs DEF TypeOK, TrackerAssumption
<1>2. /\ LeftId = nextPc - 1 - (IF id # Bubble THEN 1 ELSE 0)
      /\ LeftExe = LeftId - (IF exe # Bubble THEN 1 ELSE 0)
  BY DEF LeftId, LeftExe, One
<1>3. LeftId \in Int /\ LeftExe \in Int /\ LeftExe <= LeftId /\ LeftId <= nextPc - 1
  BY <1>1, <1>2
<1>4. /\ mem.pc \in Int /\ (mem = Bubble => mem.pc = 0)
      /\ mem # Bubble => mem.pc <= LeftExe
      /\ id # Bubble => id.pc \in Int /\ id.pc >= 1 /\ id.pc = nextPc - 1 /\ wbPc < id.pc
      /\ exe # Bubble => exe.pc \in Int /\ exe.pc >= 1 /\ exe.pc = LeftId /\ wbPc < exe.pc
  <2>1. /\ mem # Bubble => mem.pc <= LeftExe
        /\ id # Bubble => id.pc = nextPc - 1 /\ wbPc < id.pc
        /\ exe # Bubble => exe.pc = LeftId /\ wbPc < exe.pc
    BY DEF Path, InOrder, PipelineInOrder, WbInOrder
  <2>2. /\ mem.pc \in Int /\ (mem = Bubble => mem.pc = 0)
        /\ id # Bubble => id.pc \in Int /\ id.pc >= 1
        /\ exe # Bubble => exe.pc \in Int /\ exe.pc >= 1
    BY <1>1, InstrIs
  <2> QED BY <2>1, <2>2
<1>5. \A u \in units : /\ u \in Instrs /\ u.pc \in Int /\ u.pc <= LeftExe
                       /\ u # Bubble /\ u.pc # mem.pc /\ u.pc # wbPc
  BY <1>1, InstrIs DEF InOrder, PipelineInOrder, WbInOrder
<1>6. id # Bubble => LeftId < id.pc /\ mem.pc < id.pc
  BY <1>1, <1>2, <1>3, <1>4
<1>7. exe # Bubble => LeftExe < exe.pc /\ mem.pc < exe.pc
  BY <1>1, <1>2, <1>3, <1>4
<1> QED BY <1>1, <1>3, <1>4, <1>5, <1>6, <1>7

\* What has no result in this clock is as pending as it was.
LEMMA PendingKept ==
  ASSUME TrackerAssumption, TypeOK, Path, InOrder, ~mem.taken, Track, Offset' = Offset
  PROVE  \A x \in {id, exe} \cup units : x # Bubble => PendingNext(x)
<1>1. \A x \in {id, exe} \cup units : x # Bubble =>
        Pending(x) /\ x.pc \in Int /\ x.pc # mem.pc /\ x.pc # wbPc
  <2>1. \A x \in {id, exe} \cup units : x # Bubble => Pending(x)
    BY DEF InOrder, PipelineInOrder
  <2> QED BY <2>1, PlacesAre
<1> QED BY <1>1, TrackInOrder DEF PendingNext

\* The row only grows at its end.
LEMMA OffsetKept ==
  ASSUME TrackerAssumption, TypeOK, Path, InOrder, Track, Advance \/ Wait
  PROVE  Offset' = Offset /\ Entered' = Entered + (nextPc' - nextPc) /\ nextPc' \in Int
<1>0. /\ Entered \in Nat /\ Offset \in Int /\ Offset + Entered = nextPc - 1
      /\ Len(reported') \in Nat /\ Len(file') \in Nat /\ nextPc \in Int
      /\ Len(reported') + Len(file') = Entered
  <2>1. ~mem.taken
    BY MovesIs
  <2>2. Entered \in Nat /\ Offset \in Int /\ Offset + Entered = nextPc - 1
    BY RowIs
  <2>3. /\ Len(reported') \in Nat /\ Len(file') \in Nat
        /\ Len(reported') + Len(file') = Entered
    BY <2>1, TrackInOrder
  <2> QED BY <2>2, <2>3, PlacesAre
<1>1. One(Unentered') \in 0..1 /\ nextPc' \in Int
  BY CoreStep DEF One
<1>2. One(Unentered') = nextPc' - nextPc
  <2>1. CASE id' = id /\ nextPc' = nextPc
    <3>1. SUFFICES ASSUME Unentered' PROVE FALSE
      BY <1>0, <2>1 DEF One
    <3>2. id # Bubble /\ (file' = <<>> \/ file'[Len(file')].pc # id.pc)
      BY <2>1, <3>1 DEF Unentered
    <3>3. file' = <<>>
      BY <3>2, TrackIs
    <3>4. id.pc > Offset + Len(reported')
      <4>1. Pending(id)
        BY <3>2 DEF InOrder, PipelineInOrder
      <4>2. id.pc \in Int /\ id.pc # mem.pc /\ id.pc # wbPc
        BY <3>2, PlacesAre
      <4> QED BY <4>1, <4>2, MovesIs, TrackInOrder
    <3>5. Len(file') = 0
      BY <3>3
    <3>6. Len(reported') = Entered
      <4>1. \A r, f, e \in Int : r + f = e /\ f = 0 => r = e
        OBVIOUS
      <4> QED BY <1>0, <3>5, <4>1
    <3>7. id.pc = nextPc - 1 /\ id.pc \in Int
      BY <3>2, PlacesAre
    <3> QED BY <1>0, <3>4, <3>6, <3>7
  <2>2. CASE exe' = id /\ Fetch
    <3>1. CASE id' = Bubble /\ nextPc' = nextPc
      BY <1>0, <3>1 DEF One, Unentered
    <3>2. CASE id' # Bubble /\ nextPc' = nextPc + 1 /\ id'.pc = nextPc
      <4>1. ASSUME file' # <<>>
            PROVE  file'[Len(file')].pc # id'.pc
        <5>1. Len(file') \in 1..Len(file')
          <6>1. file' \in Seq(Entries)
            BY TrackIs
          <6> QED BY <4>1, <6>1
        <5>2. file'[Len(file')].pc = Offset + Len(reported') + Len(file')
          BY <5>1, MovesIs, TrackInOrder DEF InPlace
        <5>3. Offset + Len(reported') + Len(file') = nextPc - 1
          <6>1. \A o, a, b \in Int : o + a + b = o + (a + b)
            OBVIOUS
          <6>2. Len(reported') \in Int /\ Len(file') \in Int /\ Offset \in Int
            BY <1>0
          <6>3. Offset + Len(reported') + Len(file') = Offset + (Len(reported') + Len(file'))
            BY <6>1, <6>2, Zenon
          <6> QED BY <1>0, <6>3, Zenon
        <5> QED BY <1>0, <3>2, <5>2, <5>3
      <4>2. Unentered'
        BY <3>2, <4>1 DEF Unentered
      <4> QED BY <1>0, <3>2, <4>2 DEF One
    <3> QED BY <2>2, <3>1, <3>2, FetchIs
  <2> QED BY <2>1, <2>2, MovesIs
<1>3. Entered' = (Len(reported') + Len(file')) + One(Unentered')
  BY DEF Entered, One
<1>4. Entered' = Entered + (nextPc' - nextPc)
  BY <1>0, <1>2, <1>3
<1>5. Offset' = Offset
  <2>1. Offset' = nextPc' - 1 - Entered'
    BY DEF Offset
  <2>2. Entered \in Int /\ nextPc \in Int /\ nextPc' \in Int
    BY <1>0, <1>1
  <2>3. nextPc' - 1 - (Entered + (nextPc' - nextPc)) = nextPc - 1 - Entered
    <3>1. \A a, b, c \in Int : b - 1 - (c + (b - a)) = a - 1 - c
      OBVIOUS
    <3> QED BY <2>2, <3>1, Zenon
  <2>4. Offset = nextPc - 1 - Entered
    BY DEF Offset
  <2> QED BY <1>4, <2>1, <2>3, <2>4, Zenon
<1> QED BY <1>1, <1>4, <1>5

\* Nothing of the path is missing in the row.
LEMMA EnteredIs ==
  ASSUME TrackerAssumption, TypeOK, Path, InOrder
  PROVE  issued \in Nat /\ issued <= Entered
<1>0. /\ Entered \in Nat /\ Offset \in Int /\ Offset + Entered = nextPc - 1
      /\ issued \in Nat /\ nextPc \in Nat /\ onPath \in BOOLEAN
  BY RowIs DEF TypeOK
<1>1. CASE onPath
  BY <1>0, <1>1 DEF InOrder, PipelineInOrder
<1>2. CASE ~onPath
  <2>1. PICK i \in {id, exe, mem} : i.taken
    BY <1>2 DEF Path
  <2>2. i \in Instrs /\ i # Bubble
    BY <2>1, Stages, InstrIs
  <2>3. i.n = issued /\ i.n = NumberAt(i.pc)
    BY <2>1, <2>2 DEF InOrder, PipelineInOrder
  <2>4. i.pc \in Int /\ i.pc <= nextPc - 1
    BY <2>1, <2>2, PlacesAre
  <2>5. issued >= 1
    <3>1. CASE i \in {id, exe}
      BY <2>2, <3>1 DEF Path
    <3>2. CASE i = mem
      <4>1. i.n # 0
        BY <2>2, <3>2 DEF InOrder, PipelineInOrder
      <4> QED BY <1>0, <2>3, <4>1
    <3> QED BY <2>1, <3>1, <3>2
  <2>6. issued = i.pc - Offset
    BY <1>0, <2>3, <2>4, <2>5 DEF NumberAt
  <2> QED BY <1>0, <2>4, <2>6
<1> QED BY <1>1, <1>2

\* A number is for good.
LEMMA NumbersKept ==
  ASSUME TrackerAssumption, TypeOK, Path, InOrder, Track, Advance \/ Wait
  PROVE  \A pc \in Int : pc <= nextPc - 1 => NumberNext(pc) = NumberAt(pc)
<1>0. /\ Entered \in Nat /\ Offset \in Int /\ Offset + Entered = nextPc - 1
      /\ issued \in Nat /\ nextPc \in Nat /\ Offset' = Offset
  BY RowIs, OffsetKept DEF TypeOK
<1>1. CASE issued' = issued
  BY <1>0, <1>1 DEF NumberNext, NumberAt
<1>2. CASE onPath /\ issued' = issued + 1
  <2>1. Entered = issued
    BY <1>2 DEF InOrder, PipelineInOrder
  <2>2. ASSUME NEW pc \in Int, pc <= nextPc - 1
        PROVE  pc - Offset <= issued /\ pc - Offset <= issued'
    BY <1>0, <1>2, <2>1, <2>2
  <2> QED BY <1>0, <2>2 DEF NumberNext, NumberAt
<1>3. issued' = issued \/ (onPath /\ issued' = issued + 1)
  BY MovesIs, FetchIs
<1> QED BY <1>1, <1>2, <1>3

\* The queue and the record after the clock.
LEMMA FileKept ==
  ASSUME TrackerAssumption, TypeOK, Path, InOrder, Track, Advance \/ Wait
  PROVE  ReportedInOrder' /\ FileInOrder'
<1>0. ~mem.taken
  BY MovesIs
<1>1. /\ Entered \in Nat /\ Offset \in Int /\ Offset + Entered = nextPc - 1
      /\ issued \in Nat /\ nextPc \in Nat /\ Offset' = Offset
  BY RowIs, OffsetKept DEF TypeOK
<1>2. /\ Len(reported') \in Nat /\ Len(file') \in Nat
      /\ Len(reported') + Len(file') = Entered
      /\ Len(reported') <= issued
      /\ \A i \in 1..Len(reported') : reported'[i] = [n |-> i, result |-> i]
      /\ \A i \in 1..Len(file') : InPlace(file'[i], Offset + Len(reported') + i)
  BY <1>0, TrackInOrder
<1>3. issued' \in Nat /\ issued <= issued'
  <2>1. issued' = issued \/ issued' = issued + 1
    BY MovesIs, FetchIs
  <2> QED BY <1>1, <2>1
<1>4. ReportedInOrder'
  BY <1>1, <1>2, <1>3 DEF ReportedInOrder
<1>5. ASSUME NEW i \in 1..Len(file')
      PROVE  /\ file'[i].pc = Offset' + Len(reported') + i
             /\ file'[i].n = NumberNext(file'[i].pc)
             /\ ~file'[i].branchHazard
             /\ file'[i].finished => file'[i].result = file'[i].n /\ file'[i].n # 0
  <2>1. InPlace(file'[i], Offset + Len(reported') + i)
    BY <1>2
  <2>2. Offset + Len(reported') + i \in Int /\ Offset + Len(reported') + i <= nextPc - 1
    BY <1>1, <1>2
  <2>3. NumberNext(Offset + Len(reported') + i) = NumberAt(Offset + Len(reported') + i)
    BY <2>2, NumbersKept
  <2> QED BY <1>1, <2>1, <2>3 DEF InPlace
<1>6. FileInOrder'
  BY <1>5 DEF FileInOrder, NumberNext, NumberAt
<1> QED BY <1>4, <1>6

\* The instruction that comes into ID is the next of the row.
LEMMA FetchedInOrder ==
  ASSUME TrackerAssumption, TypeOK, Path, InOrder, Track, Advance \/ Wait, exe' = id, Fetch
  PROVE  /\ id' # Bubble => id'.n = NumberNext(id'.pc) /\ PendingNext(id')
         /\ id'.taken => id'.n = issued'
         /\ onPath' => Entered' = issued'
<1>0. /\ Entered \in Nat /\ Offset \in Int /\ Offset + Entered = nextPc - 1
      /\ issued \in Nat /\ nextPc \in Nat /\ Offset' = Offset
      /\ Entered' = Entered + (nextPc' - nextPc)
      /\ issued <= Entered /\ (onPath => Entered = issued)
  BY RowIs, OffsetKept, EnteredIs DEF TypeOK, InOrder, PipelineInOrder
<1>1. /\ Len(reported') \in Nat /\ Len(file') \in Nat
      /\ Len(reported') + Len(file') = Entered
      /\ \A i \in 1..Len(file') : file'[i].pc = Offset + Len(reported') + i
  BY MovesIs, TrackInOrder DEF InPlace
<1>2. PendingNext(id') \/ id'.pc # nextPc
  <2>1. SUFFICES ASSUME id'.pc = nextPc PROVE PendingNext(id')
    OBVIOUS
  <2>2. nextPc > Offset' + Len(reported')
    BY <1>0, <1>1
  <2>3. ASSUME NEW i \in 1..Len(file')
        PROVE  file'[i].pc # nextPc
    <3>1. Offset + Len(reported') + i <= Offset + Entered
      BY <1>0, <1>1
    <3>2. Offset + Len(reported') + i <= nextPc - 1
      BY <1>0, <3>1
    <3>3. Offset + Len(reported') + i # nextPc
      BY <1>0, <1>1, <3>2
    <3> QED BY <1>1, <3>3
  <2> QED BY <2>1, <2>2, <2>3 DEF PendingNext
<1>3. CASE id' = Bubble /\ nextPc' = nextPc /\ onPath' = onPath /\ issued' = issued
  <2>1. ~id'.taken
    BY <1>3, BubbleIs
  <2> QED BY <1>0, <1>3, <2>1
<1>4. CASE /\ onPath /\ nextPc' = nextPc + 1 /\ issued' = issued + 1
           /\ id' # Bubble /\ id'.n = issued' /\ id'.pc = nextPc
  <2>1. nextPc - Offset' = issued'
    BY <1>0, <1>4
  <2>2. NumberNext(nextPc) = issued'
    BY <1>0, <1>4, <2>1 DEF NumberNext
  <2>3. Entered' = issued'
    BY <1>0, <1>4
  <2> QED BY <1>2, <1>4, <2>2, <2>3
<1>5. CASE /\ ~onPath /\ nextPc' = nextPc + 1 /\ onPath' = onPath /\ issued' = issued
           /\ id' # Bubble /\ id'.n = 0 /\ id'.pc = nextPc /\ ~id'.taken
  <2>1. ~(nextPc - Offset' <= issued')
    BY <1>0, <1>5
  <2>2. NumberNext(nextPc) = 0
    BY <2>1 DEF NumberNext
  <2> QED BY <1>2, <1>5, <2>2
<1> QED BY <1>3, <1>4, <1>5, FetchIs

\* The instructions in the pipeline, old and new, are where their numbers say.
LEMMA StagesKept ==
  ASSUME TrackerAssumption, TypeOK, Path, InOrder, Track, Advance \/ Wait
  PROVE  /\ \A i \in {id, exe, mem} \cup units : i # Bubble => i.n = NumberNext(i.pc)
         /\ \A i \in {id, exe} \cup units : i # Bubble => PendingNext(i)
         /\ \A i \in {id', exe'} : i # Bubble => /\ i.n = NumberNext(i.pc) /\ PendingNext(i)
                                                 /\ mem.pc < i.pc
         /\ \A i \in {id', exe', exe} : i.taken => i.n = issued'
         /\ onPath' => Entered' = issued'
<1>0. ~mem.taken /\ Offset' = Offset
  BY MovesIs, OffsetKept
<1>1. \A i \in {id, exe} \cup units : i # Bubble => PendingNext(i)
  BY <1>0, PendingKept
<1>2. \A i \in {id, exe, mem} \cup units : i # Bubble => i.n = NumberNext(i.pc)
  <2>1. \A i \in {id, exe, mem} \cup units : i # Bubble => i.pc \in Int /\ i.pc <= nextPc - 1
    BY PlacesAre
  <2>2. \A i \in {id, exe, mem} \cup units : i # Bubble => i.n = NumberAt(i.pc)
    BY DEF InOrder, PipelineInOrder
  <2> QED BY <2>1, <2>2, NumbersKept
<1>3. \A i \in {id, exe} : i.taken => i.n = issued'
  <2>1. \A i \in {id, exe} : i.taken => ~onPath /\ i.n = issued
    BY DEF Path, InOrder, PipelineInOrder
  <2>2. ~onPath => issued' = issued
    BY MovesIs, FetchIs
  <2> QED BY <2>1, <2>2
<1>4. /\ id # Bubble => mem.pc < id.pc
      /\ exe # Bubble => mem.pc < exe.pc
      /\ ~Bubble.taken
  BY PlacesAre, BubbleIs
<1>5. CASE /\ id' = id /\ (exe' = exe \/ exe' = Bubble)
           /\ nextPc' = nextPc /\ onPath' = onPath /\ issued' = issued
  <2>1. onPath' => Entered' = issued'
    <3>1. Entered' = Entered
      <4>1. Entered \in Int /\ nextPc \in Int /\ Entered' = Entered + (nextPc - nextPc)
        BY <1>5, OffsetKept, RowIs, PlacesAre
      <4> QED BY <4>1
    <3> QED BY <1>5, <3>1 DEF InOrder, PipelineInOrder
  <2> QED BY <1>1, <1>2, <1>3, <1>4, <1>5, <2>1
<1>6. CASE exe' = id /\ Fetch
  <2>1. /\ id' # Bubble => id'.n = NumberNext(id'.pc) /\ PendingNext(id')
        /\ id'.taken => id'.n = issued'
        /\ onPath' => Entered' = issued'
    BY <1>6, FetchedInOrder
  <2>2. id' # Bubble => mem.pc < id'.pc
    <3>1. SUFFICES ASSUME id' # Bubble PROVE mem.pc < id'.pc
      OBVIOUS
    <3>2. id'.pc = nextPc /\ id' \in Instrs
      BY <1>6, <3>1, FetchIs
    <3>3. nextPc >= 1
      BY <3>1, <3>2, InstrIs
    <3>4. mem.pc = 0 \/ mem.pc <= nextPc - 1
      <4>1. mem = Bubble \/ mem.pc <= LeftExe
        BY PlacesAre
      <4> QED BY <4>1, BubbleIs, PlacesAre
    <3> QED BY <3>2, <3>3, <3>4, PlacesAre
  <2> QED BY <1>1, <1>2, <1>3, <1>4, <1>6, <2>1, <2>2
<1> QED BY <1>5, <1>6, MovesIs

\* If what comes into MEM and the units keeps its place, the pipeline does.
LEMMA PipelineKept ==
  ASSUME TrackerAssumption, TypeOK, Path, InOrder, Track, Advance \/ Wait,
         mem' \in {exe, mem, Bubble} \cup units, units' \subseteq units \cup {exe},
         mem' # Bubble => mem'.pc <= LeftExe' /\ mem'.n # 0,
         mem'.taken => mem' = exe /\ exe.pc = LeftExe' /\ \A u \in units' : u.pc < exe.pc,
         \A u \in units' : u # Bubble /\ u.pc <= LeftExe' /\ u.pc # mem'.pc /\ u.n # 0,
         \A u, v \in units' : u.pc = v.pc => u = v
  PROVE  PipelineInOrder'
<1>1. \A i \in {id', exe', mem'} \cup units' : i # Bubble => i.n = NumberNext(i.pc)
  BY StagesKept
<1>2. \A i \in {id', exe', mem'} : i.taken => i.n = issued'
  BY StagesKept
<1>3. \A i \in {id', exe'} \cup units' : i # Bubble => PendingNext(i)
  BY StagesKept
<1>4. mem'.taken => /\ mem'.pc = LeftExe' /\ PendingNext(mem')
                    /\ \A u \in units' : u.pc < mem'.pc
  <2>1. mem'.taken => exe # Bubble
    BY BubbleIs
  <2> QED BY <2>1, StagesKept
<1>5. onPath' => Entered' = issued'
  BY StagesKept
<1> QED
  BY <1>1, <1>2, <1>3, <1>4, <1>5
  DEF PipelineInOrder, PendingNext, Pending, NumberNext, NumberAt

\* What is in MEM goes to WB, and if it is a load its entry gets the word there.
LEMMA WbKept ==
  ASSUME TrackerAssumption, TypeOK, Path, InOrder, Track, Advance \/ Wait,
         mem'.taken => mem' = exe, units' \subseteq units \cup {exe},
         \A u \in units' : u # Bubble,
         wb' = mem \/ Kind(mem) # "load"
  PROVE  WbInOrder'
<1>1. wbPc' = mem.pc /\ mem.pc \in Int
  BY PlacesAre DEF Track
<1>2. \A i \in {id', exe'} : i # Bubble => mem.pc < i.pc
  BY StagesKept
<1>3. exe # Bubble => mem.pc # exe.pc
  BY <1>1, PlacesAre
<1>4. mem'.taken => mem.pc # mem'.pc
  BY <1>3, BubbleIs
<1>5. \A u \in units' : mem.pc # u.pc
  BY <1>3, PlacesAre
<1>6. ASSUME NEW i \in 1..Len(file'), file'[i].pc = mem.pc, ~file'[i].finished
      PROVE  wb'.n = file'[i].n /\ wb'.n # 0
  <2>1. Kind(mem) = "load" /\ InPlace(file'[i], Offset + Len(reported') + i)
    BY <1>6, MovesIs, TrackInOrder
  <2>2. mem # Bubble
    BY <2>1, BubbleIs
  <2>3. mem.n = NumberAt(mem.pc) /\ mem.n # 0
    BY <2>2 DEF InOrder, PipelineInOrder
  <2>4. file'[i].n = mem.n
    BY <1>6, <2>1, <2>3 DEF InPlace
  <2> QED BY <2>1, <2>3, <2>4
<1> QED BY <1>1, <1>2, <1>4, <1>5, <1>6 DEF WbInOrder

LEMMA AdvanceInOrder ==
  ASSUME TrackerAssumption, TypeOK, Path, InOrder, Track, Advance
  PROVE  InOrder'
<1>0. ~mem.taken /\ wb' = mem /\ ~Bubble.taken
  BY BubbleIs DEF Advance
<1>1. /\ LeftId \in Int /\ LeftExe \in Int /\ LeftExe <= LeftId
      /\ exe # Bubble => exe.pc \in Int /\ exe.pc = LeftId /\ LeftExe < exe.pc
      /\ \A u \in units : u.pc \in Int /\ u.pc <= LeftExe /\ u # Bubble
  BY PlacesAre
<1>2. /\ \A u \in units : u.n # 0 /\ ~u.taken /\ u.pc # Bubble.pc
      /\ \A u, v \in units : u.pc = v.pc => u = v
      /\ exe # Bubble => exe.n # 0
  <2>1. \A u \in units : u.pc # 0
    BY PlacesAre, InstrIs
  <2> QED BY <1>0, <2>1, BubbleIs DEF InOrder, PipelineInOrder, Path
<1>3. ASSUME PipelineInOrder', WbInOrder'
      PROVE  InOrder'
  BY <1>3, FileKept DEF InOrder
<1>4. CASE Kind(exe) # "long" /\ mem' = exe /\ UNCHANGED units /\ Issue
  <2>1. LeftExe' = LeftId
    BY <1>0, <1>4, IssueIs
  <2>2. \A u \in units : u.pc # exe.pc /\ u.pc <= LeftId
    <3>1. CASE exe = Bubble
      BY <1>1, <1>2, <3>1
    <3>2. CASE exe # Bubble
      BY <1>1, <3>2
    <3> QED BY <3>1, <3>2
  <2>3. exe.taken => exe.pc = LeftId /\ \A u \in units : u.pc < exe.pc
    <3>1. exe.taken => exe # Bubble
      BY <1>0
    <3> QED BY <1>1, <3>1
  <2>4. exe # Bubble => exe.pc <= LeftId
    BY <1>1
  <2>5. PipelineInOrder'
    BY <1>1, <1>2, <1>4, <2>1, <2>2, <2>3, <2>4, PipelineKept
  <2>6. WbInOrder'
    BY <1>0, <1>1, <1>4, WbKept
  <2> QED BY <1>3, <2>5, <2>6
<1>5. CASE /\ Kind(exe) = "long" /\ Cardinality(units) < UnitSlots
           /\ mem' = Bubble /\ units' = units \cup {exe} /\ Issue
  <2>1. LeftExe' = LeftId
    BY <1>0, <1>5, IssueIs
  <2>2. exe # Bubble
    BY <1>5, BubbleIs
  <2>3. /\ \A u \in units' : u # Bubble /\ u.pc <= LeftId /\ u.n # 0
        /\ \A u \in units' : u.pc # Bubble.pc
    <3>1. exe.pc # 0
      BY <2>2, Stages, InstrIs
    <3> QED BY <1>1, <1>2, <1>5, <2>2, <3>1, BubbleIs
  <2>4. \A u, v \in units' : u.pc = v.pc => u = v
    <3>1. \A u \in units : u.pc # exe.pc
      BY <1>1, <2>2
    <3> QED BY <1>2, <1>5, <3>1
  <2>5. PipelineInOrder'
    BY <1>0, <1>5, <2>1, <2>3, <2>4, PipelineKept
  <2>6. WbInOrder'
    BY <1>0, <1>5, <2>3, WbKept
  <2> QED BY <1>3, <2>5, <2>6
<1>6. ASSUME NEW u \in units, mem' = u, units' = units \ {u}, LeftExe' = LeftExe
      PROVE  InOrder'
  <2>1. \A v \in units' : v # Bubble /\ v.pc <= LeftExe' /\ v.pc # mem'.pc /\ v.n # 0
    BY <1>1, <1>2, <1>6
  <2>2. mem'.pc <= LeftExe' /\ mem'.n # 0 /\ ~mem'.taken
    BY <1>1, <1>2, <1>6
  <2>3. /\ mem' \in {exe, mem, Bubble} \cup units /\ units' \subseteq units \cup {exe}
        /\ \A v, w \in units' : v.pc = w.pc => v = w
    BY <1>2, <1>6
  <2>4. PipelineInOrder'
    BY <2>1, <2>2, <2>3, PipelineKept
  <2>5. WbInOrder'
    BY <1>0, <2>1, <2>2, <2>3, WbKept
  <2> QED BY <1>3, <2>4, <2>5
<1>7. ASSUME exe = Bubble, Issue
      PROVE  LeftExe' = LeftExe
  <2>1. LeftExe = LeftId
    BY <1>1, <1>7 DEF LeftExe, One
  <2> QED BY <1>0, <1>7, <2>1, IssueIs
<1>8. ASSUME UNCHANGED <<exe, id, fetchVars>>
      PROVE  LeftExe' = LeftExe
  BY <1>8 DEF LeftExe, LeftId, fetchVars
<1> QED BY <1>4, <1>5, <1>6, <1>7, <1>8 DEF Advance

LEMMA WaitInOrder ==
  ASSUME TrackerAssumption, TypeOK, Path, InOrder, Track, Wait, ~LoadWaits
  PROVE  InOrder'
<1>1. /\ ~mem.taken /\ Kind(mem) # "load" /\ mem' = mem /\ wb' = wb /\ units' = units
  BY MovesIs DEF Wait, LoadWaits, coreVars
<1>2. LeftExe' = LeftExe
  BY DEF Wait, coreVars, fetchVars, LeftExe, LeftId
<1>3. PipelineInOrder'
  BY <1>1, <1>2, PipelineKept DEF InOrder, PipelineInOrder
<1>4. WbInOrder'
  BY <1>1, WbKept DEF InOrder, PipelineInOrder
<1> QED BY <1>3, <1>4, FileKept DEF InOrder

-----------------------------------------------------------------------------
(* The order, when a taken branch flushes the pipeline.                    *)

\* A taken branch at the front of the queue is the last of the path so far; behind it
\* there are the wrong path in ID and EXE, and no unit is at work.
LEMMA BranchAtFront ==
  ASSUME TrackerAssumption, TypeOK, Path, InOrder, mem.taken, ~BranchOvertakes
  PROVE  /\ Len(file) >= 1 /\ issued = Len(reported) + 1 /\ mem.n = issued
         /\ mem.pc = Offset + Len(reported) + 1
         /\ Len(Pushed) <= 3 /\ units = {}
<1>0. /\ Entered \in Nat /\ Offset \in Int /\ Offset + Entered = nextPc - 1
      /\ issued \in Nat /\ nextPc \in Nat /\ Len(reported) \in Nat /\ Len(file) \in Nat
  BY RowIs DEF TypeOK
<1>1. file # <<>> /\ file[1].n = mem.n
  BY DEF BranchOvertakes
<1>2. Len(file) >= 1
  BY <1>0, <1>1, Stages, ElementIs
<1>3. mem # Bubble /\ mem.pc \in Int
  BY BubbleIs, PlacesAre
<1>4. /\ mem.n = issued /\ mem.n # 0 /\ mem.n = NumberAt(mem.pc) /\ mem.pc = LeftExe
      /\ \A u \in units : u.pc < mem.pc /\ u # Bubble /\ Pending(u)
  BY <1>3 DEF InOrder, PipelineInOrder
<1>5. issued = Len(reported) + 1
  <2>1. file[1].n = NumberAt(Offset + Len(reported) + 1)
    BY <1>0, <1>2 DEF InOrder, FileInOrder
  <2>2. Offset + Len(reported) + 1 = Offset + (Len(reported) + 1) /\ Len(reported) + 1 \in Int
    BY <1>0
  <2>3. NumberAt(Offset + (Len(reported) + 1)) =
          IF Len(reported) + 1 <= issued THEN Len(reported) + 1 ELSE 0
    BY <2>2, NumberIs, Zenon
  <2> QED BY <1>1, <1>4, <2>1, <2>2, <2>3
<1>6. mem.pc = Offset + Len(reported) + 1
  <2>1. mem.pc - Offset = issued
    BY <1>4 DEF NumberAt
  <2>2. \A a, o, n \in Int : a - o = n + 1 => a = o + n + 1
    OBVIOUS
  <2>3. mem.pc - Offset = Len(reported) + 1 /\ Len(reported) \in Int
    BY <1>0, <1>5, <2>1
  <2> QED BY <1>0, <1>3, <2>2, <2>3
<1>7. Len(Pushed) <= 3
  <2>1. /\ LeftExe = nextPc - 1 - One(id # Bubble) - One(exe # Bubble)
        /\ One(id # Bubble) \in 0..1 /\ One(exe # Bubble) \in 0..1
    BY DEF LeftExe, LeftId, One
  <2>2. Len(reported) + Len(Pushed) = Entered /\ Len(Pushed) \in Nat
    BY PushedInOrder, PushedIs
  <2>3. Offset + Entered <= mem.pc + 2
    BY <1>0, <1>3, <1>4, <2>1
  <2> QED BY <1>0, <1>3, <1>6, <2>2, <2>3
<1>8. units = {}
  <2>1. SUFFICES ASSUME NEW u \in units PROVE FALSE
    OBVIOUS
  <2>2. u.pc > Offset + Len(reported) /\ u.pc < mem.pc /\ u.pc \in Int
    BY <1>4, PlacesAre DEF Pending
  <2> QED BY <1>0, <1>6, <2>2
<1> QED BY <1>2, <1>4, <1>5, <1>6, <1>7, <1>8

\* The branch is reported and takes the wrong path with it: the queue is as empty as the
\* pipeline.
LEMMA FlushInOrder ==
  ASSUME TrackerAssumption, TypeOK, Path, InOrder, Track, Flush, ~BranchOvertakes
  PROVE  InOrder'
<1> DEFINE q == Matched(Pushed)
           r == Len(reported)
<1>0. mem.taken
  BY DEF Flush
<1>1. /\ Len(file) >= 1 /\ issued = r + 1 /\ mem.n = issued
      /\ mem.pc = Offset + r + 1 /\ Len(Pushed) <= 3 /\ units = {}
      /\ r \in Nat /\ Offset \in Int
  BY <1>0, BranchAtFront, RowIs
<1>2. /\ Pushed \in Seq(Entries) /\ Len(Pushed) \in Nat /\ 1 \in 1..Len(Pushed)
      /\ \A i \in 1..Len(Pushed) : Pushed[i] \in Entries /\ Pushed[i].pc = Offset + r + i
      /\ q \in Seq(Entries) /\ Len(q) = Len(Pushed)
  <2>1. Pushed \in Seq(Entries) /\ Len(Pushed) \in Nat /\ Len(Pushed) = Len(file) + One(Unentered)
    BY PushedIs
  <2>2. Len(Pushed) >= 1
    BY <1>1, <2>1, RowIs
  <2> QED BY <2>1, <2>2, PushedInOrder, MatchedIs, ElementIs DEF InPlace
<1>3. AwaitsMem(Pushed[1])
  <2>1. Pending(mem) /\ wbPc # mem.pc
    BY <1>0 DEF InOrder, PipelineInOrder, WbInOrder
  <2>2. Pushed[1].pc = mem.pc
    BY <1>1, <1>2
  <2>3. ~Pushed[1].finished
    BY <1>2, <2>1, <2>2, PushedInOrder
  <2> QED BY <2>1, <2>2, <2>3 DEF AwaitsMem, AwaitsWb
<1>4. q[1] = FromMem(Pushed[1])
  <2>1. \A i \in 1..Len(Pushed) : AwaitsMem(Pushed[i]) => i = 1
    BY <1>1, <1>2 DEF AwaitsMem
  <2> QED BY <1>2, <1>3, <2>1, MatchedOne
<1>5. /\ q[1].finished /\ q[1].branchHazard
      /\ q[1].result = r + 1 /\ q[1].n = r + 1
  <2>1. Kind(mem) # "load"
    BY <1>0 DEF Path
  <2>2. Pushed[1].n = r + 1
    <3>1. Pushed[1].n = NumberAt(Offset + r + 1)
      BY <1>2, PushedInOrder DEF InPlace
    <3>2. Offset + r + 1 = Offset + (r + 1) /\ r + 1 \in Int /\ r + 1 <= issued
      BY <1>1
    <3>3. NumberAt(Offset + (r + 1)) = IF r + 1 <= issued THEN r + 1 ELSE 0
      BY <3>2, NumberIs, Zenon
    <3> QED BY <3>1, <3>2, <3>3
  <2> QED BY <1>0, <1>1, <1>2, <1>4, <2>1, <2>2, ResultType
<1>6. Report(q)
  BY DEF Track
<1> HIDE DEF q
<1>7. q # <<>> /\ [n |-> q[1].n, result |-> q[1].result] \in Records
  <2>1. q # <<>> /\ q[1] \in Entries
    BY <1>2, ElementIs
  <2> QED BY <2>1 DEF Entries, Records
<1>8. /\ reported' = Append(reported, [n |-> q[1].n, result |-> q[1].result])
      /\ file' = Removed(q)
  BY <1>5, <1>6, <1>7 DEF Report
<1>9. file' = <<>>
  <2>1. file' \in Seq(Entries) /\ Len(file') = IF Len(q) <= 3 THEN 0 ELSE Len(q) - 3
    BY <1>2, <1>5, <1>7, <1>8, RemovedIs
  <2>2. Len(q) <= 3
    BY <1>1, <1>2
  <2> QED BY <2>1, <2>2, ElementIs
<1>10. ReportedInOrder'
  <2>1. /\ Len(reported') = r + 1
        /\ \A i \in 1..r + 1 : reported'[i] = IF i <= r THEN reported[i]
                                              ELSE [n |-> q[1].n, result |-> q[1].result]
    BY <1>7, <1>8, Stages, Appended
  <2>2. \A i \in 1..r : reported[i] = [n |-> i, result |-> i]
    BY DEF InOrder, ReportedInOrder
  <2>3. ASSUME NEW i \in 1..r + 1
        PROVE  reported'[i] = [n |-> i, result |-> i]
    <3>1. CASE i <= r
      <4>1. i \in 1..r /\ reported'[i] = reported[i]
        BY <1>1, <2>1, <3>1
      <4> QED BY <2>2, <4>1
    <3>2. CASE i = r + 1
      <4>1. ~(i <= r)
        BY <1>1, <3>2
      <4>2. reported'[i] = [n |-> q[1].n, result |-> q[1].result]
        BY <2>1, <4>1
      <4> QED BY <1>5, <3>2, <4>2
    <3> QED BY <1>1, <3>1, <3>2
  <2>4. issued' = r + 1
    BY <1>1 DEF Flush
  <2> QED BY <1>1, <2>1, <2>3, <2>4 DEF ReportedInOrder
<1>11. /\ id' = Bubble /\ exe' = Bubble /\ mem' = Bubble /\ units' = {} /\ issued' = r + 1
       /\ ~Bubble.taken
  BY <1>1, BubbleIs DEF Flush
<1>12. Len(file') = 0 /\ Entered' = Len(reported')
  <2>1. Len(file') = 0 /\ One(Unentered') = 0 /\ Len(reported') \in Nat
    BY <1>9, <1>11, TrackIs, ElementIs DEF Unentered, One
  <2>2. Entered' = Len(reported') + Len(file') + One(Unentered')
    BY DEF Entered, One
  <2> QED BY <2>1, <2>2
<1>13. Len(reported') = r + 1
  BY <1>7, <1>8, Stages, Appended
<1>14. PipelineInOrder'
  BY <1>11, <1>12, <1>13 DEF PipelineInOrder
<1>15. FileInOrder' /\ WbInOrder'
  BY <1>11, <1>12 DEF FileInOrder, WbInOrder
<1> QED BY <1>10, <1>14, <1>15 DEF InOrder

-----------------------------------------------------------------------------
(* The invariant.                                                          *)

LEMMA TrackerInit == TrackerAssumption /\ Init => TrackerInv
<1> SUFFICES ASSUME TrackerAssumption, Init PROVE TrackerInv
  OBVIOUS
<1>1. /\ Bubble \in Instrs /\ ~Bubble.taken /\ id = Bubble /\ exe = Bubble /\ mem = Bubble
      /\ wb = Bubble /\ units = {} /\ onPath /\ issued = 0 /\ Entry \in Nat
      /\ file = <<>> /\ reported = <<>> /\ MaxIssued \in Nat
  BY BubbleIs DEF Init, TrackerAssumption
<1>2. Len(file) = 0 /\ Len(reported) = 0
  BY <1>1
<1>3. TypeOK
  BY <1>1, <1>2 DEF Init, TypeOK
<1>4. Path
  BY <1>1 DEF Path
<1>5. SizeInv
  BY <1>1, <1>2 DEF SizeInv, Spare, Unentered, One
<1>6. Entered = 0
  BY <1>1, <1>2 DEF Entered, Unentered, One
<1>7. InOrder
  BY <1>1, <1>2, <1>6 DEF InOrder, ReportedInOrder, FileInOrder, PipelineInOrder, WbInOrder
<1> QED BY <1>3, <1>4, <1>5, <1>7 DEF TrackerInv

LEMMA ClockKeeps ==
  ASSUME TrackerAssumption, TrackerInv, Clock
  PROVE  TrackerInv'
<1>0. TypeOK /\ Path /\ SizeInv /\ Track /\ (Advance \/ Flush \/ Wait)
  BY DEF TrackerInv, Clock
<1>1. /\ nextPc' \in Nat /\ onPath' \in BOOLEAN /\ issued' \in 0..MaxIssued
      /\ {id', exe', mem', wb'} \subseteq Instrs /\ units' \subseteq Instrs
      /\ Path'
  BY <1>0, CoreStep
<1>2. /\ file' \in Seq(Entries) /\ Len(file') \in Nat /\ reported' \in Seq(Records)
      /\ wbPc' \in DOMAIN Program \cup {0}
  BY <1>0, TrackIs
<1>3. SizeInv'
  BY <1>0, SizeStep
<1>4. Len(file') <= 3 * MaxIssued
  <2>1. One(Unentered') \in 0..1 /\ Spare' \in 0..2
    BY DEF Spare, One
  <2>2. Len(file') + One(Unentered') + Spare' <= 3 * issued'
    BY <1>3 DEF SizeInv
  <2>3. Len(file') <= 3 * issued'
    BY <1>1, <1>2, <2>1, <2>2
  <2>4. \A n \in 0..MaxIssued : 3 * n <= 3 * MaxIssued
    BY DEF TrackerAssumption
  <2>5. 3 * issued' <= 3 * MaxIssued
    BY <1>1, <2>4
  <2>6. Len(file') \in Int /\ 3 * issued' \in Int /\ 3 * MaxIssued \in Int
    BY <1>1, <1>2 DEF TrackerAssumption
  <2> QED BY <2>3, <2>5, <2>6
<1>5. clean' \in BOOLEAN
  BY DEF Clock
<1>6. TypeOK'
  BY <1>1, <1>2, <1>4, <1>5 DEF TypeOK, Entries, Records
<1>7. ASSUME clean'
      PROVE  InOrder'
  <2>1. clean /\ InOrder
    BY <1>7 DEF Clock, TrackerInv
  <2>2. \/ Advance
        \/ Flush /\ ~BranchOvertakes
        \/ Wait /\ ~LoadWaits
    BY <1>7 DEF Clock
  <2> QED BY <1>0, <2>1, <2>2, AdvanceInOrder, FlushInOrder, WaitInOrder
<1> QED BY <1>1, <1>3, <1>6, <1>7 DEF TrackerInv

LEMMA ResetKeeps ==
  ASSUME TrackerAssumption, TrackerInv, Reset
  PROVE  TrackerInv'
<1>0. /\ TypeOK /\ Path /\ SizeInv /\ (clean => InOrder)
      /\ issued \in 0..MaxIssued /\ MaxIssued \in Nat
  BY DEF TrackerInv, TypeOK, TrackerAssumption
<1>1. /\ Bubble \in Instrs /\ ~Bubble.taken /\ Bubble.pc = 0
      /\ id' = Bubble /\ exe' = Bubble /\ mem' = Bubble /\ wb' = Bubble /\ units' = {}
      /\ nextPc' = Entry /\ onPath' = TRUE /\ wbPc' = 0 /\ Entry \in Nat
      /\ file' = file /\ reported' = reported /\ clean' \in BOOLEAN
  BY BubbleIs DEF Reset, TrackerAssumption
<1>2. /\ file \in Seq(Entries) /\ Len(file) \in Nat /\ Len(reported) \in Nat
      /\ reported \in Seq(Records)
  BY <1>0, Stages
<1>3. ASSUME clean'
      PROVE  file = <<>> /\ issued' = Len(reported) /\ Len(reported) <= issued /\ InOrder
  BY <1>0, <1>3 DEF Reset, InOrder, ReportedInOrder
<1>4. issued' \in 0..MaxIssued
  <2>1. CASE clean'
    BY <1>0, <1>2, <1>3, <2>1
  <2>2. CASE ~clean'
    BY <1>0, <2>2 DEF Reset
  <2> QED BY <2>1, <2>2
<1>5. TypeOK'
  BY <1>0, <1>1, <1>4 DEF TypeOK
<1>6. Path'
  BY <1>1 DEF Path
<1>7. SizeInv'
  <2>1. One(Unentered') = 0 /\ Spare' = 0
    BY <1>1 DEF Unentered, Spare, One
  <2>2. Len(file') <= 3 * issued'
    <3>1. CASE clean'
      <4>1. Len(file') = 0 /\ issued' \in Nat
        BY <1>0, <1>1, <1>3, <1>4, <3>1
      <4>2. \A n \in Nat : 0 <= 3 * n
        OBVIOUS
      <4>3. 0 <= 3 * issued'
        BY <4>1, <4>2
      <4> QED BY <4>1, <4>3, Zenon
    <3>2. CASE ~clean'
      <4>1. One(Unentered) \in 0..1 /\ Spare \in 0..2
        BY DEF Spare, One
      <4>2. Len(file) + One(Unentered) + Spare <= 3 * issued
        BY <1>0 DEF SizeInv
      <4>3. issued' = issued
        BY <3>2 DEF Reset
      <4> QED BY <1>0, <1>1, <1>2, <4>1, <4>2, <4>3
    <3> QED BY <3>1, <3>2
  <2>3. Len(file') + One(Unentered') + Spare' <= 3 * issued'
    BY <1>1, <1>2, <1>4, <2>1, <2>2
  <2> QED BY <2>3 DEF SizeInv
<1>8. ASSUME clean'
      PROVE  InOrder'
  <2>1. Len(file') = 0 /\ file = <<>> /\ issued' = Len(reported') /\ Len(reported') \in Nat
    BY <1>1, <1>2, <1>3, <1>8
  <2>2. Entered' = issued'
    <3>1. One(Unentered') = 0
      BY <1>1 DEF Unentered, One
    <3>2. Entered' = Len(reported') + Len(file') + One(Unentered')
      BY DEF Entered, One
    <3> QED BY <2>1, <3>1, <3>2
  <2>3. ReportedInOrder'
    BY <1>1, <1>3, <1>8, <2>1 DEF ReportedInOrder, InOrder
  <2>4. PipelineInOrder'
    BY <1>1, <2>2 DEF PipelineInOrder
  <2>5. FileInOrder' /\ WbInOrder'
    BY <1>1, <2>1 DEF FileInOrder, WbInOrder
  <2> QED BY <2>3, <2>4, <2>5 DEF InOrder
<1> QED BY <1>5, <1>6, <1>7, <1>8 DEF TrackerInv

LEMMA StutterKeeps ==
  ASSUME TrackerInv, UNCHANGED vars
  PROVE  TrackerInv'
<1>1. /\ nextPc' = nextPc /\ onPath' = onPath /\ issued' = issued
      /\ id' = id /\ exe' = exe /\ mem' = mem /\ wb' = wb /\ units' = units
      /\ wbPc' = wbPc /\ file' = file /\ reported' = reported /\ clean' = clean
  BY DEF vars, coreVars, fetchVars
<1> USE <1>1
<1>2. TypeOK' = TypeOK
  BY DEF TypeOK
<1>3. Path' = Path
  BY DEF Path, LeftId
<1>4. SizeInv' = SizeInv
  BY DEF SizeInv, Spare, Unentered
<1>5. InOrder' = InOrder
  <2>1. Entered' = Entered /\ Offset' = Offset /\ LeftExe' = LeftExe
    BY DEF Entered, Offset, Unentered, LeftExe, LeftId
  <2> QED BY <2>1 DEF InOrder, ReportedInOrder, FileInOrder, PipelineInOrder, WbInOrder,
                      Pending, NumberAt
<1> QED BY <1>2, <1>3, <1>4, <1>5 DEF TrackerInv

\* The queue of the tracker and the stages of the core hold what they should in every
\* state: the inductive invariant of the model (rvfi_tracker_delay.sv:129-234).
THEOREM TrackerInvariant == Spec => []TrackerInv
<1>1. Init => TrackerInv
  BY TrackerInit, TrackerAssumption
<1>2. TrackerInv /\ [Next]_vars => TrackerInv'
  BY ClockKeeps, ResetKeeps, StutterKeeps, TrackerAssumption DEF Next
<1> QED BY <1>1, <1>2, PTL DEF Spec

\* The types, and the bound of inst_file: each instruction of the path is pushed once,
\* however long it stalls in ID, and each taken branch brings at most two others with it
\* (rvfi_tracker_delay.sv:151-157, 229-232).
THEOREM TypeCorrect == Spec => []TypeOK
<1>1. TrackerInv => TypeOK
  BY DEF TrackerInv
<1> QED BY <1>1, TrackerInvariant, PTL

\* Whatever the program, the latencies of the units and the delays of the memory: what the
\* tracker reports is the program in its order, without a gap, each instruction with its
\* own result, and nothing of a wrong path, as long as none of the situations it is not
\* made for has come up (rvfi_tracker_delay.sv:146-193, 213-234).
THEOREM ReportsInOrder == Spec => []ReportsProgram
<1>1. TrackerInv => ReportsProgram
  BY DEF TrackerInv, InOrder, ReportedInOrder, ReportsProgram
<1> QED BY <1>1, TrackerInvariant, PTL
=============================================================================
