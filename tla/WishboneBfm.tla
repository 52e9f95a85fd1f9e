---------------------------- MODULE WishboneBfm ----------------------------
(***************************************************************************)
(* The Wishbone BFM of Soc/wb_bfm: a sequence and its response queue, the  *)
(* master driver and its task send_to_dut, the slave driver and its task   *)
(* responsd_to_master, and the two monitors, all on the interface wb_if.   *)
(*                                                                         *)
(* Simulated time is explicit.  In a time slot the runnable processes run, *)
(* each until it blocks and in any order, on the values of bus; what they  *)
(* assign with <= goes to nextBus and becomes visible when none is         *)
(* runnable, which may make others runnable again.  The clock moves when   *)
(* nothing is left to do.  valid_sb and rest_rf are always assigned and    *)
(* sampled together: they are one sideband tag here, and so are cyc and    *)
(* stb one request line.                                                   *)
(***************************************************************************)
EXTENDS Integers, Sequences, FiniteSets

CONSTANTS
  Addrs,         \* addresses used (the idle bus has address 0)
  Data,          \* data words used (the idle bus has 0)
  Tags,          \* values of the sideband: valid_sb and rest_rf
  Polls,         \* whether an item's sequence calls get_response after it
  MaxTransfers,  \* bound: items of the sequence
  ResponseDepth  \* response_queue_depth of a UVM sequence

ASSUME BfmAssumption ==
  /\ 0 \in Data /\ 0 \in Tags
  /\ Polls \subseteq BOOLEAN
  /\ MaxTransfers \in Nat /\ ResponseDepth \in Nat \ {0}

Monitors == {"master", "slave"}

Processes == {"driver", "responder"} \cup Monitors

VARIABLES
  clk,         \* the level of the clock
  bus,         \* wb_if: [req, addr, we, din, tag, ack, dout]
  nextBus,     \* the same after the pending nonblocking assignments
  woken,       \* processes whose awaited edge has come and that have not run yet
  at,          \* where each process blocks
  seqAt,       \* the sequence: "ready" for its next item, "sent" or "polling"
  responses,   \* its response queue
  polled,      \* history: what get_response returned: [of, rsp]
  sent,        \* history: the items sent
  supplied,    \* history: for each transfer answered, what dout was
  observed     \* history: what each monitor wrote to its analysis port

busVars == <<bus, nextBus>>
seqVars == <<seqAt, responses, polled, sent>>
vars == <<clk, busVars, woken, at, seqVars, supplied, observed>>

Items == [write : BOOLEAN, addr : Addrs, din : Data, tag : Tags, poll : Polls]

IdleBus == [req |-> FALSE, addr |-> 0, we |-> FALSE, din |-> 0, tag |-> 0,
            ack |-> FALSE, dout |-> 0]

Init ==
  /\ clk = FALSE
  /\ bus = IdleBus /\ nextBus = IdleBus
  /\ woken = {}
  /\ at = [p \in Processes |-> IF p = "driver" THEN "item" ELSE "start"]
  /\ seqAt = "ready" /\ responses = <<>> /\ polled = <<>> /\ sent = <<>>
  /\ supplied = <<>> /\ observed = [m \in Monitors |-> <<>>]

-----------------------------------------------------------------------------
(* Simulated time.                                                         *)

\* The edge a process waits for, if it waits for one.
AwaitsRise(p) == at[p] \in {"strobe", "w1", "w2", "w3", "r1", "r2", "r3"}
AwaitsFall(p) == at[p] \in {"start", "drive", "again", "sample"}

\* The level a process waits for has come.
LevelHolds(p) ==
  \/ at[p] = "ack" /\ bus.ack
  \/ at[p] = "release" /\ ~bus.ack
  \/ at[p] = "request" /\ bus.req

Runnable(p) == p \in woken \/ LevelHolds(p)

\* No process can run in this time slot, for the values the bus has now.
Settled == \A p \in Processes : ~Runnable(p)

\* The nonblocking assignments of the slot take effect.
Update ==
  /\ Settled /\ nextBus # bus
  /\ bus' = nextBus
  /\ UNCHANGED <<clk, nextBus, woken, at, seqVars, supplied, observed>>

ClockEdge ==
  /\ Settled /\ nextBus = bus
  /\ clk' = ~clk
  /\ woken' = {p \in Processes : IF clk THEN AwaitsFall(p) ELSE AwaitsRise(p)}
  /\ UNCHANGED <<busVars, at, seqVars, supplied, observed>>

\* Process p runs, to block at label l.
Run(p, l) ==
  /\ Runnable(p)
  /\ at' = [at EXCEPT ![p] = l]
  /\ woken' = woken \ {p}
  /\ UNCHANGED clk

-----------------------------------------------------------------------------
(* The sequence.                                                           *)

\* `uvm_do of the next item; the driver's get_next_item takes it at once, and then
\* send_to_dut waits for the falling edge.
Send(it) ==
  /\ seqAt = "ready" /\ at["driver"] = "item" /\ Len(sent) < MaxTransfers
  /\ sent' = Append(sent, it)
  /\ seqAt' = "sent"
  /\ at' = [at EXCEPT !["driver"] = "drive"]
  /\ UNCHANGED <<clk, busVars, woken, responses, polled, supplied, observed>>

\* get_response blocks until there is a response, and takes the oldest.
Poll ==
  /\ seqAt = "polling" /\ responses # <<>>
  /\ polled' = Append(polled, [of |-> Len(sent), rsp |-> Head(responses)])
  /\ responses' = Tail(responses)
  /\ seqAt' = "ready"
  /\ UNCHANGED <<clk, busVars, woken, at, sent, supplied, observed>>

-----------------------------------------------------------------------------
(* The master driver, in send_to_dut.                                      *)

Item == sent[Len(sent)]

DriveWrite ==
  /\ at["driver"] = "drive" /\ Item.write
  /\ Run("driver", "ack")
  /\ nextBus' = [nextBus EXCEPT !.req = TRUE, !.addr = Item.addr, !.we = TRUE,
                                !.din = Item.din]
  /\ UNCHANGED <<bus, seqVars, supplied, observed>>

DriveRead ==
  /\ at["driver"] = "drive" /\ ~Item.write
  /\ Run("driver", "strobe")
  /\ nextBus' = [nextBus EXCEPT !.req = TRUE, !.addr = Item.addr, !.we = FALSE,
                                !.tag = Item.tag]
  /\ UNCHANGED <<bus, seqVars, supplied, observed>>

AwaitAck ==
  /\ at["driver"] = "strobe"
  /\ Run("driver", "ack")
  /\ UNCHANGED <<busVars, seqVars, supplied, observed>>

AwaitRelease ==
  /\ at["driver"] = "ack"
  /\ Run("driver", "release")
  /\ UNCHANGED <<busVars, seqVars, supplied, observed>>

\* The driver's response: dout and addr of the interface when send_to_dut returns.
Response == [addr |-> bus.addr, data |-> bus.dout]

\* Mutant of PutResponse: the queue has no limit.
PutResponseUnbounded(r) == responses' = Append(responses, r)

\* put_response: a full queue drops it (with an error message).
PutResponse(r) ==
  responses' = IF Len(responses) < ResponseDepth THEN Append(responses, r) ELSE responses

\* The bus is released; the driver answers, finishes the item and waits for the next.
Complete ==
  /\ at["driver"] = "release"
  /\ Run("driver", "item")
  /\ nextBus' =
       IF Item.write
         THEN [nextBus EXCEPT !.req = FALSE, !.addr = 0, !.we = FALSE, !.din = 0,
                              !.tag = Item.tag]
         ELSE [nextBus EXCEPT !.req = FALSE, !.addr = 0]
  /\ PutResponse(Response)
  /\ seqAt' = IF Item.poll THEN "polling" ELSE "ready"
  /\ UNCHANGED <<bus, polled, sent, supplied, observed>>

Driver == DriveWrite \/ DriveRead \/ AwaitAck \/ AwaitRelease \/ Complete

-----------------------------------------------------------------------------
(* The slave driver, in responsd_to_master.                                *)

\* Two falling edges pass before the first request is awaited, and one before each
\* later one.
SlaveWaits ==
  /\ at["responder"] \in {"start", "again"}
  /\ Run("responder", IF at["responder"] = "start" THEN "again" ELSE "request")
  /\ UNCHANGED <<busVars, seqVars, supplied, observed>>

SlaveSelected ==
  /\ at["responder"] = "request"
  /\ Run("responder", IF bus.we THEN "w1" ELSE "r1")
  /\ UNCHANGED <<busVars, seqVars, supplied, observed>>

\* The edge at which a write's data is displayed.
SlaveTakes ==
  /\ at["responder"] = "w1"
  /\ Run("responder", "w2")
  /\ UNCHANGED <<busVars, seqVars, supplied, observed>>

\* A read's data, at random, by a blocking assignment.
SlaveReads(d) ==
  /\ at["responder"] = "r1"
  /\ Run("responder", "r2")
  /\ bus' = [bus EXCEPT !.dout = d]
  /\ nextBus' = [nextBus EXCEPT !.dout = d]
  /\ UNCHANGED <<seqVars, supplied, observed>>

SlaveAcks ==
  /\ at["responder"] \in {"w2", "r2"}
  /\ Run("responder", IF at["responder"] = "w2" THEN "w3" ELSE "r3")
  /\ nextBus' = [nextBus EXCEPT !.ack = TRUE]
  /\ supplied' = Append(supplied, bus.dout)
  /\ UNCHANGED <<bus, seqVars, observed>>

\* Mutant of SlaveReleases: the word read is withdrawn in the same slot.
SlaveWithdraws ==
  /\ at["responder"] \in {"w3", "r3"}
  /\ Run("responder", "again")
  /\ bus' = [bus EXCEPT !.dout = 0]
  /\ nextBus' = [nextBus EXCEPT !.ack = FALSE, !.dout = 0]
  /\ UNCHANGED <<seqVars, supplied, observed>>

\* Mutant of SlaveReleases: ack falls only after the master has dropped its request.
SlaveAwaitsMaster ==
  /\ at["responder"] \in {"w3", "r3"} /\ ~bus.req
  /\ Run("responder", "again")
  /\ nextBus' = [nextBus EXCEPT !.ack = FALSE]
  /\ UNCHANGED <<bus, seqVars, supplied, observed>>

SlaveReleases ==
  /\ at["responder"] \in {"w3", "r3"}
  /\ Run("responder", "again")
  /\ nextBus' = [nextBus EXCEPT !.ack = FALSE]
  /\ UNCHANGED <<bus, seqVars, supplied, observed>>

Responder ==
  \/ SlaveWaits \/ SlaveSelected \/ SlaveTakes
  \/ \E d \in Data : SlaveReads(d)
  \/ SlaveAcks \/ SlaveReleases

-----------------------------------------------------------------------------
(* The monitors of the two agents.  The slave's does not sample the tag.   *)

MonitorWaits(m) ==
  /\ at[m] \in {"start", "request", "ack"}
  /\ Run(m, CASE at[m] = "start" -> "request"
              [] at[m] = "request" -> "ack"
              [] at[m] = "ack" -> "sample")
  /\ UNCHANGED <<busVars, seqVars, supplied, observed>>

Sampled(m) ==
  [write |-> bus.we, addr |-> bus.addr, din |-> bus.din, dout |-> bus.dout,
   tag |-> IF m = "master" THEN bus.tag ELSE 0]

\* Mutant of MonitorSamples: the monitor does not wait for ack to fall.
MonitorSamplesAgain(m) ==
  /\ at[m] = "sample"
  /\ Run(m, "request")
  /\ observed' = [observed EXCEPT ![m] = Append(@, Sampled(m))]
  /\ UNCHANGED <<busVars, seqVars, supplied>>

\* The sample is taken on the falling edge; observed has it at once, the analysis
\* port when ack is low, which nobody can tell apart.
MonitorSamples(m) ==
  /\ at[m] = "sample"
  /\ Run(m, "release")
  /\ observed' = [observed EXCEPT ![m] = Append(@, Sampled(m))]
  /\ UNCHANGED <<busVars, seqVars, supplied>>

MonitorWrites(m) ==
  /\ at[m] = "release"
  /\ Run(m, "request")
  /\ UNCHANGED <<busVars, seqVars, supplied, observed>>

Monitor(m) == MonitorWaits(m) \/ MonitorSamples(m) \/ MonitorWrites(m)

-----------------------------------------------------------------------------
Simulator == Update \/ ClockEdge \/ Driver \/ Responder \/ \E m \in Monitors : Monitor(m)

Next == Simulator \/ Poll \/ \E it \in Items : Send(it)

Spec == Init /\ [][Next]_vars

\* The simulator goes on, and a sequence that has a response takes it; nothing makes
\* a sequence send another item.
FairSpec == Spec /\ WF_vars(Simulator) /\ WF_vars(Poll)

-----------------------------------------------------------------------------
(* Properties.                                                             *)

Labels == {"item", "start", "drive", "strobe", "ack", "release", "request", "again",
           "w1", "w2", "w3", "r1", "r2", "r3", "sample"}

Words == [req : BOOLEAN, addr : Addrs \cup {0}, we : BOOLEAN, din : Data, tag : Tags,
          ack : BOOLEAN, dout : Data]

\* Type invariant of the simulator, the interface, the processes and the sequence.
TypeOK ==
  /\ clk \in BOOLEAN /\ bus \in Words /\ nextBus \in Words
  /\ woken \subseteq Processes /\ at \in [Processes -> Labels]
  /\ seqAt \in {"ready", "sent", "polling"}
  /\ responses \in Seq([addr : Addrs \cup {0}, data : Data]) /\ Len(responses) <= ResponseDepth
  /\ polled \in Seq([of : Nat, rsp : [addr : Addrs \cup {0}, data : Data]])
  /\ sent \in Seq(Items) /\ supplied \in Seq(Data)
  /\ observed \in [Monitors -> Seq([write : BOOLEAN, addr : Addrs \cup {0}, din : Data,
                                    dout : Data, tag : Tags])]

\* A monitor's i-th observation is the i-th transfer: its direction and address, the
\* word written, or the word the slave supplied with, at the master, the read's tag.
ObservesTransfer(m, i) ==
  LET o == observed[m][i] IN
  /\ o.write = sent[i].write /\ o.addr = sent[i].addr
  /\ o.write => o.din = sent[i].din
  /\ ~o.write => o.dout = supplied[i] /\ (m = "master" => o.tag = sent[i].tag)

\* Both monitors see every transfer exactly once, in order and with the values that
\* were transferred, whichever order the simulator runs the processes of a time slot
\* in: the driver clears the bus in the slot in which the monitors' wait(!ack) ends,
\* and their next wait(stb && cyc) may still see the old request
\* (wb_if.sv:31-36, wb_master_monitor.sv:38-69, wb_slave_monitor.sv:37-66).
TransfersObserved ==
  \A m \in Monitors :
    /\ Len(observed[m]) <= Len(sent)
    /\ \A i \in 1..Len(observed[m]) : ObservesTransfer(m, i)
    /\ seqAt # "sent" => Len(observed[m]) = Len(sent)

\* A response carries the address of its transfer and, for a read, the word the slave
\* supplied, although the driver reads both from the interface after the bus has been
\* released (wb_master_driver.sv:35-41).
ResponseOfTransfer(r, i) ==
  r.addr = sent[i].addr /\ (~sent[i].write => r.data = supplied[i])

\* As long as a sequence calls get_response after every item, it gets the response to
\* that item: no response is lost, and none is another transfer's
\* (wb_master_driver.sv:28-46, wb_uart_sequences.sv:124-130).
PolledInStep ==
  (\A i \in 1..Len(sent) : sent[i].poll) =>
    \A i \in 1..Len(polled) : polled[i].of = i /\ ResponseOfTransfer(polled[i].rsp, i)

\* A transfer that was started completes, and a sequence never waits for ever in
\* get_response: driver and slave never both wait for the other's next level of ack
\* (wb_if.sv:29-31, 50-52, 64-84).
TransferCompletes == (seqAt # "ready") ~> (seqAt = "ready")

\* A sequence that polls a register gets the response of the read it has just made
\* ("get the response after item_done in driver", wb_uart_sequences.sv:724).
PolledIsCurrent ==
  \A i \in 1..Len(polled) : ResponseOfTransfer(polled[i].rsp, polled[i].of)
=============================================================================
