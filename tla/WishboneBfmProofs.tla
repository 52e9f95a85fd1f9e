------------------------- MODULE WishboneBfmProofs -------------------------
(***************************************************************************)
(* Proofs about WishboneBfm, for any addresses, words and tags, sequences  *)
(* of any length, and whatever order the simulator runs the processes of a *)
(* time slot in.                                                           *)
(***************************************************************************)
EXTENDS WishboneBfm, TLAPS

-----------------------------------------------------------------------------
(* Type correctness.                                                       *)

\* The driver has an item whenever it is not waiting for one, and a sequence that has
\* sent its item waits for the driver.
ItemInv ==
  /\ at["driver"] \in {"item", "drive", "strobe", "ack", "release"}
  /\ at["driver"] # "item" => sent # <<>>
  /\ seqAt = "sent" <=> at["driver"] # "item"

LEMMA Appended ==
  ASSUME NEW S, NEW s \in Seq(S), NEW e \in S
  PROVE  /\ Append(s, e) \in Seq(S) /\ Len(Append(s, e)) = Len(s) + 1
         /\ Append(s, e)[Len(s) + 1] = e
         /\ \A i \in 1..Len(s) : Append(s, e)[i] = s[i]
OBVIOUS

LEMMA Taken ==
  ASSUME NEW S, NEW s \in Seq(S), s # <<>>
  PROVE  /\ Head(s) \in S /\ Tail(s) \in Seq(S) /\ Head(s) = s[1]
         /\ Len(s) \in Nat \ {0} /\ Len(Tail(s)) = Len(s) - 1
OBVIOUS

LEMMA ItemType ==
  ASSUME TypeOK, sent # <<>>
  PROVE  Item \in Items /\ Len(sent) \in Nat \ {0}
<1>1. sent \in Seq(Items)
  BY DEF TypeOK
<1>2. Len(sent) \in 1..Len(sent) /\ Len(sent) \in Nat \ {0}
  BY <1>1
<1> QED BY <1>1, <1>2 DEF Item

LEMMA InitType == ASSUME Init, BfmAssumption PROVE TypeOK /\ ItemInv
<1>1. IdleBus \in Words
  BY DEF IdleBus, Words, BfmAssumption
<1>2. at \in [Processes -> Labels]
  BY DEF Init, Labels
<1>3. at["driver"] = "item"
  BY DEF Init, Processes
<1>4. observed \in [Monitors -> Seq([write : BOOLEAN, addr : Addrs \cup {0}, din : Data,
                                     dout : Data, tag : Tags])]
  BY DEF Init
<1>5. /\ Len(responses) <= ResponseDepth
      /\ responses \in Seq([addr : Addrs \cup {0}, data : Data])
      /\ polled \in Seq([of : Nat, rsp : [addr : Addrs \cup {0}, data : Data]])
      /\ sent \in Seq(Items) /\ supplied \in Seq(Data)
  BY DEF Init, BfmAssumption
<1>6. /\ clk \in BOOLEAN /\ bus \in Words /\ nextBus \in Words /\ woken \subseteq Processes
      /\ seqAt = "ready"
  BY <1>1 DEF Init
<1> QED BY <1>2, <1>3, <1>4, <1>5, <1>6 DEF TypeOK, ItemInv

\* A process runs to a label.
LEMMA RunType ==
  ASSUME TypeOK, NEW p \in Processes, NEW l \in Labels, Run(p, l)
  PROVE  /\ at' \in [Processes -> Labels] /\ woken' \subseteq Processes /\ clk' \in BOOLEAN
         /\ at'[p] = l /\ \A q \in Processes \ {p} : at'[q] = at[q]
         /\ woken' = woken \ {p} /\ clk' = clk
BY DEF Run, TypeOK

LEMMA DriverType == ASSUME TypeOK, ItemInv, Driver, BfmAssumption PROVE TypeOK' /\ ItemInv'
<1>0. "driver" \in Processes /\ {"drive", "strobe", "ack", "release", "item"} \subseteq Labels
  BY DEF Processes, Labels
<1>1. at["driver"] \in {"drive", "strobe", "ack", "release"}
  BY DEF Driver, DriveWrite, DriveRead, AwaitAck, AwaitRelease, Complete
<1>2. Item \in Items /\ sent # <<>>
  BY <1>1, ItemType DEF ItemInv
<1>3. CASE DriveWrite \/ DriveRead
  <2>1. PICK l \in {"ack", "strobe"} : Run("driver", l)
    BY <1>3 DEF DriveWrite, DriveRead
  <2>2. nextBus' \in Words
    <3>1. Item.addr \in Addrs /\ Item.din \in Data /\ Item.tag \in Tags
      BY <1>2 DEF Items
    <3>2. CASE DriveWrite
      BY <3>1, <3>2 DEF DriveWrite, TypeOK, Words
    <3>3. CASE DriveRead
      BY <3>1, <3>3 DEF DriveRead, TypeOK, Words
    <3> QED BY <1>3, <3>2, <3>3
  <2>3. UNCHANGED <<bus, seqAt, responses, polled, sent, supplied, observed>>
    BY <1>3 DEF DriveWrite, DriveRead, seqVars
  <2> QED BY <1>0, <1>1, <2>1, <2>2, <2>3, RunType DEF TypeOK, ItemInv
<1>4. CASE AwaitAck \/ AwaitRelease
  <2>1. PICK l \in {"ack", "release"} : Run("driver", l)
    BY <1>4 DEF AwaitAck, AwaitRelease
  <2>2. UNCHANGED <<bus, nextBus, seqAt, responses, polled, sent, supplied, observed>>
    BY <1>4 DEF AwaitAck, AwaitRelease, seqVars, busVars
  <2> QED BY <1>0, <1>1, <2>1, <2>2, RunType DEF TypeOK, ItemInv
<1>5. CASE Complete
  <2>1. Run("driver", "item") /\ UNCHANGED <<bus, polled, sent, supplied, observed>>
        /\ seqAt' \in {"ready", "polling"}
    BY <1>5 DEF Complete
  <2>2. nextBus' \in Words
    BY <1>2, <1>5 DEF Complete, TypeOK, Words, Items, BfmAssumption
  <2>3. Response \in [addr : Addrs \cup {0}, data : Data]
    BY DEF Response, TypeOK, Words
  <2>4. responses' \in Seq([addr : Addrs \cup {0}, data : Data]) /\ Len(responses') <= ResponseDepth
    <3>1. /\ responses \in Seq([addr : Addrs \cup {0}, data : Data])
          /\ Len(responses) <= ResponseDepth /\ Len(responses) \in Nat /\ ResponseDepth \in Nat
      BY DEF TypeOK, BfmAssumption
    <3>2. /\ Append(responses, Response) \in Seq([addr : Addrs \cup {0}, data : Data])
          /\ Len(Append(responses, Response)) = Len(responses) + 1
      BY <2>3, <3>1, Appended
    <3>3. CASE Len(responses) < ResponseDepth
      BY <1>5, <3>1, <3>2, <3>3 DEF Complete, PutResponse
    <3>4. CASE ~(Len(responses) < ResponseDepth)
      BY <1>5, <3>1, <3>4 DEF Complete, PutResponse
    <3> QED BY <3>3, <3>4
  <2> QED BY <1>0, <2>1, <2>2, <2>4, RunType DEF TypeOK, ItemInv
<1> QED BY <1>3, <1>4, <1>5 DEF Driver

LEMMA ResponderType == ASSUME TypeOK, ItemInv, Responder PROVE TypeOK' /\ ItemInv'
<1>0. "responder" \in Processes /\ "driver" \in Processes \ {"responder"}
      /\ {"again", "request", "w1", "w2", "w3", "r1", "r2", "r3"} \subseteq Labels
  BY DEF Processes, Labels
<1>1. PICK l \in Labels : Run("responder", l)
  BY <1>0 DEF Responder, SlaveWaits, SlaveSelected, SlaveTakes, SlaveReads, SlaveAcks, SlaveReleases
<1>2. UNCHANGED <<seqAt, responses, polled, sent, observed>>
  BY DEF Responder, SlaveWaits, SlaveSelected, SlaveTakes, SlaveReads, SlaveAcks, SlaveReleases,
         seqVars
<1>3. bus' \in Words /\ nextBus' \in Words
  <2>1. ASSUME NEW d \in Data, SlaveReads(d) PROVE bus' \in Words /\ nextBus' \in Words
    BY <2>1 DEF SlaveReads, TypeOK, Words
  <2>2. CASE SlaveAcks \/ SlaveReleases
    BY <2>2 DEF SlaveAcks, SlaveReleases, TypeOK, Words
  <2> QED BY <2>1, <2>2 DEF Responder, SlaveWaits, SlaveSelected, SlaveTakes, busVars, TypeOK
<1>4. supplied' \in Seq(Data)
  <2>1. Append(supplied, bus.dout) \in Seq(Data)
    BY DEF TypeOK, Words
  <2> QED BY <2>1 DEF Responder, SlaveWaits, SlaveSelected, SlaveTakes, SlaveReads, SlaveAcks,
                      SlaveReleases, TypeOK
<1> QED BY <1>0, <1>1, <1>2, <1>3, <1>4, RunType DEF TypeOK, ItemInv

LEMMA MonitorType ==
  ASSUME TypeOK, ItemInv, NEW m \in Monitors, Monitor(m), BfmAssumption
  PROVE  TypeOK' /\ ItemInv'
<1>0. m \in Processes /\ "driver" \in Processes \ {m}
      /\ {"request", "ack", "sample", "release"} \subseteq Labels
  BY DEF Processes, Monitors, Labels
<1>1. PICK l \in Labels : Run(m, l)
  <2>1. CASE MonitorWaits(m)
    BY <1>0, <2>1 DEF MonitorWaits
  <2> QED BY <1>0, <2>1 DEF Monitor, MonitorSamples, MonitorWrites
<1>2. UNCHANGED <<bus, nextBus, seqAt, responses, polled, sent, supplied>>
  BY DEF Monitor, MonitorWaits, MonitorSamples, MonitorWrites, seqVars, busVars
<1>3. observed' \in [Monitors -> Seq([write : BOOLEAN, addr : Addrs \cup {0}, din : Data,
                                      dout : Data, tag : Tags])]
  <2>1. Sampled(m) \in [write : BOOLEAN, addr : Addrs \cup {0}, din : Data,
                        dout : Data, tag : Tags]
    BY DEF Sampled, TypeOK, Words, BfmAssumption
  <2>2. Append(observed[m], Sampled(m)) \in Seq([write : BOOLEAN, addr : Addrs \cup {0},
                                                 din : Data, dout : Data, tag : Tags])
    BY <2>1, Appended DEF TypeOK
  <2> QED BY <2>2 DEF Monitor, MonitorWaits, MonitorSamples, MonitorWrites, TypeOK
<1> QED BY <1>0, <1>1, <1>2, <1>3, RunType DEF TypeOK, ItemInv

LEMMA SequenceType ==
  ASSUME TypeOK, ItemInv, Poll \/ \E it \in Items : Send(it)
  PROVE  TypeOK' /\ ItemInv'
<1>1. CASE Poll
  <2>1. /\ responses # <<>> /\ Len(sent) \in Nat
        /\ responses \in Seq([addr : Addrs \cup {0}, data : Data])
        /\ polled \in Seq([of : Nat, rsp : [addr : Addrs \cup {0}, data : Data]])
    BY <1>1 DEF Poll, TypeOK
  <2>2. /\ Tail(responses) \in Seq([addr : Addrs \cup {0}, data : Data])
        /\ Head(responses) \in [addr : Addrs \cup {0}, data : Data]
        /\ Len(responses) \in Nat /\ Len(Tail(responses)) = Len(responses) - 1
    BY <2>1, Taken
  <2>3. [of |-> Len(sent), rsp |-> Head(responses)]
          \in [of : Nat, rsp : [addr : Addrs \cup {0}, data : Data]]
    BY <2>1, <2>2
  <2>4. polled' \in Seq([of : Nat, rsp : [addr : Addrs \cup {0}, data : Data]])
    BY <1>1, <2>1, <2>3, Appended DEF Poll
  <2>5. Len(responses') <= ResponseDepth
    <3>1. Len(responses) <= ResponseDepth /\ responses' = Tail(responses)
      BY <1>1 DEF Poll, TypeOK
    <3>2. ResponseDepth \in Nat
      BY BfmAssumption DEF BfmAssumption
    <3> QED BY <2>2, <3>1, <3>2
  <2> QED BY <1>1, <2>2, <2>4, <2>5 DEF Poll, TypeOK, ItemInv, busVars
<1>2. ASSUME NEW it \in Items, Send(it) PROVE TypeOK' /\ ItemInv'
  <2>1. sent' \in Seq(Items) /\ sent' # <<>>
    BY <1>2 DEF Send, TypeOK
  <2>2. at' \in [Processes -> Labels] /\ at'["driver"] = "drive"
    BY <1>2 DEF Send, TypeOK, Processes, Labels
  <2> QED BY <1>2, <2>1, <2>2 DEF Send, TypeOK, ItemInv, busVars
<1> QED BY <1>1, <1>2

LEMMA TypeInductive ==
  ASSUME TypeOK, ItemInv, [Next]_vars, BfmAssumption
  PROVE  TypeOK' /\ ItemInv'
<1>1. CASE Update
  BY <1>1 DEF Update, TypeOK, ItemInv, seqVars
<1>2. CASE ClockEdge
  BY <1>2 DEF ClockEdge, TypeOK, ItemInv, seqVars, busVars
<1>3. CASE UNCHANGED vars
  BY <1>3 DEF vars, TypeOK, ItemInv, seqVars, busVars
<1> QED BY <1>1, <1>2, <1>3, DriverType, ResponderType, MonitorType, SequenceType
        DEF Next, Simulator

\* The interface, the processes and the sequence keep their types; the driver never
\* reads an item it does not have, and the response queue never exceeds its depth, for
\* any depth (wb_master_driver.sv:26-49).
THEOREM TypeCorrect == Spec => []TypeOK
<1>1. Init => TypeOK /\ ItemInv
  BY InitType, BfmAssumption
<1>2. TypeOK /\ ItemInv /\ [Next]_vars => TypeOK' /\ ItemInv'
  BY TypeInductive, BfmAssumption
<1> QED BY <1>1, <1>2, PTL DEF Spec

-----------------------------------------------------------------------------
(* The handshake of driver and responder.                                  *)

D == at["driver"]
R == at["responder"]

\* A woken process waits for the edge that came last.
Edges == \A p \in woken : IF clk THEN AwaitsRise(p) ELSE AwaitsFall(p)

\* A value of the interface that carries the request of the item.
Carries(b) ==
  /\ b.req /\ b.addr = Item.addr /\ b.we = Item.write
  /\ Item.write => b.din = Item.din
  /\ ~Item.write => b.tag = Item.tag

\* Before the driver acts: the old request may still be on the bus, but then the
\* responder awaits an edge that has not come, and so does the driver.
Idle ==
  D \in {"item", "drive"} =>
    /\ ~bus.ack /\ ~nextBus.ack /\ ~nextBus.req
    /\ R \in {"start", "again", "request"}
    /\ bus.req => R = "again" /\ "responder" \notin woken /\ "driver" \notin woken
    /\ Len(supplied) = IF D = "item" THEN Len(sent) ELSE Len(sent) - 1

\* The request is made and not acknowledged: the responder takes the driver's branch,
\* and it does not overtake a driver that still awaits its strobe edge.
Asking ==
  D \in {"strobe", "ack"} /\ R \notin {"w3", "r3"} =>
    /\ Carries(nextBus) /\ ~bus.ack /\ ~nextBus.ack
    /\ bus.req => Carries(bus)
    /\ R \in {"start", "again", "request", "w1", "w2", "r1", "r2"}
    /\ R \in {"w1", "w2"} => bus.req /\ Item.write
    /\ R \in {"r1", "r2"} => bus.req /\ ~Item.write
    /\ D = "strobe" => ~Item.write
    /\ D = "strobe" /\ R = "r1" /\ "responder" \in woken => "driver" \in woken
    /\ D = "strobe" /\ R = "r2" => "driver" \in woken /\ "responder" \notin woken
    /\ Len(supplied) = Len(sent) - 1

\* The responder's acknowledge is up, or will be when the slot's assignments are made.
Acked ==
  R \in {"w3", "r3"} =>
    /\ D \in {"ack", "release"}
    /\ Carries(bus) /\ Carries(nextBus) /\ nextBus.ack
    /\ D = "release" => bus.ack
    /\ ~clk \/ "responder" \in woken => D = "release"
    /\ Len(supplied) = Len(sent)
    /\ ~Item.write => supplied[Len(sent)] = bus.dout

\* The acknowledge is withdrawn and the driver has not released the bus: that happens in
\* the time slot in which the responder begins to wait for its next edge.
Released ==
  D = "release" /\ R \notin {"w3", "r3"} =>
    /\ R = "again" /\ "responder" \notin woken
    /\ Carries(bus) /\ Carries(nextBus) /\ ~nextBus.ack
    /\ Len(supplied) = Len(sent)
    /\ ~Item.write => supplied[Len(sent)] = bus.dout

HandshakeInv ==
  /\ Edges /\ bus.dout = nextBus.dout
  /\ Idle /\ Asking /\ Acked /\ Released

-----------------------------------------------------------------------------
(* The monitors.                                                           *)

Seen(m) == Len(observed[m])

\* Where a monitor is at each stage of the handshake, and how much it has seen.
MonitorIdle(m) ==
  D \in {"item", "drive"} =>
    /\ Seen(m) = Len(supplied) /\ at[m] \in {"start", "request", "ack", "release"}
    /\ at[m] = "release" => "driver" \notin woken

MonitorAsking(m) ==
  D \in {"strobe", "ack"} /\ R \notin {"w3", "r3"} =>
    /\ Seen(m) = Len(supplied) /\ at[m] \in {"start", "request", "ack"}
    /\ R \in {"w1", "r1"} /\ "responder" \in woken => at[m] = "ack"
    /\ R \in {"w2", "r2"} => at[m] = "ack"

\* The sample is taken at the falling edge between ack's rise and fall.
MonitorAcked(m) ==
  R \in {"w3", "r3"} =>
    \/ /\ clk /\ "responder" \notin woken
       /\ Seen(m) = Len(sent) - 1 /\ at[m] \in {"ack", "sample"}
    \/ ~clk /\ Seen(m) = Len(sent) - 1 /\ at[m] = "sample" /\ m \in woken
    \/ (~clk \/ "responder" \in woken) /\ Seen(m) = Len(sent) /\ at[m] = "release"

MonitorReleased(m) ==
  D = "release" /\ R \notin {"w3", "r3"} =>
    /\ Seen(m) = Len(sent) /\ at[m] \in {"release", "request", "ack"}
    /\ bus.ack => at[m] = "release"

\* A monitor has left its first wait before the responder awaits a request.
MonitorStart(m) ==
  at[m] = "start" =>
    \/ R = "start" /\ ("responder" \in woken <=> m \in woken)
    \/ R = "again" /\ "responder" \notin woken /\ m \in woken

MonitorInv ==
  \A m \in Monitors :
    /\ MonitorIdle(m) /\ MonitorAsking(m) /\ MonitorAcked(m) /\ MonitorReleased(m)
    /\ MonitorStart(m)

ObservedInv == \A m \in Monitors : \A i \in 1..Seen(m) : ObservesTransfer(m, i)

-----------------------------------------------------------------------------
(* The responses.                                                          *)

AllPoll == \A i \in 1..Len(sent) : sent[i].poll

\* While every item is polled there is at most one response, the last item's.
PolledInv ==
  AllPoll =>
    /\ \A i \in 1..Len(polled) : polled[i].of = i /\ ResponseOfTransfer(polled[i].rsp, i)
    /\ seqAt = "ready" => Len(polled) = Len(sent) /\ responses = <<>>
    /\ seqAt = "sent" => Len(polled) = Len(sent) - 1 /\ responses = <<>>
    /\ seqAt = "polling" => /\ Len(polled) = Len(sent) - 1 /\ Len(responses) = 1
                            /\ ResponseOfTransfer(responses[1], Len(sent))

-----------------------------------------------------------------------------
(* The handshake is kept.                                                  *)

\* A process that runs was woken for its edge or its level holds, and only it moves.
LEMMA EdgesRun ==
  ASSUME TypeOK, Edges, NEW p \in Processes, NEW l \in Labels, Run(p, l)
  PROVE  /\ Edges' /\ clk' = clk
         /\ at'[p] = l /\ p \notin woken'
         /\ \A q \in Processes \ {p} : at'[q] = at[q] /\ (q \in woken' <=> q \in woken)
         /\ p \in woken \/ LevelHolds(p)
<1>1. /\ at'[p] = l /\ woken' = woken \ {p} /\ clk' = clk
      /\ \A q \in Processes \ {p} : at'[q] = at[q]
  BY RunType
<1>2. woken \subseteq Processes
  BY DEF TypeOK
<1>3. Edges'
  BY <1>1, <1>2 DEF Edges, AwaitsRise, AwaitsFall
<1>4. p \in woken \/ LevelHolds(p)
  BY DEF Run, Runnable
<1> QED BY <1>1, <1>3, <1>4

LEMMA HandshakeInit == ASSUME Init PROVE HandshakeInv
<1>1. D = "item" /\ R = "start" /\ woken = {}
  BY DEF Init, D, R, Processes
<1>2. ~bus.ack /\ ~nextBus.ack /\ ~nextBus.req /\ ~bus.req /\ bus.dout = nextBus.dout
  BY DEF Init, IdleBus
<1>3. Len(supplied) = Len(sent)
  BY DEF Init
<1> QED BY <1>1, <1>2, <1>3 DEF HandshakeInv, Edges, Idle, Asking, Acked, Released

LEMMA HandshakeUpdate == ASSUME TypeOK, ItemInv, HandshakeInv, Update PROVE HandshakeInv'
<1>1. /\ bus' = nextBus /\ UNCHANGED <<clk, nextBus, woken, at, sent, supplied>>
      /\ D' = D /\ R' = R /\ Item' = Item
  BY DEF Update, seqVars, D, R, Item
<1>2. Edges'
  BY <1>1 DEF HandshakeInv, Edges, AwaitsRise, AwaitsFall
<1>3. Idle' /\ Asking'
  BY <1>1 DEF HandshakeInv, Idle, Asking, Carries
<1>4. Acked' /\ Released'
  BY <1>1 DEF HandshakeInv, Acked, Released, Carries
<1> QED BY <1>1, <1>2, <1>3, <1>4 DEF HandshakeInv

\* When nothing is left to do in a time slot, no level that is awaited holds.
LEMMA SettledSlot ==
  ASSUME TypeOK, ItemInv, Settled
  PROVE  /\ woken = {}
         /\ D = "ack" => ~bus.ack
         /\ D = "release" => bus.ack
         /\ R = "request" => ~bus.req
         /\ \A m \in Monitors : /\ at[m] = "ack" => ~bus.ack
                                /\ at[m] = "release" => bus.ack
                                /\ at[m] = "request" => ~bus.req
BY DEF Settled, Runnable, LevelHolds, D, R, TypeOK, Processes, Monitors

LEMMA HandshakeClock == ASSUME TypeOK, ItemInv, HandshakeInv, ClockEdge PROVE HandshakeInv'
<1>1. /\ nextBus = bus /\ clk' = ~clk
      /\ UNCHANGED <<bus, nextBus, at, sent, supplied>>
      /\ D' = D /\ R' = R /\ Item' = Item
      /\ woken' = {p \in Processes : IF clk THEN AwaitsFall(p) ELSE AwaitsRise(p)}
  BY DEF ClockEdge, seqVars, busVars, D, R, Item
<1>2. /\ D = "ack" => ~bus.ack
      /\ D = "release" => bus.ack
      /\ woken = {} /\ clk \in BOOLEAN
  BY SettledSlot DEF ClockEdge, TypeOK
<1>3. Edges'
  BY <1>1, <1>2 DEF Edges, AwaitsRise, AwaitsFall
<1>4. /\ "driver" \in woken' <=> IF clk THEN D \in {"start", "drive", "again", "sample"}
                                 ELSE D \in {"strobe", "w1", "w2", "w3", "r1", "r2", "r3"}
      /\ "responder" \in woken' <=> IF clk THEN R \in {"start", "drive", "again", "sample"}
                                    ELSE R \in {"strobe", "w1", "w2", "w3", "r1", "r2", "r3"}
  BY <1>1 DEF AwaitsRise, AwaitsFall, Processes, D, R
<1>5. Idle' /\ Asking'
  BY <1>1, <1>2, <1>4 DEF HandshakeInv, Idle, Asking, Carries
<1>6. Acked'
  BY <1>1, <1>2, <1>4 DEF HandshakeInv, Acked, Carries
<1>7. Released'
  BY <1>1, <1>2 DEF HandshakeInv, Released
<1> QED BY <1>1, <1>3, <1>5, <1>6, <1>7 DEF HandshakeInv

\* What a step of the driver does to the labels.
LEMMA DriverRuns ==
  ASSUME TypeOK, HandshakeInv, NEW l \in Labels, Run("driver", l)
  PROVE  /\ Edges' /\ clk' = clk /\ D' = l /\ R' = R
         /\ "driver" \notin woken' /\ ("responder" \in woken' <=> "responder" \in woken)
         /\ \A m \in Monitors : at'[m] = at[m] /\ (m \in woken' <=> m \in woken)
         /\ "driver" \in woken \/ LevelHolds("driver")
BY EdgesRun DEF HandshakeInv, Processes, Monitors, D, R

LEMMA HandshakeDriver ==
  ASSUME TypeOK, ItemInv, HandshakeInv, Driver
  PROVE  HandshakeInv'
<1>0. {"drive", "strobe", "ack", "release", "item"} \subseteq Labels
  BY DEF Labels
<1>1. CASE DriveWrite \/ DriveRead
  <2>1. PICK l \in {"ack", "strobe"} : Run("driver", l) /\ (l = "strobe" => ~Item.write)
    BY <1>1 DEF DriveWrite, DriveRead
  <2>2. /\ D = "drive" /\ UNCHANGED <<bus, sent, supplied>> /\ Item' = Item
    BY <1>1 DEF DriveWrite, DriveRead, seqVars, D, Item
  <2>3. /\ Edges' /\ D' = l /\ R' = R /\ clk' = clk
        /\ "responder" \in woken' <=> "responder" \in woken
    BY <1>0, <2>1, DriverRuns
  <2>4. "driver" \in woken
    BY <1>0, <2>1, <2>2, DriverRuns DEF LevelHolds, D
  <2>5. ~bus.req /\ R \in {"start", "again", "request"} /\ ~bus.ack /\ ~nextBus.ack
        /\ Len(supplied) = Len(sent) - 1
    BY <2>2, <2>4 DEF HandshakeInv, Idle
  <2>6. Carries(nextBus)' /\ ~nextBus'.ack /\ nextBus'.dout = nextBus.dout
    <3>1. nextBus \in Words
      BY DEF TypeOK
    <3>2. CASE DriveWrite
      BY <2>2, <2>5, <3>1, <3>2 DEF DriveWrite, Carries, Words
    <3>3. CASE DriveRead
      <4>1. sent # <<>>
        BY <2>2 DEF ItemInv, D
      <4>2. Item \in Items
        BY <4>1, ItemType
      <4>3. Item.write = FALSE
        BY <3>3, <4>2 DEF DriveRead, Items
      <4>4. nextBus' = [nextBus EXCEPT !.req = TRUE, !.addr = Item.addr, !.we = FALSE,
                                       !.tag = Item.tag]
        BY <3>3 DEF DriveRead
      <4> QED BY <2>2, <2>5, <3>1, <4>3, <4>4 DEF Carries, Words
    <3> QED BY <1>1, <3>2, <3>3
  <2>7. Idle' /\ Asking'
    BY <2>1, <2>2, <2>3, <2>5, <2>6 DEF Idle, Asking
  <2>8. Acked' /\ Released'
    BY <2>1, <2>3, <2>5 DEF Acked, Released
  <2> QED BY <2>2, <2>3, <2>6, <2>7, <2>8 DEF HandshakeInv
<1>2. CASE AwaitAck
  <2>1. /\ D = "strobe" /\ UNCHANGED <<bus, nextBus, sent, supplied>> /\ Item' = Item
        /\ Run("driver", "ack")
    BY <1>2 DEF AwaitAck, seqVars, busVars, D, Item
  <2>2. /\ Edges' /\ D' = "ack" /\ R' = R /\ clk' = clk
    BY <1>0, <2>1, DriverRuns
  <2>3. R \notin {"w3", "r3"}
    BY <2>1 DEF HandshakeInv, Acked
  <2>4. Asking'
    BY <2>1, <2>2, <2>3 DEF HandshakeInv, Asking, Carries
  <2> QED BY <2>1, <2>2, <2>3, <2>4 DEF HandshakeInv, Idle, Acked, Released
<1>3. CASE AwaitRelease
  <2>1. /\ D = "ack" /\ UNCHANGED <<bus, nextBus, sent, supplied>> /\ Item' = Item
        /\ Run("driver", "release")
    BY <1>3 DEF AwaitRelease, seqVars, busVars, D, Item
  <2>2. /\ Edges' /\ D' = "release" /\ R' = R /\ clk' = clk
        /\ "driver" \in woken \/ LevelHolds("driver")
        /\ "responder" \in woken' <=> "responder" \in woken
    BY <1>0, <2>1, DriverRuns
  <2>3. "driver" \notin woken
    BY <2>1 DEF HandshakeInv, Edges, AwaitsRise, AwaitsFall, D
  <2>4. bus.ack
    BY <2>1, <2>2, <2>3 DEF LevelHolds, D
  <2>5. R \in {"w3", "r3"}
    BY <2>1, <2>4 DEF HandshakeInv, Asking
  <2>6. Acked'
    BY <2>1, <2>2, <2>4, <2>5 DEF HandshakeInv, Acked, Carries
  <2> QED BY <2>1, <2>2, <2>5, <2>6 DEF HandshakeInv, Idle, Asking, Released
<1>4. CASE Complete
  <2>1. /\ D = "release" /\ UNCHANGED <<bus, sent, supplied>>
        /\ Run("driver", "item")
    BY <1>4 DEF Complete, D
  <2>2. /\ Edges' /\ D' = "item" /\ R' = R /\ clk' = clk
        /\ "driver" \in woken \/ LevelHolds("driver")
        /\ "driver" \notin woken' /\ ("responder" \in woken' <=> "responder" \in woken)
    BY <1>0, <2>1, DriverRuns
  <2>3. "driver" \notin woken
    BY <2>1 DEF HandshakeInv, Edges, AwaitsRise, AwaitsFall, D
  <2>4. ~bus.ack
    BY <2>1, <2>2, <2>3 DEF LevelHolds, D
  <2>5. R = "again" /\ "responder" \notin woken /\ ~nextBus.ack /\ Len(supplied) = Len(sent)
    BY <2>1, <2>4 DEF HandshakeInv, Acked, Released
  <2>6. ~nextBus'.req /\ ~nextBus'.ack /\ nextBus'.dout = nextBus.dout
    BY <1>4, <2>5 DEF Complete, TypeOK, Words
  <2>7. Idle'
    BY <2>1, <2>2, <2>4, <2>5, <2>6 DEF Idle
  <2> QED BY <2>1, <2>2, <2>5, <2>6, <2>7 DEF HandshakeInv, Asking, Acked, Released
<1> QED BY <1>1, <1>2, <1>3, <1>4 DEF Driver

\* What a step of the responder does to the labels.
LEMMA ResponderRuns ==
  ASSUME TypeOK, HandshakeInv, NEW l \in Labels, Run("responder", l)
  PROVE  /\ Edges' /\ clk' = clk /\ R' = l /\ D' = D
         /\ "responder" \notin woken' /\ ("driver" \in woken' <=> "driver" \in woken)
         /\ \A m \in Monitors : at'[m] = at[m] /\ (m \in woken' <=> m \in woken)
         /\ "responder" \in woken \/ LevelHolds("responder")
BY EdgesRun DEF HandshakeInv, Processes, Monitors, D, R

LEMMA HandshakeResponder ==
  ASSUME TypeOK, ItemInv, HandshakeInv, Responder
  PROVE  HandshakeInv'
<1>0. {"again", "request", "w1", "w2", "w3", "r1", "r2", "r3"} \subseteq Labels
  BY DEF Labels
<1>t. D \in {"item", "drive", "strobe", "ack", "release"} /\ (D # "item" => sent # <<>>)
  BY DEF ItemInv, D
<1>i. Item' = Item /\ UNCHANGED sent
  BY DEF Responder, SlaveWaits, SlaveSelected, SlaveTakes, SlaveReads, SlaveAcks, SlaveReleases,
         seqVars, Item
\* Wherever the responder awaits an edge, it runs only when that edge has come.
<1>w. ASSUME "responder" \in woken \/ LevelHolds("responder"), R # "request"
      PROVE  "responder" \in woken
  BY <1>w DEF LevelHolds, R, HandshakeInv, Idle, Asking, Acked, Released, D, ItemInv
<1>1. CASE SlaveWaits
  <2>1. PICK l \in {"again", "request"} : Run("responder", l)
    BY <1>1 DEF SlaveWaits
  <2>2. /\ R \in {"start", "again"} /\ UNCHANGED <<bus, nextBus, supplied>>
    BY <1>1 DEF SlaveWaits, busVars, R
  <2>3. /\ Edges' /\ D' = D /\ R' = l /\ clk' = clk
        /\ "driver" \in woken' <=> "driver" \in woken
    BY <1>0, <2>1, ResponderRuns
  <2>4. "responder" \in woken
    BY <1>0, <1>w, <2>1, <2>2, ResponderRuns
  <2>5. Idle' /\ Asking'
    BY <1>i, <2>2, <2>3, <2>4 DEF HandshakeInv, Idle, Asking, Carries
  <2>6. D # "release"
    BY <2>2, <2>4 DEF HandshakeInv, Released
  <2> QED BY <2>2, <2>3, <2>5, <2>6 DEF HandshakeInv, Acked, Released
<1>2. CASE SlaveSelected
  <2>1. /\ Run("responder", IF bus.we THEN "w1" ELSE "r1")
        /\ R = "request" /\ UNCHANGED <<bus, nextBus, supplied>>
    BY <1>2 DEF SlaveSelected, busVars, R
  <2>2. /\ Edges' /\ D' = D /\ R' = (IF bus.we THEN "w1" ELSE "r1") /\ clk' = clk
        /\ "driver" \in woken' <=> "driver" \in woken
        /\ "responder" \notin woken'
        /\ "responder" \in woken \/ LevelHolds("responder")
    BY <1>0, <2>1, ResponderRuns
  <2>3. bus.req
    BY <2>1, <2>2 DEF LevelHolds, R, HandshakeInv, Edges, AwaitsRise, AwaitsFall
  <2>4. D \in {"strobe", "ack"}
    BY <1>t, <2>1, <2>3 DEF HandshakeInv, Idle, Released
  <2>5. Asking'
    BY <1>i, <2>1, <2>2, <2>3, <2>4 DEF HandshakeInv, Asking, Carries
  <2> QED BY <2>1, <2>2, <2>4, <2>5 DEF HandshakeInv, Idle, Acked, Released
<1>3. CASE SlaveTakes
  <2>1. Run("responder", "w2") /\ R = "w1" /\ UNCHANGED <<bus, nextBus, supplied>>
    BY <1>3 DEF SlaveTakes, busVars, R
  <2>2. Edges' /\ D' = D /\ R' = "w2" /\ clk' = clk
    BY <1>0, <2>1, ResponderRuns
  <2>3. D = "ack"
    BY <1>t, <2>1 DEF HandshakeInv, Idle, Asking, Released
  <2>4. Asking'
    BY <1>i, <2>1, <2>2, <2>3 DEF HandshakeInv, Asking, Carries
  <2> QED BY <2>1, <2>2, <2>3, <2>4 DEF HandshakeInv, Idle, Acked, Released
<1>4. ASSUME NEW d \in Data, SlaveReads(d) PROVE HandshakeInv'
  <2>1. /\ Run("responder", "r2") /\ R = "r1" /\ UNCHANGED supplied
        /\ bus' = [bus EXCEPT !.dout = d] /\ nextBus' = [nextBus EXCEPT !.dout = d]
    BY <1>4 DEF SlaveReads, R
  <2>2. /\ Edges' /\ D' = D /\ R' = "r2" /\ clk' = clk
        /\ "driver" \in woken' <=> "driver" \in woken
        /\ "responder" \notin woken'
    BY <1>0, <2>1, ResponderRuns
  <2>3. "responder" \in woken
    BY <1>0, <1>w, <2>1, ResponderRuns
  <2>4. D \in {"strobe", "ack"} /\ (D = "strobe" => "driver" \in woken)
    BY <1>t, <2>1, <2>3 DEF HandshakeInv, Idle, Asking, Released
  <2>5. /\ bus'.req = bus.req /\ bus'.addr = bus.addr /\ bus'.we = bus.we
        /\ bus'.din = bus.din /\ bus'.tag = bus.tag /\ bus'.ack = bus.ack
        /\ nextBus'.req = nextBus.req /\ nextBus'.addr = nextBus.addr /\ nextBus'.we = nextBus.we
        /\ nextBus'.din = nextBus.din /\ nextBus'.tag = nextBus.tag /\ nextBus'.ack = nextBus.ack
        /\ bus'.dout = nextBus'.dout
    BY <2>1 DEF TypeOK, Words
  <2>6. Asking'
    BY <1>i, <2>1, <2>2, <2>4, <2>5 DEF HandshakeInv, Asking, Carries
  <2> QED BY <2>2, <2>4, <2>5, <2>6 DEF HandshakeInv, Idle, Acked, Released
<1>5. CASE SlaveAcks
  <2>1. PICK l \in {"w3", "r3"} : Run("responder", l)
    BY <1>5 DEF SlaveAcks
  <2>2. /\ R \in {"w2", "r2"} /\ bus' = bus
        /\ nextBus' = [nextBus EXCEPT !.ack = TRUE] /\ supplied' = Append(supplied, bus.dout)
    BY <1>5 DEF SlaveAcks, R
  <2>3. /\ Edges' /\ D' = D /\ R' = l /\ clk' = clk /\ "responder" \notin woken'
    BY <1>0, <2>1, ResponderRuns
  <2>4. "responder" \in woken
    BY <1>0, <1>w, <2>1, <2>2, ResponderRuns
  <2>5. D = "ack"
    BY <1>t, <2>2, <2>4 DEF HandshakeInv, Idle, Asking, Released
  <2>6. clk
    BY <2>2, <2>4 DEF HandshakeInv, Edges, AwaitsFall, R
  <2>7. Carries(bus)' /\ Carries(nextBus)' /\ nextBus'.ack /\ nextBus'.dout = nextBus.dout
    BY <1>i, <2>2, <2>5 DEF HandshakeInv, Asking, Carries, TypeOK, Words
  <2>8. Len(supplied') = Len(sent) /\ supplied'[Len(sent)] = bus.dout
    <3>1. Len(supplied) = Len(sent) - 1 /\ supplied \in Seq(Data) /\ bus.dout \in Data
          /\ Len(sent) \in Nat /\ Len(supplied) \in Nat
      BY <2>2, <2>5 DEF HandshakeInv, Asking, TypeOK, Words
    <3> QED BY <2>2, <3>1, Appended
  <2>9. Acked'
    BY <1>i, <2>2, <2>3, <2>5, <2>6, <2>7, <2>8 DEF Acked
  <2> QED BY <2>1, <2>2, <2>3, <2>5, <2>7, <2>9 DEF HandshakeInv, Idle, Asking, Released
<1>6. CASE SlaveReleases
  <2>1. /\ Run("responder", "again") /\ R \in {"w3", "r3"} /\ UNCHANGED <<bus, supplied>>
        /\ nextBus' = [nextBus EXCEPT !.ack = FALSE]
    BY <1>6 DEF SlaveReleases, R
  <2>2. /\ Edges' /\ D' = D /\ R' = "again" /\ clk' = clk /\ "responder" \notin woken'
    BY <1>0, <2>1, ResponderRuns
  <2>3. "responder" \in woken
    BY <1>0, <1>w, <2>1, ResponderRuns
  <2>4. D = "release"
    BY <2>1, <2>3 DEF HandshakeInv, Acked
  <2>5. Carries(bus)' /\ Carries(nextBus)' /\ ~nextBus'.ack /\ nextBus'.dout = nextBus.dout
    BY <1>i, <2>1, <2>4 DEF HandshakeInv, Acked, Carries, TypeOK, Words
  <2>6. Released'
    BY <1>i, <2>1, <2>2, <2>4, <2>5 DEF HandshakeInv, Acked, Released
  <2> QED BY <2>1, <2>2, <2>4, <2>5, <2>6 DEF HandshakeInv, Idle, Asking, Acked
<1> QED BY <1>1, <1>2, <1>3, <1>4, <1>5, <1>6 DEF Responder

LEMMA HandshakeMonitor ==
  ASSUME TypeOK, HandshakeInv, NEW m \in Monitors, Monitor(m)
  PROVE  HandshakeInv'
<1>1. PICK l \in Labels : Run(m, l)
  <2>1. {"request", "ack", "sample", "release"} \subseteq Labels
    BY DEF Labels
  <2>2. CASE MonitorWaits(m)
    BY <2>1, <2>2 DEF MonitorWaits
  <2> QED BY <2>1, <2>2 DEF Monitor, MonitorSamples, MonitorWrites
<1>2. m \in Processes \ {"driver", "responder"} /\ {"driver", "responder"} \subseteq Processes
  BY DEF Processes, Monitors
<1>3. /\ Edges' /\ clk' = clk /\ D' = D /\ R' = R
      /\ "driver" \in woken' <=> "driver" \in woken
      /\ "responder" \in woken' <=> "responder" \in woken
  BY <1>1, <1>2, EdgesRun DEF HandshakeInv, D, R
<1>4. UNCHANGED <<bus, nextBus, sent, supplied>> /\ Item' = Item
  BY DEF Monitor, MonitorWaits, MonitorSamples, MonitorWrites, seqVars, busVars, Item
<1>5. Idle' /\ Asking'
  BY <1>3, <1>4 DEF HandshakeInv, Idle, Asking, Carries
<1>6. Acked' /\ Released'
  BY <1>3, <1>4 DEF HandshakeInv, Acked, Released, Carries
<1> QED BY <1>3, <1>4, <1>5, <1>6 DEF HandshakeInv

LEMMA HandshakeSequence ==
  ASSUME TypeOK, ItemInv, HandshakeInv, Poll \/ \E it \in Items : Send(it)
  PROVE  HandshakeInv'
<1>1. CASE Poll
  <2>1. /\ UNCHANGED <<bus, nextBus, sent, supplied, clk, woken, at>> /\ Item' = Item
        /\ D' = D /\ R' = R
    BY <1>1 DEF Poll, busVars, Item, D, R
  <2>2. Edges' /\ Idle' /\ Asking'
    BY <2>1 DEF HandshakeInv, Edges, AwaitsRise, AwaitsFall, Idle, Asking, Carries
  <2>3. Acked' /\ Released'
    BY <2>1 DEF HandshakeInv, Acked, Released, Carries
  <2> QED BY <2>1, <2>2, <2>3 DEF HandshakeInv
<1>2. ASSUME NEW it \in Items, Send(it) PROVE HandshakeInv'
  <2>1. /\ D = "item" /\ UNCHANGED <<bus, nextBus, supplied, clk, woken>>
        /\ sent' = Append(sent, it) /\ at' = [at EXCEPT !["driver"] = "drive"]
    BY <1>2 DEF Send, busVars, D
  <2>2. D' = "drive" /\ R' = R /\ \A p \in Processes \ {"driver"} : at'[p] = at[p]
    BY <2>1 DEF D, R, TypeOK, Processes
  <2>3. Len(sent') = Len(sent) + 1 /\ Len(sent) \in Nat
    BY <2>1, Appended DEF TypeOK
  <2>4. "driver" \notin woken
    BY <2>1 DEF HandshakeInv, Edges, AwaitsRise, AwaitsFall, D
  <2>5. Edges'
    BY <2>1, <2>2, <2>4 DEF HandshakeInv, Edges, AwaitsRise, AwaitsFall, TypeOK
  <2>6. Idle'
    BY <2>1, <2>2, <2>3 DEF HandshakeInv, Idle
  <2>7. R \notin {"w3", "r3"}
    BY <2>1 DEF HandshakeInv, Idle
  <2> QED BY <2>1, <2>2, <2>5, <2>6, <2>7 DEF HandshakeInv, Asking, Acked, Released
<1> QED BY <1>1, <1>2

LEMMA HandshakeInductive ==
  ASSUME TypeOK, ItemInv, HandshakeInv, [Next]_vars
  PROVE  HandshakeInv'
<1>1. CASE UNCHANGED vars
  <2>1. /\ UNCHANGED <<bus, nextBus, sent, supplied, clk, woken, at>> /\ Item' = Item
        /\ D' = D /\ R' = R
    BY <1>1 DEF vars, seqVars, busVars, Item, D, R
  <2>2. Edges' /\ Idle' /\ Asking'
    BY <2>1 DEF HandshakeInv, Edges, AwaitsRise, AwaitsFall, Idle, Asking, Carries
  <2>3. Acked' /\ Released'
    BY <2>1 DEF HandshakeInv, Acked, Released, Carries
  <2> QED BY <2>1, <2>2, <2>3 DEF HandshakeInv
<1> QED BY <1>1, HandshakeUpdate, HandshakeClock, HandshakeDriver, HandshakeResponder,
           HandshakeMonitor, HandshakeSequence DEF Next, Simulator

-----------------------------------------------------------------------------
(* The monitors keep up with the handshake.                                *)

LEMMA MonitorInit == ASSUME Init PROVE MonitorInv /\ ObservedInv
<1>1. D = "item" /\ R = "start" /\ woken = {} /\ Len(supplied) = 0
  BY DEF Init, D, R, Processes
<1>2. ASSUME NEW m \in Monitors PROVE at[m] = "start" /\ Seen(m) = 0
  BY DEF Init, Seen, Monitors, Processes
<1>3. MonitorInv
  BY <1>1, <1>2 DEF MonitorInv, MonitorIdle, MonitorAsking, MonitorAcked, MonitorReleased,
                    MonitorStart
<1>4. ObservedInv
  BY <1>2 DEF ObservedInv
<1> QED BY <1>3, <1>4

\* Steps at which no monitor moves: the assignments of a slot and the driver's.
LEMMA MonitorUpdate ==
  ASSUME TypeOK, ItemInv, HandshakeInv, MonitorInv, Update
  PROVE  MonitorInv'
<1> SUFFICES ASSUME NEW m \in Monitors
             PROVE  /\ MonitorIdle(m)' /\ MonitorAsking(m)' /\ MonitorAcked(m)'
                    /\ MonitorReleased(m)' /\ MonitorStart(m)'
  BY DEF MonitorInv
<1>1. /\ bus' = nextBus /\ UNCHANGED <<clk, nextBus, woken, sent, supplied>>
      /\ D' = D /\ R' = R /\ at'[m] = at[m] /\ Seen(m)' = Seen(m)
  BY DEF Update, seqVars, D, R, Seen
<1>2. /\ MonitorIdle(m) /\ MonitorAsking(m) /\ MonitorAcked(m)
      /\ MonitorReleased(m) /\ MonitorStart(m)
  BY DEF MonitorInv
<1>3. D = "release" /\ R \notin {"w3", "r3"} => ~nextBus.ack
  BY DEF HandshakeInv, Released
<1> QED BY <1>1, <1>2, <1>3
        DEF MonitorIdle, MonitorAsking, MonitorAcked, MonitorReleased, MonitorStart

LEMMA MonitorClock ==
  ASSUME TypeOK, ItemInv, HandshakeInv, MonitorInv, ClockEdge
  PROVE  MonitorInv'
<1> SUFFICES ASSUME NEW m \in Monitors
             PROVE  /\ MonitorIdle(m)' /\ MonitorAsking(m)' /\ MonitorAcked(m)'
                    /\ MonitorReleased(m)' /\ MonitorStart(m)'
  BY DEF MonitorInv
<1>1. /\ nextBus = bus /\ clk' = ~clk /\ clk \in BOOLEAN
      /\ UNCHANGED <<bus, nextBus, sent, supplied>>
      /\ D' = D /\ R' = R /\ at'[m] = at[m] /\ Seen(m)' = Seen(m)
      /\ woken' = {p \in Processes : IF clk THEN AwaitsFall(p) ELSE AwaitsRise(p)}
  BY DEF ClockEdge, seqVars, busVars, D, R, Seen, TypeOK
<1>2. /\ MonitorIdle(m) /\ MonitorAsking(m) /\ MonitorAcked(m)
      /\ MonitorReleased(m) /\ MonitorStart(m)
  BY DEF MonitorInv
<1>3. /\ D = "ack" => ~bus.ack
      /\ D = "release" => bus.ack
      /\ R = "request" => ~bus.req
      /\ woken = {}
      /\ at[m] = "ack" => ~bus.ack
      /\ at[m] = "release" => bus.ack
      /\ at[m] = "request" => ~bus.req
  BY SettledSlot DEF ClockEdge
<1>4. /\ "driver" \in woken' <=> IF clk THEN D \in {"start", "drive", "again", "sample"}
                                 ELSE D \in {"strobe", "w1", "w2", "w3", "r1", "r2", "r3"}
      /\ "responder" \in woken' <=> IF clk THEN R \in {"start", "drive", "again", "sample"}
                                    ELSE R \in {"strobe", "w1", "w2", "w3", "r1", "r2", "r3"}
      /\ m \in woken' <=> IF clk THEN at[m] \in {"start", "drive", "again", "sample"}
                          ELSE at[m] \in {"strobe", "w1", "w2", "w3", "r1", "r2", "r3"}
  BY <1>1 DEF AwaitsRise, AwaitsFall, Processes, Monitors, D, R
<1>5. MonitorIdle(m)'
  <2>1. D \in {"item", "drive"} => at[m] # "release"
    BY <1>3 DEF HandshakeInv, Idle
  <2> QED BY <1>1, <1>2, <2>1 DEF MonitorIdle
<1>6. MonitorAsking(m)'
  <2>1. D \in {"strobe", "ack"} /\ R \in {"w1", "r1"} => bus.req
    BY DEF HandshakeInv, Asking
  <2>2. at[m] = "start" => R \notin {"w1", "r1"}
    BY <1>2 DEF MonitorStart
  <2> QED BY <1>1, <1>2, <1>3, <2>1, <2>2 DEF MonitorAsking
<1>7. MonitorAcked(m)'
  <2>1. R \in {"w3", "r3"} => bus.ack
    BY <1>1 DEF HandshakeInv, Acked
  <2> QED BY <1>1, <1>2, <1>3, <1>4, <2>1 DEF MonitorAcked
<1>8. MonitorReleased(m)'
  BY <1>1, <1>2 DEF MonitorReleased
<1>9. MonitorStart(m)'
  BY <1>1, <1>2, <1>3, <1>4 DEF MonitorStart
<1> QED BY <1>5, <1>6, <1>7, <1>8, <1>9

LEMMA MonitorOfDriver ==
  ASSUME TypeOK, ItemInv, HandshakeInv, MonitorInv, Driver
  PROVE  MonitorInv'
<1> SUFFICES ASSUME NEW m \in Monitors
             PROVE  /\ MonitorIdle(m)' /\ MonitorAsking(m)' /\ MonitorAcked(m)'
                    /\ MonitorReleased(m)' /\ MonitorStart(m)'
  BY DEF MonitorInv
<1>0. {"drive", "strobe", "ack", "release", "item"} \subseteq Labels
  BY DEF Labels
<1>1. PICK l \in {"strobe", "ack", "release", "item"} :
         /\ Run("driver", l)
         /\ l \in {"strobe", "ack"} => D \in {"drive", "strobe"}
         /\ l = "release" => D = "ack"
         /\ l = "item" => D = "release"
  BY DEF Driver, DriveWrite, DriveRead, AwaitAck, AwaitRelease, Complete, D
<1>2. UNCHANGED <<bus, sent, supplied>> /\ Seen(m)' = Seen(m)
  BY DEF Driver, DriveWrite, DriveRead, AwaitAck, AwaitRelease, Complete, seqVars, busVars, Seen
<1>3. /\ clk' = clk /\ D' = l /\ R' = R /\ at'[m] = at[m] /\ (m \in woken' <=> m \in woken)
      /\ "driver" \notin woken' /\ ("responder" \in woken' <=> "responder" \in woken)
      /\ "driver" \in woken \/ LevelHolds("driver")
  BY <1>0, <1>1, DriverRuns
<1>4. /\ MonitorIdle(m) /\ MonitorAsking(m) /\ MonitorAcked(m)
      /\ MonitorReleased(m) /\ MonitorStart(m)
  BY DEF MonitorInv
<1>5. /\ l \in {"strobe", "ack"} => "driver" \in woken
      /\ l = "release" => bus.ack
      /\ l = "item" => ~bus.ack
  BY <1>1, <1>3 DEF LevelHolds, D, HandshakeInv, Edges, AwaitsRise, AwaitsFall
<1>6. /\ D = "drive" => R \in {"start", "again", "request"}
      /\ R \in {"w3", "r3"} => D \in {"ack", "release"}
      /\ l = "release" => R \in {"w3", "r3"}
      /\ l = "item" => R = "again" /\ Len(supplied) = Len(sent)
  BY <1>1, <1>5 DEF HandshakeInv, Idle, Asking, Acked, Released
<1>7. MonitorIdle(m)' /\ MonitorAsking(m)'
  BY <1>1, <1>2, <1>3, <1>4, <1>5, <1>6 DEF MonitorIdle, MonitorAsking, MonitorReleased
<1>8. MonitorAcked(m)' /\ MonitorReleased(m)'
  BY <1>1, <1>2, <1>3, <1>4, <1>5, <1>6 DEF MonitorAcked, MonitorReleased
<1>9. MonitorStart(m)'
  BY <1>2, <1>3, <1>4 DEF MonitorStart
<1> QED BY <1>7, <1>8, <1>9

LEMMA MonitorOfResponder ==
  ASSUME TypeOK, ItemInv, HandshakeInv, MonitorInv, Responder
  PROVE  MonitorInv'
<1> SUFFICES ASSUME NEW m \in Monitors
             PROVE  /\ MonitorIdle(m)' /\ MonitorAsking(m)' /\ MonitorAcked(m)'
                    /\ MonitorReleased(m)' /\ MonitorStart(m)'
  BY DEF MonitorInv
<1>0. {"again", "request", "w1", "w2", "w3", "r1", "r2", "r3"} \subseteq Labels
  BY DEF Labels
<1>1. PICK l \in {"again", "request", "w1", "w2", "w3", "r1", "r2", "r3"} :
         /\ Run("responder", l)
         /\ l = "again" => R \in {"start", "w3", "r3"}
         /\ l = "request" => R = "again"
         /\ l \in {"w1", "r1"} => R = "request"
         /\ l = "w2" => R = "w1"
         /\ l = "r2" => R = "r1"
         /\ l \in {"w3", "r3"} => R \in {"w2", "r2"}
  BY DEF Responder, SlaveWaits, SlaveSelected, SlaveTakes, SlaveReads, SlaveAcks, SlaveReleases, R
<1>2. /\ UNCHANGED sent /\ Seen(m)' = Seen(m) /\ bus'.ack = bus.ack
      /\ l \notin {"w3", "r3"} => UNCHANGED supplied
      /\ l \in {"w3", "r3"} => supplied' = Append(supplied, bus.dout)
  <2>1. ASSUME NEW d \in Data, SlaveReads(d) PROVE bus'.ack = bus.ack
    BY <2>1 DEF SlaveReads, TypeOK, Words
  <2>2. UNCHANGED sent /\ Seen(m)' = Seen(m) /\ bus'.ack = bus.ack
    BY <2>1 DEF Responder, SlaveWaits, SlaveSelected, SlaveTakes, SlaveReads, SlaveAcks,
                SlaveReleases, seqVars, busVars, Seen
  <2>3. R' = l
    BY <1>0, <1>1, ResponderRuns
  <2>4. CASE SlaveAcks
    <3>1. R' \in {"w3", "r3"}
      BY <1>0, <2>4, ResponderRuns DEF SlaveAcks
    <3> QED BY <2>2, <2>3, <2>4, <3>1 DEF SlaveAcks
  <2>5. CASE ~SlaveAcks
    <3>1. UNCHANGED supplied
      BY <2>5 DEF Responder, SlaveWaits, SlaveSelected, SlaveTakes, SlaveReads, SlaveReleases
    <3>2. R \notin {"w2", "r2"}
      BY <2>5 DEF Responder, SlaveWaits, SlaveSelected, SlaveTakes, SlaveReads, SlaveReleases, R
    <3> QED BY <1>1, <2>2, <3>1, <3>2
  <2> QED BY <2>4, <2>5
<1>3. /\ clk' = clk /\ D' = D /\ R' = l /\ at'[m] = at[m] /\ (m \in woken' <=> m \in woken)
      /\ "responder" \notin woken' /\ ("driver" \in woken' <=> "driver" \in woken)
      /\ "responder" \in woken \/ LevelHolds("responder")
  BY <1>0, <1>1, ResponderRuns
<1>4. /\ MonitorIdle(m) /\ MonitorAsking(m) /\ MonitorAcked(m)
      /\ MonitorReleased(m) /\ MonitorStart(m)
  BY DEF MonitorInv
<1>5. l \notin {"w1", "r1"} => "responder" \in woken
  BY <1>1, <1>3 DEF LevelHolds, R
<1>6. HandshakeInv' /\ D \in {"item", "drive", "strobe", "ack", "release"}
  BY HandshakeResponder DEF ItemInv, D
<1>7. CASE l \in {"again", "request"}
  <2>1. CASE R \in {"start", "again"}
    <3>1. D \notin {"release"} /\ R \notin {"w3", "r3"}
      BY <1>5, <1>7, <2>1 DEF HandshakeInv, Released
    <3>2. MonitorStart(m)'
      BY <1>1, <1>3, <1>4, <1>5, <1>7, <2>1 DEF MonitorStart
    <3>3. MonitorIdle(m)' /\ MonitorAsking(m)'
      BY <1>2, <1>3, <1>4, <1>7, <3>1 DEF MonitorIdle, MonitorAsking
    <3>4. MonitorAcked(m)' /\ MonitorReleased(m)'
      BY <1>3, <1>7, <3>1 DEF MonitorAcked, MonitorReleased
    <3> QED BY <3>2, <3>3, <3>4
  <2>2. CASE R \in {"w3", "r3"}
    <3>1. l = "again" /\ D = "release" /\ "responder" \in woken
      BY <1>1, <1>5, <1>7, <2>2 DEF HandshakeInv, Acked
    <3>2. Seen(m) = Len(sent) /\ at[m] = "release"
      <4>1. clk
        BY <2>2, <3>1 DEF HandshakeInv, Edges, AwaitsFall, R
      <4> QED BY <1>4, <2>2, <3>1, <4>1 DEF MonitorAcked
    <3> QED BY <1>2, <1>3, <3>1, <3>2 DEF MonitorIdle, MonitorAsking, MonitorAcked,
                                          MonitorReleased, MonitorStart
  <2> QED BY <1>1, <1>7, <2>1, <2>2
<1>8. CASE l \in {"w1", "r1"}
  <2>1. R = "request" /\ D' \in {"strobe", "ack"}
    BY <1>1, <1>3, <1>6, <1>8 DEF HandshakeInv, Idle, Released
  <2>2. at[m] # "start"
    BY <1>4, <2>1 DEF MonitorStart
  <2> QED BY <1>2, <1>3, <1>4, <1>8, <2>1, <2>2
          DEF MonitorIdle, MonitorAsking, MonitorAcked, MonitorReleased, MonitorStart
<1>9. CASE l \in {"w2", "r2"}
  <2>1. R \in {"w1", "r1"} /\ D' \in {"strobe", "ack"} /\ "responder" \in woken
    BY <1>1, <1>3, <1>5, <1>6, <1>9 DEF HandshakeInv, Idle, Released
  <2>2. at[m] = "ack" /\ Seen(m) = Len(supplied)
    BY <1>3, <1>4, <2>1 DEF MonitorAsking
  <2> QED BY <1>2, <1>3, <1>9, <2>1, <2>2
          DEF MonitorIdle, MonitorAsking, MonitorAcked, MonitorReleased, MonitorStart
<1>10. CASE l \in {"w3", "r3"}
  <2>1. R \in {"w2", "r2"} /\ D \in {"ack", "release"} /\ "responder" \in woken
    BY <1>1, <1>3, <1>5, <1>6, <1>10 DEF HandshakeInv, Acked
  <2>2. D = "ack"
    BY <2>1 DEF HandshakeInv, Released
  <2>3. at[m] = "ack" /\ Seen(m) = Len(supplied) /\ Len(supplied) = Len(sent) - 1
    BY <1>4, <2>1, <2>2 DEF MonitorAsking, HandshakeInv, Asking
  <2>4. clk
    BY <2>1 DEF HandshakeInv, Edges, AwaitsFall, R
  <2> QED BY <1>2, <1>3, <1>10, <2>2, <2>3, <2>4
          DEF MonitorIdle, MonitorAsking, MonitorAcked, MonitorReleased, MonitorStart
<1> QED BY <1>1, <1>7, <1>8, <1>9, <1>10

\* The observation that a monitor makes is the transfer under way.
LEMMA SampleRight ==
  ASSUME TypeOK, ItemInv, HandshakeInv, MonitorInv, NEW m \in Monitors, MonitorSamples(m)
  PROVE  /\ R \in {"w3", "r3"} /\ ~clk /\ Seen(m) = Len(sent) - 1 /\ Len(supplied) = Len(sent)
         /\ bus.ack
         /\ Sampled(m).write = Item.write /\ Sampled(m).addr = Item.addr
         /\ Item.write => Sampled(m).din = Item.din
         /\ ~Item.write => /\ Sampled(m).dout = supplied[Len(sent)]
                           /\ m = "master" => Sampled(m).tag = Item.tag
<1>1. at[m] = "sample" /\ m \in woken
  BY DEF MonitorSamples, Run, Runnable, LevelHolds
<1>2. ~clk
  BY <1>1 DEF HandshakeInv, Edges, AwaitsRise
<1>3. D \in {"item", "drive", "strobe", "ack", "release"}
  BY DEF ItemInv, D
<1>4. R \in {"w3", "r3"} /\ Seen(m) = Len(sent) - 1
  BY <1>1, <1>3 DEF MonitorInv, MonitorIdle, MonitorAsking, MonitorReleased, MonitorAcked
<1>5. Carries(bus) /\ Len(supplied) = Len(sent) /\ bus.ack
      /\ (~Item.write => supplied[Len(sent)] = bus.dout)
  BY <1>2, <1>4 DEF HandshakeInv, Acked
<1> QED BY <1>2, <1>4, <1>5 DEF Carries, Sampled

LEMMA MonitorOfMonitor ==
  ASSUME TypeOK, ItemInv, HandshakeInv, MonitorInv, NEW p \in Monitors, Monitor(p)
  PROVE  MonitorInv'
<1> SUFFICES ASSUME NEW m \in Monitors
             PROVE  /\ MonitorIdle(m)' /\ MonitorAsking(m)' /\ MonitorAcked(m)'
                    /\ MonitorReleased(m)' /\ MonitorStart(m)'
  BY DEF MonitorInv
<1>0. /\ {"request", "ack", "sample", "release"} \subseteq Labels /\ p \in Processes
      /\ "driver" \in Processes \ {p} /\ "responder" \in Processes \ {p} /\ m \in Processes
  BY DEF Labels, Processes, Monitors
<1>1. PICK l \in {"request", "ack", "sample", "release"} :
         /\ Run(p, l)
         /\ l = "request" => at[p] \in {"start", "release"}
         /\ l = "ack" => at[p] = "request"
         /\ l = "sample" => at[p] = "ack"
         /\ l = "release" => at[p] = "sample"
  <2>1. CASE MonitorWaits(p)
    BY <2>1 DEF MonitorWaits
  <2> QED BY <2>1 DEF Monitor, MonitorSamples, MonitorWrites
<1>2. /\ clk' = clk /\ at'[p] = l /\ p \notin woken' /\ D' = D /\ R' = R
      /\ m # p => at'[m] = at[m] /\ (m \in woken' <=> m \in woken)
      /\ "driver" \in woken' <=> "driver" \in woken
      /\ "responder" \in woken' <=> "responder" \in woken
      /\ p \in woken \/ LevelHolds(p)
  BY <1>0, <1>1, EdgesRun DEF HandshakeInv, D, R
<1>3. UNCHANGED <<bus, sent, supplied>>
  BY DEF Monitor, MonitorWaits, MonitorSamples, MonitorWrites, seqVars, busVars
<1>4. /\ MonitorIdle(m) /\ MonitorAsking(m) /\ MonitorAcked(m)
      /\ MonitorReleased(m) /\ MonitorStart(m)
  BY DEF MonitorInv
<1>d. D \in {"item", "drive", "strobe", "ack", "release"}
  BY DEF ItemInv, D
<1>5. CASE m # p
  <2>1. Seen(m)' = Seen(m)
    BY <1>5 DEF Monitor, MonitorWaits, MonitorSamples, MonitorWrites, Seen, TypeOK
  <2> QED BY <1>2, <1>3, <1>4, <1>5, <2>1
          DEF MonitorIdle, MonitorAsking, MonitorAcked, MonitorReleased, MonitorStart
<1>6. CASE m = p /\ l # "release"
  <2>1. Seen(m)' = Seen(m)
    <3>1. ~MonitorSamples(p)
      BY <1>1, <1>6 DEF MonitorSamples
    <3> QED BY <3>1 DEF Monitor, MonitorWaits, MonitorWrites, Seen
  <2>2. p \in woken => at[p] \in {"start", "sample"}
    BY <1>0, <1>1, <1>6 DEF HandshakeInv, Edges, AwaitsRise, AwaitsFall
  <2>3. CASE at[p] = "start"
    <3>1. p \in woken
      BY <1>2, <2>3 DEF LevelHolds
    <3>2. D # "release" /\ R \in {"start", "again"}
      BY <1>4, <1>6, <2>3, <3>1 DEF MonitorReleased, MonitorStart
    <3> QED BY <1>1, <1>2, <1>3, <1>4, <1>6, <2>1, <2>3, <3>2
            DEF MonitorIdle, MonitorAsking, MonitorAcked, MonitorReleased, MonitorStart
  <2>4. CASE at[p] = "release"
    <3>1. ~bus.ack /\ l = "request"
      BY <1>1, <1>2, <2>2, <2>4 DEF LevelHolds
    <3>2. R \notin {"w3", "r3"}
      <4>1. R \in {"w3", "r3"} => (~clk \/ "responder" \in woken)
        BY <1>4, <1>6, <2>4 DEF MonitorAcked
      <4> QED BY <3>1, <4>1 DEF HandshakeInv, Acked
    <3> QED BY <1>2, <1>3, <1>4, <1>6, <2>1, <2>4, <3>1, <3>2
            DEF MonitorIdle, MonitorAsking, MonitorAcked, MonitorReleased, MonitorStart
  <2>5. CASE at[p] = "request"
    <3>1. bus.req /\ l = "ack"
      BY <1>1, <1>2, <2>2, <2>5 DEF LevelHolds
    <3> QED BY <1>2, <1>3, <1>4, <1>6, <2>1, <2>5, <3>1
            DEF MonitorIdle, MonitorAsking, MonitorAcked, MonitorReleased, MonitorStart
  <2>6. CASE at[p] = "ack"
    <3>1. bus.ack /\ l = "sample"
      BY <1>1, <1>2, <2>2, <2>6 DEF LevelHolds
    <3>2. R \in {"w3", "r3"}
      BY <1>4, <1>6, <1>d, <2>6, <3>1
         DEF HandshakeInv, Idle, Asking, MonitorReleased
    <3>3. D \in {"ack", "release"}
      BY <3>2 DEF HandshakeInv, Acked
    <3> QED BY <1>2, <1>3, <1>4, <1>6, <2>1, <2>6, <3>1, <3>2, <3>3
            DEF MonitorIdle, MonitorAsking, MonitorAcked, MonitorReleased, MonitorStart
  <2> QED BY <1>1, <1>6, <2>3, <2>4, <2>5, <2>6
<1>7. CASE m = p /\ l = "release"
  <2>1. MonitorSamples(p)
    <3>1. at[p] = "sample"
      BY <1>1, <1>7
    <3> QED BY <3>1 DEF Monitor, MonitorWaits, MonitorWrites
  <2>2. R \in {"w3", "r3"} /\ ~clk /\ Seen(p) = Len(sent) - 1
    BY <2>1, SampleRight
  <2>3. D \in {"ack", "release"}
    BY <2>2 DEF HandshakeInv, Acked
  <2>4. Seen(p)' = Seen(p) + 1
    <3>1. observed' = [observed EXCEPT ![p] = Append(observed[p], Sampled(p))]
      BY <2>1 DEF MonitorSamples
    <3>2. observed'[p] = Append(observed[p], Sampled(p))
      BY <3>1 DEF TypeOK
    <3>3. Len(Append(observed[p], Sampled(p))) = Len(observed[p]) + 1
      BY DEF TypeOK
    <3> QED BY <3>2, <3>3 DEF Seen
  <2>5. Len(sent) \in Nat /\ Seen(p)' = Len(sent)
    BY <2>2, <2>4 DEF TypeOK
  <2> QED BY <1>2, <1>3, <1>4, <1>7, <2>2, <2>3, <2>5
          DEF MonitorIdle, MonitorAsking, MonitorAcked, MonitorReleased, MonitorStart
<1> QED BY <1>5, <1>6, <1>7

LEMMA MonitorSequence ==
  ASSUME TypeOK, ItemInv, HandshakeInv, MonitorInv, Poll \/ \E it \in Items : Send(it)
  PROVE  MonitorInv'
<1> SUFFICES ASSUME NEW m \in Monitors
             PROVE  /\ MonitorIdle(m)' /\ MonitorAsking(m)' /\ MonitorAcked(m)'
                    /\ MonitorReleased(m)' /\ MonitorStart(m)'
  BY DEF MonitorInv
<1>1. /\ MonitorIdle(m) /\ MonitorAsking(m) /\ MonitorAcked(m)
      /\ MonitorReleased(m) /\ MonitorStart(m)
  BY DEF MonitorInv
<1>2. CASE Poll
  <2>1. /\ UNCHANGED <<bus, sent, supplied, clk, woken>> /\ D' = D /\ R' = R
        /\ at'[m] = at[m] /\ Seen(m)' = Seen(m)
    BY <1>2 DEF Poll, busVars, D, R, Seen
  <2> QED BY <1>1, <2>1
          DEF MonitorIdle, MonitorAsking, MonitorAcked, MonitorReleased, MonitorStart
<1>3. ASSUME NEW it \in Items, Send(it)
      PROVE  /\ MonitorIdle(m)' /\ MonitorAsking(m)' /\ MonitorAcked(m)'
             /\ MonitorReleased(m)' /\ MonitorStart(m)'
  <2>1. /\ D = "item" /\ UNCHANGED <<bus, supplied, clk, woken>> /\ Seen(m)' = Seen(m)
        /\ at' = [at EXCEPT !["driver"] = "drive"]
    BY <1>3 DEF Send, busVars, D, Seen
  <2>2. D' = "drive" /\ R' = R /\ at'[m] = at[m]
    BY <2>1 DEF D, R, TypeOK, Processes, Monitors
  <2>3. R \notin {"w3", "r3"}
    BY <2>1 DEF HandshakeInv, Idle
  <2> QED BY <1>1, <2>1, <2>2, <2>3
          DEF MonitorIdle, MonitorAsking, MonitorAcked, MonitorReleased, MonitorStart
<1> QED BY <1>2, <1>3

LEMMA MonitorInductive ==
  ASSUME TypeOK, ItemInv, HandshakeInv, MonitorInv, [Next]_vars
  PROVE  MonitorInv'
<1>1. CASE UNCHANGED vars
  <2>1. /\ UNCHANGED <<bus, sent, supplied, clk, woken, at>> /\ D' = D /\ R' = R
        /\ \A m \in Monitors : Seen(m)' = Seen(m)
    BY <1>1 DEF vars, seqVars, busVars, D, R, Seen
  <2> QED BY <2>1 DEF MonitorInv, MonitorIdle, MonitorAsking, MonitorAcked, MonitorReleased,
                      MonitorStart
<1> QED BY <1>1, MonitorUpdate, MonitorClock, MonitorOfDriver, MonitorOfResponder,
           MonitorOfMonitor, MonitorSequence DEF Next, Simulator

-----------------------------------------------------------------------------
(* What was observed.                                                      *)

\* No more is observed than was sent, or supplied by the responder.
LEMMA SeenBounds ==
  ASSUME TypeOK, ItemInv, HandshakeInv, MonitorInv, NEW m \in Monitors
  PROVE  /\ Seen(m) \in Nat /\ Seen(m) <= Len(supplied) /\ Seen(m) <= Len(sent)
         /\ D = "item" => Seen(m) = Len(sent)
<1>1. /\ Seen(m) \in Nat /\ Len(sent) \in Nat /\ Len(supplied) \in Nat
  BY DEF TypeOK, Seen
<1>2. D \in {"item", "drive", "strobe", "ack", "release"}
  BY DEF ItemInv, D
<1>3. CASE D \in {"item", "drive"}
  BY <1>1, <1>3 DEF MonitorInv, MonitorIdle, HandshakeInv, Idle
<1>4. CASE D \notin {"item", "drive"} /\ R \in {"w3", "r3"}
  BY <1>1, <1>4 DEF MonitorInv, MonitorAcked, HandshakeInv, Acked
<1>5. CASE D \in {"strobe", "ack"} /\ R \notin {"w3", "r3"}
  BY <1>1, <1>5 DEF MonitorInv, MonitorAsking, HandshakeInv, Asking
<1>6. CASE D = "release" /\ R \notin {"w3", "r3"}
  BY <1>1, <1>6 DEF MonitorInv, MonitorReleased, HandshakeInv, Released
<1> QED BY <1>2, <1>3, <1>4, <1>5, <1>6

\* The items and words of the past stay as they were.
LEMMA PastKept ==
  ASSUME TypeOK, [Next]_vars
  PROVE  /\ Len(sent) \in Nat /\ Len(supplied) \in Nat
         /\ Len(sent') >= Len(sent) /\ Len(supplied') >= Len(supplied)
         /\ \A i \in 1..Len(sent) : sent'[i] = sent[i]
         /\ \A i \in 1..Len(supplied) : supplied'[i] = supplied[i]
<1>1. sent \in Seq(Items) /\ supplied \in Seq(Data) /\ bus.dout \in Data
  BY DEF TypeOK, Words
<1>2. sent' = sent \/ \E it \in Items : sent' = Append(sent, it)
  BY DEF Next, Simulator, Update, ClockEdge, Driver, DriveWrite, DriveRead, AwaitAck,
         AwaitRelease, Complete, Responder, SlaveWaits, SlaveSelected, SlaveTakes, SlaveReads,
         SlaveAcks, SlaveReleases, Monitor, MonitorWaits, MonitorSamples, MonitorWrites, Poll,
         Send, vars, seqVars
<1>3. supplied' = supplied \/ supplied' = Append(supplied, bus.dout)
  BY DEF Next, Simulator, Update, ClockEdge, Driver, DriveWrite, DriveRead, AwaitAck,
         AwaitRelease, Complete, Responder, SlaveWaits, SlaveSelected, SlaveTakes, SlaveReads,
         SlaveAcks, SlaveReleases, Monitor, MonitorWaits, MonitorSamples, MonitorWrites, Poll,
         Send, vars, seqVars
<1>4. /\ Len(sent') >= Len(sent) /\ \A i \in 1..Len(sent) : sent'[i] = sent[i]
  <2>1. CASE sent' = sent
    BY <1>1, <2>1
  <2>2. ASSUME NEW it \in Items, sent' = Append(sent, it)
        PROVE  /\ Len(sent') >= Len(sent) /\ \A i \in 1..Len(sent) : sent'[i] = sent[i]
    BY <1>1, <2>2, Appended
  <2> QED BY <1>2, <2>1, <2>2
<1>5. /\ Len(supplied') >= Len(supplied)
      /\ \A i \in 1..Len(supplied) : supplied'[i] = supplied[i]
  BY <1>1, <1>3, Appended
<1> QED BY <1>1, <1>4, <1>5

LEMMA ObservedInductive ==
  ASSUME TypeOK, ItemInv, HandshakeInv, MonitorInv, ObservedInv, [Next]_vars
  PROVE  ObservedInv'
<1> SUFFICES ASSUME NEW m \in Monitors, NEW i \in 1..Seen(m)'
             PROVE  ObservesTransfer(m, i)'
  BY DEF ObservedInv
<1>1. Seen(m) \in Nat /\ Seen(m) <= Len(supplied) /\ Seen(m) <= Len(sent)
  BY SeenBounds
<1>2. CASE i \in 1..Seen(m) /\ observed'[m][i] = observed[m][i]
  <2>1. sent'[i] = sent[i] /\ supplied'[i] = supplied[i]
    BY <1>1, <1>2, PastKept
  <2>2. ObservesTransfer(m, i)
    BY <1>2 DEF ObservedInv
  <2> QED BY <1>2, <2>1, <2>2 DEF ObservesTransfer
<1>3. CASE MonitorSamples(m)
  <2>1. observed'[m] = Append(observed[m], Sampled(m)) /\ UNCHANGED <<sent, supplied>>
    BY <1>3 DEF MonitorSamples, seqVars, TypeOK
  <2>2. /\ Seen(m)' = Seen(m) + 1 /\ observed'[m][Seen(m) + 1] = Sampled(m)
        /\ \A j \in 1..Seen(m) : observed'[m][j] = observed[m][j]
    BY <1>1, <2>1 DEF Seen, TypeOK
  <2>3. Seen(m) = Len(sent) - 1
    BY <1>3, SampleRight
  <2>n. Len(sent) \in Nat
    BY DEF TypeOK
  <2>4. CASE i = Seen(m) + 1
    <3>1. i = Len(sent) /\ observed'[m][i] = Sampled(m) /\ sent'[i] = Item
          /\ supplied'[i] = supplied[Len(sent)]
      <4>1. i = Len(sent)
        BY <1>1, <2>n, <2>3, <2>4
      <4>2. observed'[m][i] = Sampled(m)
        BY <2>2, <2>4
      <4> QED BY <2>1, <4>1, <4>2 DEF Item
    <3> QED BY <1>3, <3>1, SampleRight DEF ObservesTransfer
  <2> QED BY <1>1, <1>2, <2>2, <2>4
<1>4. CASE ~MonitorSamples(m)
  <2>1. observed'[m] = observed[m]
    BY <1>4 DEF Next, Simulator, Update, ClockEdge, Driver, DriveWrite, DriveRead, AwaitAck,
         AwaitRelease, Complete, Responder, SlaveWaits, SlaveSelected, SlaveTakes, SlaveReads,
         SlaveAcks, SlaveReleases, Monitor, MonitorWaits, MonitorSamples, MonitorWrites, Poll,
         Send, vars, TypeOK
  <2> QED BY <1>2, <2>1 DEF Seen
<1> QED BY <1>3, <1>4

\* Both monitors see every transfer once, in order, with the values transferred, for
\* sequences of any length and in whatever order the simulator runs the processes of a
\* time slot (wb_if.sv:18-92, wb_master_monitor.sv:38-69, wb_slave_monitor.sv:37-66).
THEOREM MonitorsSeeTransfers == Spec => []TransfersObserved
<1>1. Init => TypeOK /\ ItemInv /\ HandshakeInv /\ MonitorInv /\ ObservedInv
  BY InitType, HandshakeInit, MonitorInit, BfmAssumption
<1>2. TypeOK /\ ItemInv /\ HandshakeInv /\ MonitorInv /\ ObservedInv /\ [Next]_vars
        => TypeOK' /\ ItemInv' /\ HandshakeInv' /\ MonitorInv' /\ ObservedInv'
  BY TypeInductive, HandshakeInductive, MonitorInductive, ObservedInductive, BfmAssumption
<1>3. TypeOK /\ ItemInv /\ HandshakeInv /\ MonitorInv /\ ObservedInv => TransfersObserved
  BY SeenBounds DEF ObservedInv, TransfersObserved, Seen, ItemInv, D
<1> QED BY <1>1, <1>2, <1>3, PTL DEF Spec

-----------------------------------------------------------------------------
(* The responses.                                                          *)

LEMMA PolledInit == ASSUME Init PROVE PolledInv
BY DEF Init, PolledInv

\* The response is the item's: its address and, for a read, the word supplied.
LEMMA ResponseRight ==
  ASSUME TypeOK, ItemInv, HandshakeInv, Complete
  PROVE  ResponseOfTransfer(Response, Len(sent)) /\ Len(supplied) = Len(sent)
<1>1. D = "release"
  BY DEF Complete, D
<1>2. Carries(bus) /\ Len(supplied) = Len(sent) /\ (~Item.write => supplied[Len(sent)] = bus.dout)
  BY <1>1 DEF HandshakeInv, Acked, Released
<1> QED BY <1>2 DEF Carries, Response, ResponseOfTransfer, Item

\* The same of the items and words after a step.
RightAfter(r, i) == r.addr = sent'[i].addr /\ (~sent'[i].write => r.data = supplied'[i])

\* What was right of a transfer that is over stays right.
LEMMA ResponseKept ==
  ASSUME TypeOK, [Next]_vars, NEW r, NEW i \in 1..Len(sent), i <= Len(supplied),
         ResponseOfTransfer(r, i)
  PROVE  RightAfter(r, i)
<1>1. sent'[i] = sent[i]
  BY PastKept
<1>2. supplied'[i] = supplied[i]
  <2>1. i \in 1..Len(supplied)
    BY DEF TypeOK
  <2> QED BY <2>1, PastKept
<1> QED BY <1>1, <1>2 DEF ResponseOfTransfer, RightAfter

LEMMA SuppliedBound ==
  ASSUME TypeOK, ItemInv, HandshakeInv
  PROVE  /\ Len(sent) \in Nat /\ Len(supplied) \in Nat
         /\ Len(supplied) >= Len(sent) - 1
         /\ seqAt # "sent" => Len(supplied) = Len(sent)
<1>1. Len(sent) \in Nat /\ Len(supplied) \in Nat
  BY DEF TypeOK
<1>2. D \in {"item", "drive", "strobe", "ack", "release"} /\ (seqAt = "sent" <=> D # "item")
  BY DEF ItemInv, D
<1>3. CASE D \in {"item", "drive"}
  BY <1>1, <1>2, <1>3 DEF HandshakeInv, Idle
<1>4. CASE D \notin {"item", "drive"}
  BY <1>1, <1>2, <1>4 DEF HandshakeInv, Asking, Acked, Released
<1> QED BY <1>3, <1>4

LEMMA PolledInductive ==
  ASSUME TypeOK, ItemInv, HandshakeInv, PolledInv, [Next]_vars, BfmAssumption
  PROVE  PolledInv'
<1> SUFFICES ASSUME AllPoll'
             PROVE  /\ \A i \in 1..Len(polled') :
                         polled'[i].of = i /\ RightAfter(polled'[i].rsp, i)
                    /\ seqAt' = "ready" => Len(polled') = Len(sent') /\ responses' = <<>>
                    /\ seqAt' = "sent" => Len(polled') = Len(sent') - 1 /\ responses' = <<>>
                    /\ seqAt' = "polling" =>
                         /\ Len(polled') = Len(sent') - 1 /\ Len(responses') = 1
                         /\ RightAfter(responses'[1], Len(sent'))
  BY DEF PolledInv, ResponseOfTransfer, RightAfter
<1>1. AllPoll
  <2>1. \A i \in 1..Len(sent) : sent'[i] = sent[i]
    BY PastKept
  <2>2. Len(sent') \in Nat
    BY TypeInductive DEF TypeOK
  <2>3. Len(sent) \in Nat /\ Len(sent') >= Len(sent)
    BY PastKept
  <2> QED BY <2>1, <2>2, <2>3 DEF AllPoll
<1>2. /\ \A i \in 1..Len(polled) : polled[i].of = i /\ ResponseOfTransfer(polled[i].rsp, i)
      /\ seqAt = "ready" => Len(polled) = Len(sent) /\ responses = <<>>
      /\ seqAt = "sent" => Len(polled) = Len(sent) - 1 /\ responses = <<>>
      /\ seqAt = "polling" => /\ Len(polled) = Len(sent) - 1 /\ Len(responses) = 1
                              /\ ResponseOfTransfer(responses[1], Len(sent))
  BY <1>1 DEF PolledInv
<1>3. /\ Len(sent) \in Nat /\ Len(supplied) \in Nat /\ Len(polled) \in Nat
      /\ Len(supplied) >= Len(sent) - 1 /\ (seqAt # "sent" => Len(supplied) = Len(sent))
      /\ seqAt \in {"ready", "sent", "polling"}
  <2>1. Len(polled) \in Nat /\ seqAt \in {"ready", "sent", "polling"}
    BY DEF TypeOK
  <2> QED BY <2>1, SuppliedBound
\* The responses taken in the past stay right.
<1>4. \A i \in 1..Len(polled) : polled[i].of = i /\ RightAfter(polled[i].rsp, i)
  <2> TAKE i \in 1..Len(polled)
  <2>1. i \in 1..Len(sent) /\ i <= Len(supplied)
    BY <1>2, <1>3
  <2>2. polled[i].of = i /\ ResponseOfTransfer(polled[i].rsp, i)
    BY <1>2
  <2> QED BY <2>1, <2>2, ResponseKept
<1>5. CASE Complete
  <2>1. /\ seqAt = "sent" /\ UNCHANGED <<polled, sent>> /\ sent # <<>>
    BY <1>5 DEF Complete, ItemInv
  <2>2. seqAt' = "polling"
    <3>1. Len(sent) \in 1..Len(sent)
      BY <1>3, <2>1 DEF TypeOK
    <3>2. Item.poll
      BY <1>1, <3>1 DEF AllPoll, Item
    <3> QED BY <1>5, <3>2 DEF Complete
  <2>3. responses' = <<Response>>
    <3>1. responses = <<>> /\ Len(responses) = 0 /\ 0 < ResponseDepth
      BY <1>2, <2>1 DEF BfmAssumption
    <3> QED BY <1>5, <3>1 DEF Complete, PutResponse
  <2>4. ResponseOfTransfer(Response, Len(sent)) /\ Len(supplied) = Len(sent)
    BY <1>5, ResponseRight
  <2>5. RightAfter(responses'[1], Len(sent'))
    <3>1. Len(sent) \in 1..Len(sent) /\ Len(sent) <= Len(supplied)
      BY <1>3, <2>1, <2>4 DEF TypeOK
    <3>2. PICK r : r = Response
      OBVIOUS
    <3>3. PICK n \in 1..Len(sent) : n = Len(sent) /\ n <= Len(supplied)
      BY <3>1
    <3>4. RightAfter(r, n)
      BY <2>4, <3>2, <3>3, ResponseKept
    <3>5. responses'[1] = r /\ Len(sent') = n
      BY <2>1, <2>3, <3>2, <3>3
    <3> QED BY <3>4, <3>5
  <2> QED BY <1>2, <1>4, <2>1, <2>2, <2>3, <2>5
<1>6. CASE Poll
  <2>1. /\ seqAt = "polling" /\ seqAt' = "ready" /\ responses # <<>> /\ UNCHANGED <<sent, supplied>>
        /\ polled' = Append(polled, [of |-> Len(sent), rsp |-> Head(responses)])
        /\ responses' = Tail(responses)
    BY <1>6 DEF Poll
  <2>2. /\ Head(responses) = responses[1] /\ Len(Tail(responses)) = Len(responses) - 1
        /\ Tail(responses) \in Seq([addr : Addrs \cup {0}, data : Data])
    BY <2>1, Taken DEF TypeOK
  <2>3. Len(polled) = Len(sent) - 1 /\ Len(responses) = 1
        /\ ResponseOfTransfer(responses[1], Len(sent))
    BY <1>2, <2>1
  <2>4. responses' = <<>>
    BY <2>1, <2>2, <2>3
  <2>5. /\ Len(polled') = Len(sent) /\ polled'[Len(sent)].of = Len(sent)
        /\ polled'[Len(sent)].rsp = responses[1]
        /\ \A i \in 1..Len(polled) : polled'[i] = polled[i]
    <3>1. polled \in Seq([of : Nat, rsp : [addr : Addrs \cup {0}, data : Data]])
      BY DEF TypeOK
    <3>2. [of |-> Len(sent), rsp |-> Head(responses)]
            \in [of : Nat, rsp : [addr : Addrs \cup {0}, data : Data]]
      BY <1>3, <2>1, Taken DEF TypeOK
    <3>3. /\ Len(polled') = Len(polled) + 1
          /\ polled'[Len(polled) + 1] = [of |-> Len(sent), rsp |-> Head(responses)]
          /\ \A i \in 1..Len(polled) : polled'[i] = polled[i]
      BY <2>1, <3>1, <3>2, Appended
    <3>4. Len(polled) + 1 = Len(sent)
      BY <1>3, <2>3
    <3> QED BY <2>2, <3>3, <3>4
  <2>6. ASSUME NEW i \in 1..Len(polled')
        PROVE  polled'[i].of = i /\ RightAfter(polled'[i].rsp, i)
    <3>1. CASE i \in 1..Len(polled)
      BY <1>4, <2>5, <3>1
    <3>2. CASE i = Len(sent)
      BY <2>1, <2>3, <2>5, <3>2 DEF ResponseOfTransfer, RightAfter
    <3> QED BY <1>3, <2>3, <2>5, <3>1, <3>2
  <2> QED BY <2>1, <2>4, <2>5, <2>6
<1>7. ASSUME NEW it \in Items, Send(it)
      PROVE  /\ seqAt = "ready" /\ seqAt' = "sent" /\ UNCHANGED <<responses, polled>>
             /\ Len(sent') = Len(sent) + 1
  BY <1>7, Appended DEF Send, TypeOK
<1>8. CASE ~Complete /\ ~Poll /\ \A it \in Items : ~Send(it)
  <2>1. UNCHANGED <<seqAt, responses, polled, sent>>
    BY <1>8 DEF Next, Simulator, Update, ClockEdge, Driver, DriveWrite, DriveRead, AwaitAck,
         AwaitRelease, Responder, SlaveWaits, SlaveSelected, SlaveTakes, SlaveReads,
         SlaveAcks, SlaveReleases, Monitor, MonitorWaits, MonitorSamples, MonitorWrites,
         vars, seqVars
  <2>2. ASSUME seqAt = "polling" PROVE RightAfter(responses[1], Len(sent))
    <3>1. Len(sent) # 0
      BY <1>2, <1>3, <2>2
    <3>2. PICK r : r = responses[1]
      OBVIOUS
    <3>3. PICK n \in 1..Len(sent) : n = Len(sent) /\ n <= Len(supplied)
      BY <1>3, <2>2, <3>1
    <3>4. RightAfter(r, n)
      BY <1>2, <2>2, <3>2, <3>3, ResponseKept
    <3> QED BY <2>1, <3>2, <3>3, <3>4
  <2> QED BY <1>2, <1>4, <2>1, <2>2
<1> QED BY <1>2, <1>3, <1>4, <1>5, <1>6, <1>7, <1>8

\* A sequence that polls after every item gets the response to that item, and none is
\* dropped, for sequences and response queues of any length (wb_if.sv:18-92,
\* wb_master_driver.sv:26-49, wb_uart_sequences.sv:123-132).
THEOREM PollsInStep == Spec => []PolledInStep
<1>1. Init => TypeOK /\ ItemInv /\ HandshakeInv /\ PolledInv
  BY InitType, HandshakeInit, PolledInit, BfmAssumption
<1>2. TypeOK /\ ItemInv /\ HandshakeInv /\ PolledInv /\ [Next]_vars
        => TypeOK' /\ ItemInv' /\ HandshakeInv' /\ PolledInv'
  BY TypeInductive, HandshakeInductive, PolledInductive, BfmAssumption
<1>3. PolledInv => PolledInStep
  BY DEF PolledInv, PolledInStep, AllPoll
<1> QED BY <1>1, <1>2, <1>3, PTL DEF Spec
=============================================================================
