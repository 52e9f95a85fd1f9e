# A TLA+ verification project for soc_verification

The repository is the verification environment of a RISC-V system on chip: UVM
components that drive and observe the chip's interfaces, a scoreboard that
judges what they observe, simulation support in C++, and a few RTL modules. Its
code is concurrent (UVM phases, forked loops, monitors, always blocks, a socket
peer) and its hard questions are about ordering: what happens in the same time
slot, what a process sees after it has waited, what is left over from an earlier
transfer. Those are the questions asked here. `PROJECT.json` lists every
component, run, mutant, hazard and theorem, and maps each definition to the
source lines it translates.

Most of the DUT (the core, the bus interconnect, the debug module, the UART, SPI
and I2C peripherals) and the UVM agents and reference models of the peripherals
are git submodules that are absent. They appear only as far as the present code
uses them, as external definitions.

## 1. Inventory

### A. Clock-and-reset UVC (`Soc/clock_and_reset/sv`)
- *State*: in the interface, `run_clock`, `reset_delay`, `clock_cycles_to_count`
  and the event `clock_cycle_count_reached`; in the driver, the delta queue
  `count_clocks_request_queue`; in each sequence, whether it waits for a response.
- *Operations*: start or stop the clock and pulse reset; ask for a number of
  clocks and block until they have passed; the clock edge; the response loop; the
  report at the end of the test.
- *Interaction*: any number of sequences share one driver, the driver shares one
  counter, and a process forked from `run_phase` pops what the request loop
  inserts. They communicate by an event and a shared queue without a lock.
- *Hard*: requests that arrive while others are counted, deadlines equal to the head's
  or to a later one's, a request in the slot between the event and its response, the zero-time do-while.
- *Correct when*: everybody is answered, in the cycle asked for, exactly once; the
  queue always stands for the deadlines; time is never stopped; leftovers are
  reported.

### B. Wishbone BFM (`Soc/wb_bfm/sv`)
- *State*: the wires of `wb_if`, where each process blocks, pending nonblocking
  assignments, the sequence's response queue (8 deep by default in UVM).
- *Operations*: `send_to_dut`, `responsd_to_master`, the two `collect` tasks,
  `put_response` and `get_response`.
- *Interaction*: master driver, slave driver and two monitors meet on levels of
  `stb`, `cyc` and `ack` and on clock edges. The SoC bench instantiates one master
  and lets the DUT answer; the BFM's own bench pairs master and slave.
- *Hard*: assignments with `<=` in the same slot in which others leave a `wait`;
  sampling after release; responses nobody collects.
- *Correct when*: each transfer is observed once and with its values, responses
  belong to their transfers, no process waits for a level that is over.

### C. SoC scoreboard and reference environment (`Soc/soc_ref_module`)
- *State*: two UART FIFOs (100 deep), the reference models' queues, one shared
  `result` record, the list of results.
- *Operations*: routing by address (`wb_ref_model.write_wb`), `write_*` of the
  monitors' ports, the compare functions, `run_phase`.
- *Interaction*: analysis ports call into it in zero time; `run_phase` is its only
  process and takes from the FIFOs. The reference models are submodules.
- *Hard*: pairing by position of two untagged streams, bounded FIFOs filled with
  `try_put`, resets and empty reads, a `forever` that blocks only in UART tests, SPI
  and I2C queues popped blindly.
- *Correct when*: a byte fails if and only if the UART garbled it, and every byte
  is judged.

### D. GPIO and IO multiplexer (`Peripherals/gpio_uvc/rtl`)
- *State*: `rgpio_out`, `rgpio_oe`, `io_sel`. The multiplexer and the pad cells are
  combinational.
- *Operations*: Wishbone writes with byte selects, reset, reads, combinational
  acknowledge; software gives a shared pin to its peripheral and back.
- *Interaction*: software, peripherals and what is connected to the pads act on the
  same 24 pads without knowing of each other.
- *Hard*: three registers of different widths written a byte at a time, pins that
  change their owner while lines move, enables of two polarities in a row.
- *Correct when*: a pin does what the last writes of its own bits say, only its
  owner moves it, and a selected output reaches its pad.

### E. RVFI tracker (`RV32_SoC/modules/tracer_modules/rvfi_tracker_delay.sv`)
- *State*: the queue `inst_file` of instructions in issue order, and one delayed pc.
- *Operations*: on each clock enter the instruction in ID, give results from MEM and
  WB to entries by their pc, report the front when it is finished, drop the two
  entries behind a taken branch.
- *Interaction*: it taps the signals of a core that is not in the repository.
- *Hard*: units of different latency, stalls, flushes, loops that repeat a pc.
- *Correct when*: what is reported is the program in its order, with each
  instruction's own result, and nothing complete stays in the queue.

### F. JTAG remote-bitbang bridge (`RivRtos/src/tb`)
- *State*: in `SimJTAG.sv` the tick counter, the sticky flag and the registered pins;
  in `remote_bitbang_t` the connection, the pins held, `tdo`, `quit`.
- *Operations*: a clock edge, the call `jtag_tick`, accept, execute one command.
- *Interaction*: the call runs in the simulator's thread, so waiting for the socket
  stops the clock; the remote connects, sends, reads and leaves as it likes.
- *Hard*: spinning on a non-blocking socket, a remote that leaves, a second remote,
  which TDO an 'R' reports.
- *Correct when*: commands take effect in order, one per call, replies are current,
  and what was sent is executed.

### G. Sequences and tests (`Peripherals/*/sequences`, `Soc/sequences`, `Soc/tests`)
- Straight-line register accesses, with loops that poll IIR or LSR through
  `get_response`, without a timeout.

### H. SoC integration (`RivRtos/src/soc/rv32i_soc.sv`)
- The instruction memory's port is shared between fetch and the data bus; the boot
  ROM's instruction register and its select flag stall differently.

### I. GPIO UVC (`Peripherals/gpio_uvc/sv`, `tb`)
- A sketch that does not elaborate: its scoreboard reads a field the transaction lacks
  and its bench includes files that are not there.

### J. Not protocol code
- Bench tops and wiring, the tracer's text formatting, generated simulator output
  (C stubs and headers included), logs, waveforms, hex images, constraint files.

## 2. Modules, and how they correspond to the code

| module | models | extends or instantiates |
|---|---|---|
| `ClockReset` | A, complete: driver, interface, sequences, clock generator | instantiates `CountService` |
| `CountService` | what A promises: the deadline of each request | |
| `ClockResetProofs` | type correctness of A, lemmas about sequences | `ClockReset` |
| `ClockResetExact` | exactness of the queue, refinement of `CountService` | `ClockResetProofs` |
| `ClockResetQueue` | what holds with ties and races: nothing lost, nobody answered early | `ClockResetProofs` |
| `JtagBridge` | F, complete, with remotes and sockets | instantiates `BitbangService` |
| `BitbangService` | what F promises to the remotes: commands take effect at once, in turn | |
| `JtagBridgeProofs` | types, replies, pins, refinement of `BitbangService` | `JtagBridge` |
| `WishboneBfm`, `WishboneBfmProofs` | B, complete, with the simulator's time slots | |
| `UartScoreboard` | the UART side of C, with UART, agents and traffic | |
| `UartScoreboardProofs` | types, no byte judged twice, the two streams in step | `UartScoreboard` |
| `GpioPins`, `GpioPinsProofs` | D, complete: registers, multiplexer, pads | |
| `RvfiTracker`, `RvfiTrackerProofs` | E, complete, over an abstract pipeline | |
| `MC...` | values of the constants | the module of the same name |

Only the definitions at the head of each module's property section are about
correctness; everything above it is code. An operator introduced as "Mutant of X"
is X with a plausible bug, used to show that a property can be broken.

**ClockReset.** One action per branch of the code: `StartClock` and the four
`Queue...` actions are the branches of `run_phase` and
`queue_count_clock_requests`; `ScanInsert`, `ScanNext` and `ScanLast` are the
iterations of its for loop; `ResponseWake`, `ResponseSchedule` and `ResponseDue`
those of the do-while of `issue_count_clocks_response`; `Tick` is the interface's
pair of always blocks, `EndOfTest` is `report_phase`. A simulator does not preempt
a process, so while one is inside a zero-time loop (`driverPc = "scan"`,
`responsePc = "loop"`) nothing else moves: that is what `Quiescent` says, and why a
do-while that never ends stops time. `remaining` is a history variable: the clocks
left until each deadline, counted by nobody in the code. Two flags restrict the
usage: `AllowTies` (two outstanding requests due in the same cycle) and
`AllowRace` (a request taken in the slot between the event and the response loop).

**JtagBridge.** `Clock` is SimJTAG's clocked block, up to the call of `jtag_tick`;
`Serve` is the call, step by step: `Accept` with its loop, `Execute` and `Abort` for
the read, the command and the write, `Return` for the pins passed back. Remotes
take their own steps at any time, which includes the middle of a call and, as an
over-approximation, the time before the first call has made the listening socket. The debug
module is abstracted to the number of pin changes its TDO reflects, so that a stale
reply is visible as a smaller number. `BitbangService` knows no clock, no call and no
sampled or held value: the remote served, what it has sent, how much of that has taken
effect, the levels at the TAP and the answers. The refinement mapping takes the remotes
served so far from the states of the connections (`Accepted`) and the levels from the
five registered pins (`PinLevels`); the others are the bridge's own variables.

**WishboneBfm.** Simulated time is a part of the model. In a time slot the runnable
processes run in any order; `bus` holds the wires, `nextBus` what they will be
after the nonblocking assignments; `Update` and `ClockEdge` happen only when nobody
can run. Each blocking statement of a task is a label of `at`, and each stretch
between two of them is an action.

**UartScoreboard.** Bytes are numbers that all differ. Bytes written on Wishbone and
frames seen by the sending agent's monitor are expected; bytes read from RBR and
frames seen by the receiving agent's monitor are actual. `GetExpected` and
`GetActual` are the two blocking gets of `run_phase`. Time passes only while
`run_phase` is blocked (`CompareBlocked`), but a monitor may publish a frame before
or after the UART has it and even after the test has read it. `plain` is a history
flag: so far the test has used one direction at a time in format 8N1 when writing,
has not reset a FIFO with data in it, and has not read an empty receiver. `Usage` says which
of these departures a test may make. A further one is excluded in every usage, by the
guards of `WriteThr` and `DriveFrame`: a test neither writes to a full transmitter nor has
a frame driven into a full receiver, since which byte is lost then is up to the absent
UART. LCR may be written at any time, also with bytes in flight. The verdicts on register reads (divisor latch,
IER, IIR, LCR) are left out: they compare with the absent reference model.

**GpioPins.** A word is the set of its bits that are 1. The three registers are state;
`Out`, `Enable`, `Driven` and `Pad` are the assigns of `io_mux.sv` and the pad cell,
as operators over the registers, the peripherals' lines and what drives the pads
from outside. `Enable` and `Driven` return the set of values possible, because
nothing assigns `en_gpio[10:0]`. `written` is a history variable: the
last word written to each byte of each register, whatever the register's width,
against which the masked registers are compared. The
SoC's own `RivRtos/src/soc/io_mux.sv` is an older variant with 15 shared pins and the
same constants for the enables.

**RvfiTracker.** `Track` is the always block, in the order of its statements: `Pushed`
(with the removal of a second copy of a stalled instruction), `Matched` (the for
loop, including its `break`), `Report` and `Removed`. The core is external: stages
ID, EXE, MEM and WB, units that hold long operations and give up their results in
any order when the p_mux takes them, branches decided in MEM with two wrong-path
instructions behind them, stalls of the data memory. Instructions are numbered in
program order, so that a result of another instruction is a wrong number. Reset
empties the pipeline and not `inst_file`. `clean` is a history flag that falls when
one of four situations comes up which the tracker cannot get right:
`BranchOvertakes` (a taken branch gets its result while an older instruction is
unreported, so two entries of the right path may be dropped later), `LoadPassedBy`
(the `break` at an older entry's match skips the load whose word is in WB),
`LoadWaits` (a load stalled in MEM takes what is in WB) and a reset of a busy core.
These cannot be judged as bugs without the core, which may exclude them; what is
shown, by the run and for every program by the proof, is that in such a pipeline they
are the only ones.

## 3. Runs, bounds and what they show

| run | distinct states | shows |
|---|---|---|
| `clock_distinct` | 27,111 | exactness, refinement, liveness with distinct deadlines |
| `clock_ties` | 337,761 | no request lost, doubled or answered early, whatever arrives when; includes the behaviours of `clock_distinct` |
| `clock_race` | violation | a request at the wrong moment stops time |
| `clock_late` | violation | after a tie with the head, the next request makes the head's answer late |
| `jtag_session` | 426,709 | two remotes, one queued behind the other: commands, pins, replies; refinement |
| `jtag_silence` | violation | a silent remote stops the clock |
| `wb_bus` | 144,070 | master, slave and monitors agree in every slot order |
| `wb_stale_response` | violation | polling after uncollected writes reads stale responses |
| `score_traffic` | 192,946 | verdicts are right and complete in plain traffic |
| `tracker_order` | 15,367 | out-of-order completion is reported in order, nothing is stuck |
| `gpio_pins` | 139,968 | pins follow their writes and move only with their owner |
| `gpio_select` | violation | a selected output is not driven |

Why the bounds are enough:

- *Clock*: three sequences with counts up to 4 reach an empty queue, a head, a last
  item and an item between them, insertion at each place and redundant items; the
  for loop makes up to two iterations. Sequences ask again and again, so the queue's
  history is not bounded. `MaxStarts = 2` lets a start interrupt a reset pulse;
  periods 1 and 10 are the fatal and the legal case.
- *JTAG*: two remotes with scripts of two commands, so that the second is queued
  while the first is served, is gone when accepted, or is accepted after a quit, and
  starts with the TDO and the pins the first has left; a `ReplyBuffer` of one fills
  with the second 'R'; `TickDelay = 2` passes through all values of the counter. Longer
  scripts and more remotes are covered by the theorems.
- *Wishbone*: two transfers are what the hazards need (the second sees what the
  first has left); a response queue of one fills when a poll is skipped.
- *Scoreboard*: with FIFOs of two, a UART FIFO of two and one byte on a line, plain
  traffic fills the scoreboard's FIFOs to the last place (one byte in hand and two
  queued); the code has 100 against 16. Three bytes do that and use a place of each
  FIFO again. Longer tests are covered by the theorems, except for the liveness property.
- *Tracker*: five instructions of a program of six pcs: two long operations, a load, a
  store, a branch over one instruction and a branch back, so that a pc comes twice. Both
  long operations can be in the two units together, and the second may finish before the
  first without any of the four situations having come up.
- *GPIO*: one pin that is not shared, one MISO, one I2C and one SPI output, in all
  three bytes of the registers; three words that differ in their bits and in the bits
  of IO_SEL that select them, written to one byte or two.

Deadlock is checked for the GPIO, which never stops. The other models may stop by
design: the test ends, the process aborts, or the bytes, items, instructions or
commands of the bound are used up. What must not stop is stated as a liveness
property instead.

**Fairness.** Only what the simulator, the hardware or the operating system does by
itself is fair: the clock generator while `run_clock` is set, a runnable process, the
call that spins, a byte on a line, the tracker's clock. No sequence has to ask, write,
drive or poll again, no test has to end, no remote has to send or to leave, and the
core need not fetch, finish or leave a stall: `CompletedReported` speaks only of
instructions that are complete.

### Disagreements found

- *A request in the event's own slot* (`clock_race`, driver line 104): the refreshed
  head is 0, and the do-while repeats without popping or blocking.
- *A tie with the head* (`clock_late`, driver line 118): the redundant item of count 0
  goes before the head, which keeps the count both share. The next request of another
  count writes the time left into the first item (line 104), now the redundant one, so
  the same clocks are counted for it and once more for the old head, whose answer is
  late. If no such request comes, the popped item's count is 0 and keeps the do-while
  going, which schedules the old head's count again and again: simulated time stops.
  TLC finds this when the run `clock_race` is repeated with `AllowTies = TRUE` and
  `AllowRace = FALSE`.
- *Ties with other items* are in no violation run. The strict comparisons of the for
  loop pass over them. A tie with the last item, the only other one with three
  sequences, gets the count 0 at line 145 and is answered in its cycle. With four
  sequences there is an item between head and last: if the new request is due with it
  and its count is not below the last item's own (line 137), it goes to the end with a
  negative count. With outstanding deadlines 1, 2, 3 and a request of 2, that is -1; the
  counter is then loaded with 0, and neither this request nor a later one is ever
  answered. TLC reaches this when a fourth sequence is added to `MCRequests`.
- *EAGAIN does not return* (`jtag_silence`, `remote_bitbang.cc` line 142).
- *Stale responses* (`wb_stale_response`, `wb_uart_sequences.sv` line 724).
- *Polarity of the enables* (`gpio_select`, `io_mux.sv` line 93): selected outputs get
  `en_gpio` 0 and the MISO inputs 1, while `io_top.sv` line 72 inverts it again.

Others can be read off the text and need no exploration, so they are not runs:

- `quit` is never cleared (`remote_bitbang.cc` line 203): after one 'Q' every later
  remote is dropped after its first command. `BitbangService` states it (`ended` is never
  reset), and `CommandsExecuted` allows for it.
- A write's `valid_sb` and `rest_rf` are assigned after its acknowledge has fallen
  (`wb_if.sv` line 37), so the master monitor publishes the tag of the transfer before.
  `TransfersObserved` compares tags of reads only.
- A UART FIFO reset leaves the expected byte in the scoreboard (`soc_scb.sv` line 337),
  so that later bytes of a correct UART fail. `plain` falls with such a reset.
- `en_gpio[10:0]` is never assigned (`io_mux.sv` line 91): the pins that are not shared
  cannot be driven reliably.
- The GPIO's acknowledge is combinational (`gpio_top.sv` line 217): a master that waits
  for it to fall before it drops `stb`, as `wb_if.sv` line 31 does, would wait for ever.
- The tracker's `rvfi_next_pc` is filled when the instruction is in ID with the pc + 4
  of the one in MEM (`rvfi_tracker_delay.sv` line 143).

## 4. Proofs

Each theorem is `Spec => []P` or `Spec => [][A]_vars`, for every value of the constants
that satisfies the module's assumption, which the runs evaluate. Every invariant of a
passing run is proved.

### Clock and reset

- `TypeCorrect` (`ClockResetProofs`): `TypeOK`, for every set of requests and every
  bound, with ties and races. It is inductive as it stands because it relates the
  control points to the data: the index is inside the queue while the for loop
  runs, and the queue is not empty in the do-while. It rests on four lemmas about
  insertion, prefixing, update and removal in sequences.
- `QueueIsExact`: if `~AllowTies /\ ~AllowRace`, `Spec => []QueueEncodesDeadlines`.
  The inductive invariant is `IInv == TypeOK /\ QueueEncodesDeadlines`. That relative
  counts add up to deadlines is not inductive alone. It needs: the head's own count
  is dead while the counter runs and comes alive in the do-while
  (`CounterEncodesHead`); the running total in the for loop is the deadline of the
  item just passed, and the new item is due after it (`ScanEncoded`); the event is
  pending exactly when the counter is 1 and somebody waits (`ReachedAtDeadline`).
  There is one lemma for each action: `TickExact`, `FirstExact`, `ShorterExact`,
  `LongerExact`, `ScanNextExact`, `ScanInsertExact`, `ScanLastExact`, `WakeExact` and
  `ScheduleExact`. `EqualNever` and `DueNever` show that two actions cannot happen
  without ties.
- `DriverImplementsService`: under the same usage, every step of the driver is a step
  of `CountService` or a stutter, from `IInv`. So answers come in the cycle of their
  deadline, for any number of sequences.

- `NoRequestLost`, `NeverPopsEmpty` and `AllMissedReported` (`ClockResetQueue`) hold in
  every usage, where the counts themselves may be wrong. `QueueInv` therefore says
  nothing of counts: the items' requests are distinct and are those that wait
  (`Placed`), and the event is pending only with a head to pop, an empty queue goes
  with a counter that has run out (`EventHasHead`). Each way the queue changes is one
  of three shapes: an item put in (`Grown`), taken out, or with a count rewritten.
- `CountsNeverShort`: `NeverEarly`, in every usage as well. The relative counts may be
  wrong after a tie or a race, but only ever too long. What is exact is not the deadlines
  but when the driver will answer: `CountsInv` says that there is a row `d` of answering
  times, the first of them what the counter has left (`Left`), each next one larger by the
  next item's count, and none of them before its request's deadline (`DueRow`); in the
  for loop the running total is the time of the item just passed (`ScanDue`). Stating the
  row as a witness instead of a sum keeps the proof free of induction: each operation
  moves the whole row (`RowMoved`), puts one time into it (`RowGrown`) or takes its first
  off (`RowTail`). A tie with the head is where a row grows longer than the deadlines: the
  head's count is then counted twice.

### JTAG bridge (`JtagBridgeProofs`)

- `TypeCorrect`: `TypeOK`.
- `RepliesCurrent`: `ReplyIsCurrent`, from `SessionInv` (only what was sent by an
  accepted remote is executed) and `ReplyInv`: while a remote is served, the pin
  changes since it was accepted are its own pins commands, and inside the call the
  sampled TDO reflects all of them. The second part is what makes a reply current, and
  it holds only because no clock passes between the sample and the command.
- `PinsAsCommanded`: `PinsFollowCommands`, from `PinsInv`: between calls the pins are
  the held ones, and these are the last pins command's.
- `BridgeImplementsService`: every step of the bridge is a step of `BitbangService` or a
  stutter, for any remotes, scripts and delays (`ServiceStep`): accepting is `Attach`,
  executing a command is `Perform`, a clock is a stutter once a remote has been served,
  and `Toggle` or a stutter before. `ServiceInv` says why nothing else moves the pins: from
  the first remote on they are the held ones, also between two remotes, and before it the
  held ones are the constructor's, so that the first call sets all of them high. That an
  answer is the TDO of the moment of the command, although it was sampled before the
  command was looked for, is `ReplyInv`; that no remote is served twice at a time is
  `AwaitInv`.

### Wishbone BFM (`WishboneBfmProofs`)

- `TypeCorrect`: `TypeOK`, with `ItemInv` (the driver has an item exactly while the
  sequence waits for it).
- `MonitorsSeeTransfers`: `TransfersObserved`. `HandshakeInv` lists the stages of
  master and slave (`Idle`, `Asking`, `Acked`, `Released`) and what the wires carry
  now and after the pending updates; `MonitorInv` says where a monitor is in each and how
  much it has seen: it samples only on the falling edge between the rise and the
  fall of the acknowledge. With both, a monitor that waits for the next request cannot
  take the old one for it.
- `PollsInStep`: `PolledInStep`, from `PolledInv`: while every item is polled there is at
  most one response, the last item's.

### UART scoreboard (`UartScoreboardProofs`)

- `TypeCorrect` and `NeverJudgedTwice`: `TypeOK`, and
  `JudgedOnce` whatever the test does. `OnceInv`: the bytes judged, held, expected and
  on the input line are disjoint and all have been given out.
- `PlainVerdictsTrue` and `PlainAllJudged`: `VerdictsTrue` and
  `AllJudgedWhenIdle`, under `FifoDepth >= DutDepth` (`DepthAssumption`; 100 against 16 in the
  code), without which a `try_put` could drop a byte. The bytes form one row in the order
  of their numbers; each stage (results, the byte held, the FIFOs, the receiver, the
  lines, the transmitter) holds a stretch of it that begins where the stage before
  ends (`ScoreboardInStep`, `UartInStep`), and the stretches make up all bytes
  (`AllAccounted`).

### GPIO (`GpioPinsProofs`)

- `TypeCorrect`, `PadsFollowWrites` (`PadsAsProgrammed`) and `OnlyOwnersMovePads`
  (`PadMovesByOwner`), from `PinsInv == TypeOK /\ RegistersHold`: every bit of a register is
  that of the last write of its byte. The action property needs it: that a pad has
  moved says that a register has, and `RegistersHold` turns this into a write that
  reached its byte.

### RVFI tracker (`RvfiTrackerProofs`)

- `TypeCorrect` and `ReportsInOrder`: `TypeOK`, with its bound on the queue, and
  `ReportsProgram`, from one inductive invariant,
  `TrackerInv == TypeOK /\ Path /\ SizeInv /\ (clean => InOrder)`, for every program,
  every number of instructions and every number of units.
- `Path` says where a taken branch and the wrong path behind it can be. `SizeInv` gives
  the bound: an instruction is entered once, because while it stays in ID it is at the
  end of the queue, or has been reported at once (`Unentered`), and a taken branch has
  at most two others behind it that are still to come (`Spare`).
- `InOrder` is why matching by pc works although pcs repeat: between two taken
  branches the pcs fetched are consecutive, and while the tracker is clean no two such
  stretches overlap, because a taken branch is reported, and the wrong path behind it
  removed, in the clock in which it flushes the pipeline. So what is reported, the
  queue and the stages form one row whose places are pcs less one `Offset`, and a
  result with the pc of an entry is its own (`FileInOrder`, `PipelineInOrder`,
  `WbInOrder`). Only a flush changes `Offset` (`FlushInOrder`), and it does so with
  an empty row behind the branch.
- What it rests on is the core's description in `RvfiTracker`: two instructions behind a
  branch in MEM, results of a unit leaving through MEM, one word in WB. It says nothing of
  whether the absent core lets one of the four situations come up.

### Model-checked only

Liveness everywhere (outside the prover's reach). Every invariant, action property and
refinement that a passing run checks is proved. How late an answer may be with ties and
races is not bounded: some never come, as the violations show.

## 5. Not modelled, and why

- *Scoreboard, register, SPI and I2C comparisons* (`soc_scb.sv` lines 307-331, 354-378,
  393-465): they compare what the bus shows with values of the reference models, which
  are in a submodule that is not in the repository. Which transfers they queue decides
  every verdict, so both sides of the comparison would be inventions. What the present
  code shows by itself is listed among the hazards: two Wishbone transfers popped for
  one I2C transfer from a queue that `write_wb` does not fill, received bytes discarded
  by register comparisons, a `forever` without a blocking statement.
- *SoC integration* (`rv32i_soc.sv`): wiring of absent submodules. Its few registers (the
  shared instruction memory port, the boot ROM's select) are driven by the stall and
  fetch signals of the absent core, and whether a wrong word can be fetched depends on
  which of them coincide.
- *The GPIO UVC*: it does not elaborate.
- *Sequences and tests*: straight-line lists of accesses. They are covered as the
  arbitrary items of `WishboneBfm`, whose `Poll` is their only loop, and as the traffic
  of `UartScoreboard`.
- *Tops, benches, tracer formatting*: no behaviour of their own.
- *Generated files*: `rmapats.h`, `_vcs_pli_stub_.c`, `vc_hdrs.*` and `simv.daidir` are
  output of the simulator's compiler: tables and stubs without this project's logic.
  They make up almost all of the repository's C and C++ lines, of which the hand-written
  part is `remote_bitbang.*` and `SimJTAG.cc`, modelled in full. A share of
  C lines covered therefore says little here: the protocol code is SystemVerilog.

Worth adding if the submodules become available: the reference models, for the other
half of the scoreboard; the core, to decide which of the tracker's four situations can
occur; the interconnect, between the BFM and the GPIO.
