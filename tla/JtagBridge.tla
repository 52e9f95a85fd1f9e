----------------------------- MODULE JtagBridge -----------------------------
(***************************************************************************)
(* The JTAG bridge of the simulation test bench (RivRtos/src/tb): module   *)
(* SimJTAG calls jtag_tick every TICK_DELAY+1 clocks, and remote_bitbang_t *)
(* executes one command of the remote debugger per call.                   *)
(*                                                                         *)
(* The call runs in the simulator's thread: while it spins in accept() or  *)
(* in execute_command(), no clock passes.  A remote connects, sends a      *)
(* script of commands, collects its replies and goes away, with or without *)
(* a 'Q', at any time.  The debug module behind the pins is abstracted to  *)
(* the number of pin changes its TDO reflects.                             *)
(***************************************************************************)
EXTENDS Integers, Sequences, FiniteSets

CONSTANTS
  Clients,      \* remotes that may connect
  NoClient,     \* client_fd = 0
  TickDelay,    \* TICK_DELAY
  ResetClocks,  \* clocks the test bench holds reset
  PinValues,    \* the '0'..'7' commands used, as numbers
  ResetValues,  \* the 'r'..'u' commands used, as numbers 0..3
  MaxCommands,  \* bound: length of a remote's script
  ReplyBuffer   \* replies a socket holds before write() fails

ASSUME BridgeAssumption ==
  /\ NoClient \notin Clients
  /\ TickDelay \in Nat /\ ResetClocks \in Nat \ {0}
  /\ PinValues \subseteq 0..7 /\ ResetValues \subseteq 0..3
  /\ MaxCommands \in Nat /\ ReplyBuffer \in Nat \ {0}

Pins(v)  == [op |-> "pins", arg |-> v]
Reset(v) == [op |-> "reset", arg |-> v]
Read     == [op |-> "read", arg |-> 0]
Quit     == [op |-> "quit", arg |-> 0]
Blink    == [op |-> "blink", arg |-> 0]   \* and every unsupported command

Commands == {Pins(v) : v \in PinValues} \cup {Reset(v) : v \in ResetValues}
              \cup {Read, Quit, Blink}

VARIABLES
  \* SimJTAG
  resetLeft,    \* clocks until reset and its registered copy are low
  initDone,     \* init_done_sticky
  tickCounter,  \* tickCounterReg
  pins,         \* __jtag_TCK, _TMS, _TDI, _TRSTn and sysrstn
  exit,         \* __exit, what jtag_tick returned, as a flag
  \* remote_bitbang_t, and where the simulator's thread is in it
  pc,           \* "clock", "accept", "read" or "aborted"
  client,       \* client_fd: the remote served
  held,         \* its tck, tms, tdi, trstn and srstn
  tdo,          \* the TDO it sampled
  quit,
  \* the remotes and their sockets
  conn,         \* "new", "queued", "open", "done" (closed by the server), or after the
                \* remote left: "queued-gone", "gone", or "reset" (replies were lost)
  script,       \* commands sent so far
  executed,     \* how many of them were executed
  replies,      \* replies written
  collected,    \* how many of them the remote has read
  \* history
  pinChanges,   \* pins commands executed, which is also what TDO reflects
  base          \* pinChanges when each remote was accepted

simVars    == <<resetLeft, initDone, tickCounter>>
serverVars == <<client, held, quit>>
remoteVars == <<conn, script, executed, replies, collected>>
vars == <<simVars, pins, exit, pc, serverVars, tdo, remoteVars, pinChanges, base>>

PinRecord(t, m, i, trst, srst) ==
  [tck |-> t, tms |-> m, tdi |-> i, trstn |-> trst, srstn |-> srst]

Init ==
  /\ resetLeft = ResetClocks + 1 /\ initDone = FALSE /\ tickCounter = TickDelay
  /\ pins = PinRecord(0, 0, 0, 0, 1) /\ exit = FALSE
  /\ pc = "clock" /\ client = NoClient /\ held = PinRecord(1, 1, 1, 1, 1)
  /\ tdo = 0 /\ quit = FALSE
  /\ conn = [c \in Clients |-> "new"]
  /\ script = [c \in Clients |-> <<>>]
  /\ executed = [c \in Clients |-> 0]
  /\ replies = [c \in Clients |-> <<>>]
  /\ collected = [c \in Clients |-> 0]
  /\ pinChanges = 0 /\ base = [c \in Clients |-> 0]

-----------------------------------------------------------------------------
(* SimJTAG's clock.                                                        *)

\* In reset TCK toggles, and the tick counter is reloaded.
ClockInReset ==
  /\ pc = "clock" /\ resetLeft > 0
  /\ resetLeft' = resetLeft - 1
  /\ pins' = [pins EXCEPT !.tck = 1 - @]
  /\ tickCounter' = TickDelay /\ initDone' = FALSE /\ exit' = FALSE
  /\ UNCHANGED <<pc, serverVars, tdo, remoteVars, pinChanges, base>>

\* Mutant of ClockRunning: the tick counter is not reloaded at 0.
ClockRunningUnderflow ==
  /\ pc = "clock" /\ resetLeft = 0
  /\ initDone' = TRUE
  /\ tickCounter' = IF ~initDone THEN tickCounter ELSE tickCounter - 1
  /\ UNCHANGED <<resetLeft, pins, exit, serverVars, remoteVars, pinChanges, base>>

ClockRunning ==
  /\ pc = "clock" /\ resetLeft = 0
  /\ initDone' = TRUE
  /\ tickCounter' = IF ~initDone THEN tickCounter
                    ELSE IF tickCounter = 0 THEN TickDelay ELSE tickCounter - 1
  /\ UNCHANGED <<resetLeft, pins, exit, serverVars, remoteVars, pinChanges, base>>

ClockIdle ==
  /\ ClockRunning
  /\ ~initDone \/ tickCounter # 0
  /\ UNCHANGED <<pc, tdo>>

\* Mutant of CallTick: TDO is not sampled.
CallTickUnsampled ==
  /\ ClockRunning
  /\ initDone /\ tickCounter = 0
  /\ pc' = IF client # NoClient THEN "read" ELSE "accept"
  /\ UNCHANGED tdo

\* Mutant of CallTick: a remote is awaited although one is served.
CallTickAccepting ==
  /\ ClockRunning
  /\ initDone /\ tickCounter = 0
  /\ pc' = "accept"
  /\ UNCHANGED tdo

\* jtag_tick is called: with a client, TDO is sampled before any command is read.
CallTick ==
  /\ ClockRunning
  /\ initDone /\ tickCounter = 0
  /\ \/ client # NoClient /\ pc' = "read" /\ tdo' = pinChanges
     \/ client = NoClient /\ pc' = "accept" /\ UNCHANGED tdo

Clock == ClockInReset \/ ClockIdle \/ CallTick

-----------------------------------------------------------------------------
(* The call into remote_bitbang_t, until it returns or spins.              *)

\* Mutant of Return: the pins are written before the command is executed.
ReturnEarly ==
  /\ pc' = "clock"
  /\ pins' = held
  /\ exit' = quit'

\* The call returns: the pins take the held values, __exit the quit flag.
Return ==
  /\ pc' = "clock"
  /\ pins' = held'
  /\ exit' = quit'

\* accept() spins until a remote is queued, which may have gone since.
Accept(c) ==
  /\ pc = "accept"
  /\ \/ conn[c] = "queued" /\ conn' = [conn EXCEPT ![c] = "open"]
     \/ conn[c] = "queued-gone" /\ conn' = [conn EXCEPT ![c] = "gone"]
  /\ client' = c
  /\ base' = [base EXCEPT ![c] = pinChanges]
  /\ UNCHANGED <<held, quit>> /\ Return
  /\ UNCHANGED <<simVars, tdo, script, executed, replies, collected, pinChanges>>

Unread(c) == Len(replies[c]) - collected[c]

\* write() takes a reply: the remote is there, or its leaving is not known yet.
Writable(c) == conn[c] # "reset" /\ Unread(c) < ReplyBuffer

\* Mutant of Perform: 'r'..'u' drive the two resets the other way round.
PerformResetsSwapped(cmd) ==
  /\ held' = CASE cmd.op = "pins"  -> [held EXCEPT !.tck = cmd.arg \div 4,
                                                  !.tms = (cmd.arg \div 2) % 2,
                                                  !.tdi = cmd.arg % 2]
               [] cmd.op = "reset" -> [held EXCEPT !.trstn = 1 - (cmd.arg % 2),
                                                  !.srstn = 1 - (cmd.arg \div 2)]
               [] OTHER -> held
  /\ quit' = (quit \/ cmd.op = "quit")
  /\ pinChanges' = IF cmd.op = "pins" THEN pinChanges + 1 ELSE pinChanges

\* The switch over the command: what it does to the pins and the quit flag.
Perform(cmd) ==
  /\ held' = CASE cmd.op = "pins"  -> [held EXCEPT !.tck = cmd.arg \div 4,
                                                  !.tms = (cmd.arg \div 2) % 2,
                                                  !.tdi = cmd.arg % 2]
               [] cmd.op = "reset" -> [held EXCEPT !.trstn = 1 - (cmd.arg \div 2),
                                                  !.srstn = 1 - (cmd.arg % 2)]
               [] OTHER -> held
  /\ quit' = (quit \/ cmd.op = "quit")
  /\ pinChanges' = IF cmd.op = "pins" THEN pinChanges + 1 ELSE pinChanges

\* execute_command() spins until a command is there; 'R' is answered with the
\* sampled TDO; once quit is set the connection is closed.
Execute ==
  /\ pc = "read"
  /\ executed[client] < Len(script[client])
  /\ LET cmd == script[client][executed[client] + 1]
     IN  /\ cmd.op = "read" => Writable(client)
         /\ Perform(cmd)
         /\ executed' = [executed EXCEPT ![client] = @ + 1]
         /\ replies' = IF cmd.op = "read" THEN [replies EXCEPT ![client] = Append(@, tdo)]
                                          ELSE replies
         /\ conn' = [conn EXCEPT ![client] =
                       IF quit' THEN "done"
                       ELSE IF cmd.op = "read" /\ @ = "gone" THEN "reset" ELSE @]
         /\ client' = IF quit' THEN NoClient ELSE client
  /\ Return
  /\ UNCHANGED <<simVars, tdo, script, collected, base>>

\* read() or write() fails and the process aborts: the connection was reset, or
\* the remote's buffer is full (EAGAIN, which write() is not retried on).
Abort ==
  /\ pc = "read"
  /\ \/ conn[client] = "reset"
     \/ /\ executed[client] < Len(script[client])
        /\ script[client][executed[client] + 1].op = "read" /\ ~Writable(client)
  /\ pc' = "aborted"
  /\ UNCHANGED <<simVars, pins, exit, serverVars, tdo, remoteVars, pinChanges, base>>

Serve == Execute \/ Abort \/ \E c \in Clients : Accept(c)

-----------------------------------------------------------------------------
(* The remotes.                                                            *)

\* A remote connects.  That it may do so before the first call has made the listening
\* socket (SimJTAG.cc:17-20) only adds behaviours: until a call accepts, it just waits.
Connect(c) ==
  /\ pc # "aborted" /\ conn[c] = "new"
  /\ conn' = [conn EXCEPT ![c] = "queued"]
  /\ UNCHANGED <<script, executed, replies, collected>>

Send(c, cmd) ==
  /\ pc # "aborted" /\ conn[c] \in {"queued", "open"} /\ Len(script[c]) < MaxCommands
  /\ script' = [script EXCEPT ![c] = Append(@, cmd)]
  /\ UNCHANGED <<conn, executed, replies, collected>>

Collect(c) ==
  /\ conn[c] \in {"open", "done"} /\ Unread(c) > 0
  /\ collected' = [collected EXCEPT ![c] = @ + 1]
  /\ UNCHANGED <<conn, script, executed, replies>>

\* The remote goes away; leaving replies unread resets the connection.
Leave(c) ==
  /\ pc # "aborted"
  /\ \/ conn[c] = "queued" /\ conn' = [conn EXCEPT ![c] = "queued-gone"]
     \/ conn[c] = "open" /\ conn' = [conn EXCEPT ![c] = IF Unread(c) = 0 THEN "gone" ELSE "reset"]
  /\ UNCHANGED <<script, executed, replies, collected>>

Remote ==
  /\ \E c \in Clients :
       \/ Connect(c) \/ Collect(c) \/ Leave(c)
       \/ \E cmd \in Commands : Send(c, cmd)
  /\ UNCHANGED <<simVars, pins, exit, pc, serverVars, tdo, pinChanges, base>>

Next == Clock \/ Serve \/ Remote

Spec == Init /\ [][Next]_vars

\* The simulator's thread runs; a remote need not do anything.
FairSpec == Spec /\ WF_vars(Clock) /\ WF_vars(Serve)

-----------------------------------------------------------------------------
(* Properties.                                                             *)

PinRecords == [tck : {0, 1}, tms : {0, 1}, tdi : {0, 1}, trstn : {0, 1}, srstn : {0, 1}]

\* Type invariant of the bridge, the server and the remotes.
TypeOK ==
  /\ resetLeft \in 0..ResetClocks + 1 /\ initDone \in BOOLEAN /\ tickCounter \in 0..TickDelay
  /\ pins \in PinRecords /\ held \in PinRecords /\ exit \in BOOLEAN /\ quit \in BOOLEAN
  /\ pc \in {"clock", "accept", "read", "aborted"}
  /\ client \in Clients \cup {NoClient} /\ (pc = "read" => client \in Clients)
  /\ conn \in [Clients -> {"new", "queued", "queued-gone", "open", "gone", "reset", "done"}]
  /\ script \in [Clients -> Seq(Commands)] /\ executed \in [Clients -> Nat]
  /\ replies \in [Clients -> Seq(Nat)] /\ collected \in [Clients -> Nat]
  /\ tdo \in Nat /\ pinChanges \in Nat /\ base \in [Clients -> Nat]

\* The positions of the commands of a kind among the first n of c's script.
Positions(c, n, op) == {i \in 1..n : script[c][i].op = op}

\* Every 'R' gets one reply, in order, and that reply is the TDO the debug module
\* drives after every pin change the remote sent before the 'R', never one of an
\* earlier moment (remote_bitbang.cc:113, 183; remote_bitbang.h:50-51).
ReplyIsCurrent ==
  \A c \in Clients :
    LET reads == Positions(c, executed[c], "read")
    IN  /\ Len(replies[c]) = Cardinality(reads)
        /\ \A i \in reads :
             replies[c][Cardinality(Positions(c, i, "read"))]
               = base[c] + Cardinality(Positions(c, i, "pins"))

\* Between calls the pins are those of the last pins command of the remote served:
\* none is skipped, delayed by a call, or applied to another pin
\* (remote_bitbang.cc:119-136, 171-182).
PinsFollowCommands ==
  \A c \in Clients : \A i \in Positions(c, executed[c], "pins") :
    pc = "clock" /\ client = c /\ (\A j \in i+1..executed[c] : script[c][j].op # "pins")
      => script[c][i].arg = 4 * pins.tck + 2 * pins.tms + pins.tdi

\* The remotes that were accepted, and the levels of the pins as BitbangService has them.
Accepted == {c \in Clients : conn[c] \notin {"new", "queued", "queued-gone"}}
PinLevels ==
  [pins  |-> 4 * pins.tck + 2 * pins.tms + pins.tdi,
   reset |-> 2 * (1 - pins.trstn) + (1 - pins.srstn)]

Service ==
  INSTANCE BitbangService
    WITH Remotes <- Clients, NoRemote <- NoClient, Commands <- Commands,
         served <- client, past <- Accepted, sent <- script, done <- executed,
         answers <- replies, ended <- quit, levels <- PinLevels, changes <- pinChanges

\* Although TDO is sampled before a call looks for a command, and the command reaches the
\* pins only when the call returns, to the remotes each command takes effect at once, in
\* its turn, and no clock, connection or departure moves a pin or alters a reply
\* (SimJTAG.sv:66-88, remote_bitbang.h:50-51, remote_bitbang.cc:76-209).
ImplementsBitbangService == Service!Spec

\* A command that was sent is executed, unless the connection is lost or the
\* session was ended by a 'Q': the clock and the call never wait for each other
\* for ever (SimJTAG.sv:66-88, remote_bitbang.cc:138-160).
CommandsExecuted ==
  \A c \in Clients :
    (c = client /\ executed[c] < Len(script[c]))
      ~> (executed[c] = Len(script[c]) \/ conn[c] \in {"reset", "done"} \/ pc = "aborted")

\* A call that finds no command returns, and reads again on the next call ("We'll try
\* again the next call", remote_bitbang.cc:146): the clock goes on meanwhile.
SilenceLetsClockRun == (pc = "read") ~> (pc # "read")
=============================================================================
