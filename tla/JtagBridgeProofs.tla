-------------------------- MODULE JtagBridgeProofs --------------------------
(***************************************************************************)
(* Proofs about JtagBridge, for any number of remotes, one after the other *)
(* or at the same time, and for scripts and buffers of any length.         *)
(***************************************************************************)
EXTENDS JtagBridge, FiniteSetTheorems, TLAPS

-----------------------------------------------------------------------------
(* Type correctness.                                                       *)

LEMMA CommandFields ==
  ASSUME NEW cmd \in Commands, BridgeAssumption
  PROVE  /\ cmd.arg \in 0..7
         /\ cmd.op \in {"pins", "reset", "read", "quit", "blink"}
         /\ cmd.op = "reset" => cmd.arg \in 0..3
BY DEF Commands, Pins, Reset, Read, Quit, Blink, BridgeAssumption

\* The pins of a '0'..'7' command are the digits of its argument, and those of an
\* 'r'..'u' command are levels too.
LEMMA Digits ==
  /\ \A v \in 0..7 : /\ v \div 4 \in {0, 1} /\ ((v \div 2) % 2) \in {0, 1} /\ (v % 2) \in {0, 1}
                     /\ 4 * (v \div 4) + 2 * ((v \div 2) % 2) + (v % 2) = v
  /\ \A v \in 0..3 : 1 - (v \div 2) \in {0, 1} /\ 1 - (v % 2) \in {0, 1}
OBVIOUS

LEMMA InitType == ASSUME Init, BridgeAssumption PROVE TypeOK
<1>1. pins \in PinRecords /\ held \in PinRecords
  BY DEF Init, PinRecord, PinRecords
<1>2. /\ conn \in [Clients -> {"new", "queued", "queued-gone", "open", "gone", "reset", "done"}]
      /\ script \in [Clients -> Seq(Commands)] /\ executed \in [Clients -> Nat]
      /\ replies \in [Clients -> Seq(Nat)] /\ collected \in [Clients -> Nat]
      /\ base \in [Clients -> Nat]
  BY DEF Init
<1>3. /\ resetLeft \in 0..ResetClocks + 1 /\ tickCounter \in 0..TickDelay
      /\ tdo \in Nat /\ pinChanges \in Nat
  BY DEF Init, BridgeAssumption
<1>4. /\ initDone \in BOOLEAN /\ exit \in BOOLEAN /\ quit \in BOOLEAN
      /\ pc \in {"clock", "accept", "read", "aborted"}
      /\ client \in Clients \cup {NoClient} /\ pc # "read"
  BY DEF Init
<1> QED BY <1>1, <1>2, <1>3, <1>4 DEF TypeOK

LEMMA ClockType == ASSUME TypeOK, Clock, BridgeAssumption PROVE TypeOK'
<1>1. CASE ClockInReset
  <2>1. pins' \in PinRecords
    <3>1. pins \in PinRecords /\ pins' = [pins EXCEPT !.tck = 1 - pins.tck]
      BY <1>1 DEF ClockInReset, TypeOK
    <3>2. 1 - pins.tck \in {0, 1}
      BY <3>1 DEF PinRecords
    <3> QED BY <3>1, <3>2 DEF PinRecords
  <2>2. resetLeft' \in 0..ResetClocks + 1 /\ tickCounter' \in 0..TickDelay
    BY <1>1 DEF ClockInReset, TypeOK, BridgeAssumption
  <2>3. initDone' \in BOOLEAN /\ exit' \in BOOLEAN
    BY <1>1 DEF ClockInReset
  <2> QED BY <1>1, <2>1, <2>2, <2>3 DEF ClockInReset, TypeOK, serverVars, remoteVars
<1>2. ASSUME ClockRunning
      PROVE  /\ tickCounter' \in 0..TickDelay /\ initDone' \in BOOLEAN
             /\ UNCHANGED <<resetLeft, pins, exit, serverVars, remoteVars, pinChanges, base>>
  <2>1. tickCounter' \in 0..TickDelay
    BY <1>2 DEF ClockRunning, TypeOK, BridgeAssumption
  <2>2. initDone' \in BOOLEAN
    BY <1>2 DEF ClockRunning
  <2> QED BY <1>2, <2>1, <2>2 DEF ClockRunning
<1>3. CASE ClockIdle
  BY <1>2, <1>3 DEF ClockIdle, TypeOK, serverVars, remoteVars
<1>4. CASE CallTick
  <2>1. tdo' \in Nat /\ pc' \in {"clock", "accept", "read", "aborted"}
        /\ (pc' = "read" => client \in Clients)
    BY <1>4 DEF CallTick, TypeOK
  <2> QED BY <1>2, <1>4, <2>1 DEF CallTick, TypeOK, serverVars, remoteVars
<1> QED BY <1>1, <1>3, <1>4 DEF Clock

LEMMA AcceptType == ASSUME TypeOK, NEW c \in Clients, Accept(c) PROVE TypeOK'
<1>1. conn' \in [Clients -> {"new", "queued", "queued-gone", "open", "gone", "reset", "done"}]
  BY DEF Accept, TypeOK
<1>2. base' \in [Clients -> Nat]
  BY DEF Accept, TypeOK
<1>3. pins' \in PinRecords /\ exit' \in BOOLEAN /\ held' \in PinRecords /\ quit' \in BOOLEAN
      /\ pc' = "clock" /\ client' = c
  BY DEF Accept, Return, TypeOK
<1> QED BY <1>1, <1>2, <1>3 DEF Accept, TypeOK, simVars

\* The command that is executed next.
Command == script[client][executed[client] + 1]

LEMMA CommandKnown ==
  ASSUME TypeOK, pc = "read", executed[client] < Len(script[client])
  PROVE  /\ client \in Clients /\ Command \in Commands
         /\ executed[client] \in Nat /\ executed[client] + 1 \in 1..Len(script[client])
<1>1. client \in Clients /\ executed[client] \in Nat /\ script[client] \in Seq(Commands)
  BY DEF TypeOK
<1>2. executed[client] + 1 \in 1..Len(script[client])
  BY <1>1
<1> QED BY <1>1, <1>2 DEF Command

\* What a command does to the pins and the flag.
LEMMA PerformType ==
  ASSUME TypeOK, NEW cmd \in Commands, Perform(cmd), BridgeAssumption
  PROVE  held' \in PinRecords /\ quit' \in BOOLEAN /\ pinChanges' \in Nat
<1>1. pinChanges' \in Nat
  BY DEF Perform, TypeOK
<1>2. quit' \in BOOLEAN
  BY DEF Perform, TypeOK
<1>3. held' \in PinRecords
  <2>1. CASE cmd.op = "pins"
    BY <2>1, CommandFields, Digits DEF Perform, TypeOK, PinRecords
  <2>2. CASE cmd.op = "reset"
    BY <2>2, CommandFields, Digits DEF Perform, TypeOK, PinRecords
  <2>3. CASE cmd.op \notin {"pins", "reset"}
    BY <2>3 DEF Perform, TypeOK
  <2> QED BY <2>1, <2>2, <2>3
<1> QED BY <1>1, <1>2, <1>3

LEMMA ExecuteType == ASSUME TypeOK, Execute, BridgeAssumption PROVE TypeOK'
<1>1. /\ client \in Clients /\ Command \in Commands /\ executed[client] \in Nat
      /\ Perform(Command)
  BY CommandKnown DEF Execute, Command
<1>2. held' \in PinRecords /\ quit' \in BOOLEAN /\ pinChanges' \in Nat
  BY <1>1, PerformType
<1>3. pins' \in PinRecords /\ exit' \in BOOLEAN /\ pc' = "clock"
  BY <1>2 DEF Execute, Return
<1>4. executed' \in [Clients -> Nat]
  BY <1>1 DEF Execute, TypeOK
<1>5. replies' \in [Clients -> Seq(Nat)]
  <2>1. Append(replies[client], tdo) \in Seq(Nat)
    BY <1>1 DEF TypeOK
  <2> QED BY <1>1, <2>1 DEF Execute, TypeOK
<1>6. conn' \in [Clients -> {"new", "queued", "queued-gone", "open", "gone", "reset", "done"}]
  BY <1>1 DEF Execute, TypeOK
<1>7. client' \in Clients \cup {NoClient}
  BY <1>1 DEF Execute
<1> QED BY <1>2, <1>3, <1>4, <1>5, <1>6, <1>7 DEF Execute, TypeOK, simVars

LEMMA RemoteType == ASSUME TypeOK, Remote PROVE TypeOK'
<1>1. PICK c \in Clients : 
          Connect(c) \/ Collect(c) \/ Leave(c) \/ \E cmd \in Commands : Send(c, cmd)
  BY DEF Remote
<1>2. /\ conn' \in [Clients -> {"new", "queued", "queued-gone", "open", "gone", "reset", "done"}]
      /\ executed' = executed /\ replies' = replies
  BY <1>1 DEF Connect, Collect, Leave, Send, TypeOK
<1>3. collected' \in [Clients -> Nat]
  BY <1>1 DEF Connect, Collect, Leave, Send, TypeOK
<1>4. script' \in [Clients -> Seq(Commands)]
  <2>1. ASSUME NEW cmd \in Commands, Send(c, cmd) PROVE script' \in [Clients -> Seq(Commands)]
    <3>1. Append(script[c], cmd) \in Seq(Commands)
      BY DEF TypeOK
    <3> QED BY <2>1, <3>1 DEF Send, TypeOK
  <2> QED BY <1>1, <2>1 DEF Connect, Collect, Leave, TypeOK
<1> QED BY <1>2, <1>3, <1>4 DEF Remote, TypeOK, simVars, serverVars

LEMMA TypeInductive == ASSUME TypeOK, [Next]_vars, BridgeAssumption PROVE TypeOK'
<1>1. CASE Abort
  BY <1>1 DEF Abort, TypeOK, simVars, serverVars, remoteVars
<1>2. CASE UNCHANGED vars
  BY <1>2 DEF vars, TypeOK, simVars, serverVars, remoteVars
<1> QED BY <1>1, <1>2, ClockType, AcceptType, ExecuteType, RemoteType DEF Next, Serve

\* The bridge, the server and the remotes keep their types: a command is only read for a
\* remote that is there, the tick counter stays within TICK_DELAY and the pins are
\* levels, for any number of remotes (SimJTAG.sv:66-88, remote_bitbang.cc:103-209).
THEOREM TypeCorrect == Spec => []TypeOK
<1>1. Init => TypeOK
  BY InitType, BridgeAssumption
<1>2. TypeOK /\ [Next]_vars => TypeOK'
  BY TypeInductive, BridgeAssumption
<1> QED BY <1>1, <1>2, PTL DEF Spec

-----------------------------------------------------------------------------
(* Sessions.                                                               *)

Unserved == {"new", "queued", "queued-gone"}

\* Only what was sent is executed, and only for a remote that was accepted; the pins are
\* not touched by the reset any more when a remote is served.
SessionInv ==
  /\ \A c \in Clients : /\ executed[c] <= Len(script[c])
                        /\ conn[c] \in Unserved => executed[c] = 0
  /\ client # NoClient => conn[client] \notin Unserved /\ resetLeft = 0
  /\ pc \in {"accept", "read"} => resetLeft = 0

LEMMA SessionInductive ==
  ASSUME TypeOK, SessionInv, [Next]_vars, BridgeAssumption
  PROVE  SessionInv'
<1>0. /\ script \in [Clients -> Seq(Commands)] /\ executed \in [Clients -> Nat]
      /\ \A c \in Clients : Len(script[c]) \in Nat
      /\ client \in Clients \cup {NoClient} /\ resetLeft \in Int
      /\ DOMAIN conn = Clients
  BY DEF TypeOK
<1>1. CASE ClockInReset
  <2>1. client = NoClient /\ pc' = "clock"
    BY <1>1 DEF ClockInReset, SessionInv
  <2> QED BY <1>0, <1>1, <2>1 DEF ClockInReset, SessionInv, serverVars, remoteVars
<1>2. CASE ClockIdle \/ CallTick
  BY <1>0, <1>2 DEF ClockIdle, CallTick, ClockRunning, SessionInv, serverVars, remoteVars
<1>3. ASSUME NEW c \in Clients, Accept(c)
      PROVE  SessionInv'
  <2>1. /\ conn[c] \in Unserved /\ client' = c /\ pc' = "clock" /\ resetLeft' = 0
        /\ UNCHANGED <<script, executed>> /\ executed[c] = 0
    BY <1>3 DEF Accept, Return, SessionInv, simVars, Unserved
  <2>2. conn'[c] \notin Unserved /\ \A d \in Clients \ {c} : conn'[d] = conn[d]
    BY <1>0, <1>3 DEF Accept, Unserved
  <2> QED BY <1>0, <2>1, <2>2 DEF SessionInv
<1>4. CASE Execute
  <2>1. /\ client \in Clients /\ executed[client] < Len(script[client]) /\ resetLeft' = 0
        /\ executed' = [executed EXCEPT ![client] = executed[client] + 1]
        /\ script' = script /\ pc' = "clock" /\ client' \in {client, NoClient}
        /\ conn[client] \notin Unserved
    BY <1>0, <1>4, BridgeAssumption
    DEF Execute, Return, SessionInv, simVars, TypeOK, BridgeAssumption
  <2>2. conn'[client] \notin Unserved /\ \A d \in Clients \ {client} : conn'[d] = conn[d]
    BY <1>0, <1>4, <2>1 DEF Execute, Unserved
  <2>3. \A d \in Clients : executed'[d] = IF d = client THEN executed[client] + 1 ELSE executed[d]
    BY <1>0, <2>1
  <2> QED BY <1>0, <2>1, <2>2, <2>3 DEF SessionInv
<1>5. CASE Abort
  BY <1>5 DEF Abort, SessionInv, simVars, serverVars, remoteVars
<1>6. CASE Remote
  <2>1. PICK c \in Clients : 
            Connect(c) \/ Collect(c) \/ Leave(c) \/ \E cmd \in Commands : Send(c, cmd)
    BY <1>6 DEF Remote
  <2>2. UNCHANGED <<client, resetLeft, pc, executed>>
    BY <1>6, <2>1 DEF Remote, simVars, serverVars, Connect, Collect, Leave, Send
  <2>3. \A d \in Clients : Len(script'[d]) \in Nat /\ Len(script'[d]) >= Len(script[d])
    <3>1. ASSUME NEW cmd \in Commands, Send(c, cmd), NEW d \in Clients
          PROVE  Len(script'[d]) \in Nat /\ Len(script'[d]) >= Len(script[d])
      <4>1. script'[d] = IF d = c THEN Append(script[c], cmd) ELSE script[d]
        BY <1>0, <3>1 DEF Send
      <4>2. Len(Append(script[c], cmd)) = Len(script[c]) + 1
        BY <1>0
      <4> QED BY <1>0, <4>1, <4>2
    <3>2. CASE script' = script
      BY <1>0, <3>2
    <3> QED BY <2>1, <3>1, <3>2 DEF Connect, Collect, Leave
  <2>4. \A d \in Clients : conn'[d] \in Unserved <=> conn[d] \in Unserved
    BY <1>0, <2>1 DEF Connect, Collect, Leave, Send, Unserved
  <2> QED BY <1>0, <2>2, <2>3, <2>4 DEF SessionInv
<1>7. CASE UNCHANGED vars
  BY <1>7 DEF vars, SessionInv, simVars, serverVars, remoteVars
<1> QED BY <1>1, <1>2, <1>3, <1>4, <1>5, <1>6, <1>7 DEF Next, Clock, Serve

-----------------------------------------------------------------------------
(* The commands executed.                                                  *)

\* A step that executes nothing for a remote leaves its executed commands as they are.
LEMMA PositionsKept ==
  ASSUME NEW c, NEW n \in Nat, \A i \in 1..n : script'[c][i] = script[c][i],
         NEW m \in Nat, m <= n, NEW op
  PROVE  Positions(c, m, op)' = Positions(c, m, op)
BY DEF Positions

LEMMA PositionsFinite ==
  ASSUME NEW c, NEW n \in Nat, NEW op
  PROVE  IsFiniteSet(Positions(c, n, op)) /\ Cardinality(Positions(c, n, op)) \in Nat
<1>1. IsFiniteSet(1..n)
  BY FS_Interval
<1>2. IsFiniteSet(Positions(c, n, op))
  BY <1>1, FS_Subset DEF Positions
<1> QED BY <1>2, FS_CardinalityType

\* One more command is one more position of its kind.
LEMMA OneMorePosition ==
  ASSUME NEW c, NEW n \in Nat, NEW op
  PROVE  /\ script[c][n+1].op = op =>
              /\ Positions(c, n+1, op) = Positions(c, n, op) \cup {n+1}
              /\ Cardinality(Positions(c, n+1, op)) = Cardinality(Positions(c, n, op)) + 1
         /\ script[c][n+1].op # op => Positions(c, n+1, op) = Positions(c, n, op)
<1>1. 1..(n+1) = (1..n) \cup {n+1} /\ n+1 \notin 1..n
  OBVIOUS
<1>2. CASE script[c][n+1].op = op
  <2>1. Positions(c, n+1, op) = Positions(c, n, op) \cup {n+1} /\ n+1 \notin Positions(c, n, op)
    BY <1>1, <1>2 DEF Positions
  <2>2. Cardinality(Positions(c, n, op) \cup {n+1}) = Cardinality(Positions(c, n, op)) + 1
    BY <2>1, PositionsFinite, FS_AddElement
  <2> QED BY <1>2, <2>1, <2>2
<1>3. CASE script[c][n+1].op # op
  BY <1>1, <1>3 DEF Positions
<1> QED BY <1>2, <1>3

\* The place of a command's reply is one of the replies there are.
LEMMA PlaceOfReply ==
  ASSUME NEW c, NEW n \in Nat, NEW op, NEW i \in Positions(c, n, op)
  PROVE  Cardinality(Positions(c, i, op)) \in 1..Cardinality(Positions(c, n, op))
<1>1. i \in 1..n /\ i \in Nat /\ i \in Positions(c, i, op)
  BY DEF Positions
<1>2. Positions(c, i, op) \subseteq Positions(c, n, op)
  BY <1>1 DEF Positions
<1>3. /\ IsFiniteSet(Positions(c, n, op)) /\ Cardinality(Positions(c, n, op)) \in Nat
      /\ IsFiniteSet(Positions(c, i, op)) /\ Cardinality(Positions(c, i, op)) \in Nat
  BY <1>1, PositionsFinite
<1>4. Cardinality(Positions(c, i, op)) <= Cardinality(Positions(c, n, op))
  BY <1>2, <1>3, FS_Subset
<1>5. Cardinality(Positions(c, i, op)) # 0
  BY <1>1, <1>3, FS_EmptySet
<1> QED BY <1>3, <1>4, <1>5

\* What every step leaves of the remotes: only Execute executes a command, for the remote
\* that is served, and only Accept changes a base, of a remote nothing was executed for.
LEMMA RemotesKept ==
  ASSUME TypeOK, SessionInv, [Next]_vars, ~Execute, NEW c \in Clients
  PROVE  /\ executed'[c] = executed[c] /\ replies'[c] = replies[c]
         /\ base'[c] = base[c] \/ executed[c] = 0
         /\ \A i \in 1..executed[c] : script'[c][i] = script[c][i]
         /\ UNCHANGED <<held, pinChanges>>
<1>0. /\ script \in [Clients -> Seq(Commands)] /\ executed \in [Clients -> Nat]
      /\ executed[c] <= Len(script[c]) /\ base \in [Clients -> Nat]
  BY DEF TypeOK, SessionInv
<1>1. CASE Clock
  BY <1>1 DEF Clock, ClockInReset, ClockIdle, CallTick, ClockRunning, remoteVars, serverVars
<1>2. ASSUME NEW d \in Clients, Accept(d)
      PROVE  /\ UNCHANGED <<executed, replies, script, held, pinChanges>>
             /\ base'[c] = base[c] \/ executed[c] = 0
  <2>1. UNCHANGED <<executed, replies, script, held, pinChanges>>
    BY <1>2 DEF Accept
  <2>2. base'[c] = base[c] \/ executed[c] = 0
    BY <1>0, <1>2 DEF Accept, SessionInv, Unserved
  <2> QED BY <2>1, <2>2
<1>3. CASE Abort
  BY <1>3 DEF Abort, remoteVars, serverVars
<1>4. CASE Remote
  <2>1. PICK d \in Clients : 
            Connect(d) \/ Collect(d) \/ Leave(d) \/ \E cmd \in Commands : Send(d, cmd)
    BY <1>4 DEF Remote
  <2>2. UNCHANGED <<executed, replies, base, held, pinChanges>>
    BY <1>4, <2>1 DEF Remote, Connect, Collect, Leave, Send, serverVars
  <2>3. \A i \in 1..executed[c] : script'[c][i] = script[c][i]
    <3>1. ASSUME NEW cmd \in Commands, Send(d, cmd), NEW i \in 1..executed[c]
          PROVE  script'[c][i] = script[c][i]
      <4>1. script'[c] = IF c = d THEN Append(script[c], cmd) ELSE script[c]
        BY <1>0, <3>1 DEF Send
      <4>2. i \in 1..Len(script[c]) /\ script[c] \in Seq(Commands)
        BY <1>0
      <4>3. Append(script[c], cmd)[i] = script[c][i]
        BY <4>2
      <4> QED BY <4>1, <4>3
    <3> QED BY <2>1, <3>1 DEF Connect, Collect, Leave
  <2> QED BY <2>2, <2>3
<1>5. CASE UNCHANGED vars
  BY <1>5 DEF vars, remoteVars, serverVars
<1> QED BY <1>1, <1>2, <1>3, <1>4, <1>5 DEF Next, Serve

\* What Execute does, for the remote that is served and for the others.
LEMMA ExecuteEffect ==
  ASSUME TypeOK, SessionInv, Execute, BridgeAssumption
  PROVE  /\ client \in Clients /\ client # NoClient /\ Command \in Commands
         /\ executed[client] \in Nat
         /\ executed'[client] = executed[client] + 1
         /\ replies'[client] = IF Command.op = "read" THEN Append(replies[client], tdo)
                                                      ELSE replies[client]
         /\ \A c \in Clients \ {client} : executed'[c] = executed[c] /\ replies'[c] = replies[c]
         /\ Perform(Command)
         /\ client' \in {client, NoClient} /\ pc = "read" /\ pc' = "clock" /\ pins' = held'
         /\ UNCHANGED <<script, base, tdo>>
<1>1. pc = "read" /\ executed[client] < Len(script[client])
  BY DEF Execute
<1>2. client \in Clients /\ Command \in Commands /\ executed[client] \in Nat
  BY <1>1, CommandKnown
<1>3. client # NoClient
  BY <1>2 DEF BridgeAssumption
<1>4. /\ executed' = [executed EXCEPT ![client] = executed[client] + 1]
      /\ replies' = IF Command.op = "read"
                      THEN [replies EXCEPT ![client] = Append(replies[client], tdo)] ELSE replies
      /\ Perform(Command) /\ client' \in {client, NoClient}
      /\ UNCHANGED <<script, base, tdo>>
  BY DEF Execute, Command
<1>5. pc' = "clock" /\ pins' = held'
  BY DEF Execute, Return
<1> QED BY <1>1, <1>2, <1>3, <1>4, <1>5 DEF TypeOK

-----------------------------------------------------------------------------
(* Replies.                                                                *)

\* The replies of one remote.
Current(c) ==
  LET reads == Positions(c, executed[c], "read")
  IN  /\ Len(replies[c]) = Cardinality(reads)
      /\ \A i \in reads :
           replies[c][Cardinality(Positions(c, i, "read"))]
             = base[c] + Cardinality(Positions(c, i, "pins"))

\* While a remote is served, its pins commands are all the pin changes since it was
\* accepted; in the call, the TDO sampled reflects every pin change.
ReplyInv ==
  /\ \A c \in Clients : Current(c)
  /\ client # NoClient =>
       pinChanges = base[client] + Cardinality(Positions(client, executed[client], "pins"))
  /\ pc = "read" => tdo = pinChanges

\* Nothing of a remote's executed commands, replies or base has changed.
LEMMA CurrentKept ==
  ASSUME TypeOK, NEW c \in Clients, Current(c),
         executed'[c] = executed[c], replies'[c] = replies[c],
         base'[c] = base[c] \/ executed[c] = 0,
         \A i \in 1..executed[c] : script'[c][i] = script[c][i]
  PROVE  Current(c)'
<1>0. executed[c] \in Nat
  BY DEF TypeOK
<1>1. \A m \in Nat : m <= executed[c] =>
        /\ Positions(c, m, "read")' = Positions(c, m, "read")
        /\ Positions(c, m, "pins")' = Positions(c, m, "pins")
  BY <1>0, PositionsKept
<1>2. Positions(c, executed[c], "read")' = Positions(c, executed[c], "read")
  BY <1>0, <1>1 DEF Positions
<1>3. \A i \in Positions(c, executed[c], "read") : i \in Nat /\ i <= executed[c] /\ executed[c] # 0
  BY <1>0 DEF Positions
<1>4. ASSUME NEW i \in Positions(c, executed[c], "read")
      PROVE  replies'[c][Cardinality(Positions(c, i, "read")')]
               = base'[c] + Cardinality(Positions(c, i, "pins")')
  <2>1. base'[c] = base[c]
    BY <1>3
  <2>2. /\ Positions(c, i, "read")' = Positions(c, i, "read")
        /\ Positions(c, i, "pins")' = Positions(c, i, "pins")
    BY <1>1, <1>3
  <2> QED BY <2>1, <2>2 DEF Current
<1>5. Len(replies'[c]) = Cardinality(Positions(c, executed[c], "read")')
  BY <1>2 DEF Current
<1> QED BY <1>2, <1>4, <1>5 DEF Current

\* A command is executed for the remote served: an 'R' gets the TDO of this moment.
LEMMA CurrentExecuted ==
  ASSUME TypeOK, SessionInv, ReplyInv, Execute, BridgeAssumption, NEW c \in Clients, c = client
  PROVE  /\ Current(c)'
         /\ Cardinality(Positions(c, executed[c] + 1, "pins"))
              = Cardinality(Positions(c, executed[c], "pins"))
                  + (IF Command.op = "pins" THEN 1 ELSE 0)
<1>6. PICK n \in Nat : n = executed[c]
  BY DEF TypeOK
<1> DEFINE reads == Positions(c, n, "read")
<1>0. /\ executed'[c] = n + 1 /\ script' = script /\ base' = base /\ c # NoClient
      /\ replies'[c] = IF Command.op = "read" THEN Append(replies[c], tdo) ELSE replies[c]
      /\ Command = script[c][n+1]
      /\ replies[c] \in Seq(Nat) /\ base[c] \in Nat /\ tdo \in Nat
      /\ Cardinality(reads) \in Nat
  BY <1>6, ExecuteEffect, PositionsFinite DEF TypeOK, Command
<1>1. /\ Current(c) /\ tdo = base[c] + Cardinality(Positions(c, n, "pins"))
      /\ Len(replies[c]) = Cardinality(reads)
  <2>1. pc = "read"
    BY DEF Execute
  <2> QED BY <1>0, <1>6, <2>1 DEF ReplyInv, Current
<1>7. /\ script[c][n+1].op = "pins" =>
           /\ Positions(c, n+1, "pins") = Positions(c, n, "pins") \cup {n+1}
           /\ Cardinality(Positions(c, n+1, "pins")) = Cardinality(Positions(c, n, "pins")) + 1
      /\ script[c][n+1].op # "pins" => Positions(c, n+1, "pins") = Positions(c, n, "pins")
  <2> PICK op : op = "pins"
    OBVIOUS
  <2>1. n \in Nat
    BY <1>6
  <2>2. /\ script[c][n+1].op = op =>
             /\ Positions(c, n+1, op) = Positions(c, n, op) \cup {n+1}
             /\ Cardinality(Positions(c, n+1, op)) = Cardinality(Positions(c, n, op)) + 1
        /\ script[c][n+1].op # op => Positions(c, n+1, op) = Positions(c, n, op)
    BY ONLY <2>1, OneMorePosition
  <2> QED BY <2>2
<1>8. /\ script[c][n+1].op = "read" =>
           /\ Positions(c, n+1, "read") = Positions(c, n, "read") \cup {n+1}
           /\ Cardinality(Positions(c, n+1, "read")) = Cardinality(Positions(c, n, "read")) + 1
      /\ script[c][n+1].op # "read" => Positions(c, n+1, "read") = Positions(c, n, "read")
  <2> PICK op : op = "read"
    OBVIOUS
  <2>1. n \in Nat
    BY <1>6
  <2>2. /\ script[c][n+1].op = op =>
             /\ Positions(c, n+1, op) = Positions(c, n, op) \cup {n+1}
             /\ Cardinality(Positions(c, n+1, op)) = Cardinality(Positions(c, n, op)) + 1
        /\ script[c][n+1].op # op => Positions(c, n+1, op) = Positions(c, n, op)
    BY ONLY <2>1, OneMorePosition
  <2> QED BY <2>2
<1>3. Cardinality(Positions(c, n + 1, "pins"))
        = Cardinality(Positions(c, n, "pins")) + (IF Command.op = "pins" THEN 1 ELSE 0)
  <2>1. Cardinality(Positions(c, n, "pins")) \in Nat
    BY <1>0, PositionsFinite
  <2>2. CASE Command.op = "pins"
    BY <1>0, <2>2, <1>7
  <2>3. CASE Command.op # "pins"
    <3>1. Positions(c, n + 1, "pins") = Positions(c, n, "pins")
      BY <1>0, <2>3, <1>7
    <3> QED BY <2>1, <2>3, <3>1
  <2> QED BY <2>2, <2>3
\* The remote's new replies, in terms of its script, which is unchanged.
<1>4. /\ Len(replies'[c]) = Cardinality(Positions(c, n + 1, "read"))
      /\ \A i \in Positions(c, n + 1, "read") :
           replies'[c][Cardinality(Positions(c, i, "read"))]
             = base[c] + Cardinality(Positions(c, i, "pins"))
  <2>1. CASE Command.op = "read"
    <3>1. /\ Positions(c, n + 1, "read") = reads \cup {n + 1}
          /\ Cardinality(Positions(c, n + 1, "read")) = Cardinality(reads) + 1
      BY <1>0, <2>1, <1>8
    <3>2. Positions(c, n + 1, "pins") = Positions(c, n, "pins")
      <4>1. script[c][n+1].op # "pins"
        BY <1>0, <2>1
      <4> QED BY <1>0, <4>1, <1>7
    <3>3. /\ Len(replies'[c]) = Len(replies[c]) + 1
          /\ replies'[c][Len(replies[c]) + 1] = tdo
          /\ \A k \in 1..Len(replies[c]) : replies'[c][k] = replies[c][k]
      BY <1>0, <2>1
    <3>4. ASSUME NEW i \in reads
          PROVE  replies'[c][Cardinality(Positions(c, i, "read"))]
                   = base[c] + Cardinality(Positions(c, i, "pins"))
      <4>1. Cardinality(Positions(c, i, "read")) \in 1..Len(replies[c])
        BY <1>0, <1>1, PlaceOfReply
      <4> QED BY <1>1, <1>6, <3>3, <4>1 DEF Current
    <3>5. replies'[c][Cardinality(Positions(c, n + 1, "read"))]
            = base[c] + Cardinality(Positions(c, n + 1, "pins"))
      BY <1>1, <3>1, <3>2, <3>3
    <3> QED BY <1>1, <3>1, <3>3, <3>4, <3>5
  <2>2. CASE Command.op # "read"
    <3>1. Positions(c, n + 1, "read") = reads
      BY <1>0, <2>2, <1>8
    <3>2. replies'[c] = replies[c]
      BY <1>0, <2>2
    <3> QED BY <1>1, <1>6, <3>1, <3>2 DEF Current
  <2> QED BY <2>1, <2>2
<1>5. Current(c)'
  <2>1. ASSUME NEW m, NEW op PROVE Positions(c, m, op)' = Positions(c, m, op)
    BY <1>0 DEF Positions
  <2>2. Positions(c, executed[c], "read")' = Positions(c, n + 1, "read")
    BY <1>0 DEF Positions
  <2>3. Len(replies'[c]) = Cardinality(Positions(c, executed[c], "read")')
    BY <1>4, <2>2
  <2>4. \A i \in Positions(c, executed[c], "read")' :
          replies'[c][Cardinality(Positions(c, i, "read")')]
            = base'[c] + Cardinality(Positions(c, i, "pins")')
    <3> SUFFICES ASSUME NEW i \in Positions(c, n + 1, "read")
                 PROVE  replies'[c][Cardinality(Positions(c, i, "read")')]
                          = base'[c] + Cardinality(Positions(c, i, "pins")')
      BY <2>2
    <3>1. /\ Positions(c, i, "read")' = Positions(c, i, "read")
          /\ Positions(c, i, "pins")' = Positions(c, i, "pins")
      BY <2>1
    <3> QED BY <1>0, <1>4, <3>1
  <2> QED BY <2>3, <2>4 DEF Current
<1> QED BY <1>3, <1>5, <1>6

\* What a step that executes no command does to the remote served and the sampled TDO:
\* a remote is accepted, TDO is sampled, or neither.
LEMMA ServedKept ==
  ASSUME TypeOK, SessionInv, [Next]_vars, ~Execute, BridgeAssumption
  PROVE  /\ UNCHANGED <<held, pinChanges>>
         /\ \/ UNCHANGED <<client, base>>
            \/ /\ client' \in Clients /\ executed[client'] = 0
               /\ base'[client'] = pinChanges /\ pins' = held'
         /\ pc' = "read" => tdo' = pinChanges \/ (pc = "read" /\ tdo' = tdo)
         /\ client # NoClient /\ client' = client => pins' = pins \/ pins' = held'
<1>1. CASE Clock
  <2>1. CASE ClockInReset
    <3>1. client = NoClient
      BY <2>1 DEF ClockInReset, SessionInv, BridgeAssumption, TypeOK
    <3> QED BY <2>1, <3>1 DEF ClockInReset, serverVars
  <2>2. CASE ClockIdle
    BY <2>2 DEF ClockIdle, ClockRunning, serverVars
  <2>3. CASE CallTick
    BY <2>3 DEF CallTick, ClockRunning, serverVars
  <2> QED BY <1>1, <2>1, <2>2, <2>3 DEF Clock
<1>2. ASSUME NEW c \in Clients, Accept(c)
      PROVE  /\ client' \in Clients /\ executed[client'] = 0
             /\ base'[client'] = pinChanges /\ pins' = held' /\ pc' = "clock"
             /\ UNCHANGED <<held, pinChanges>>
  <2>1. client' = c /\ pins' = held' /\ pc' = "clock" /\ UNCHANGED <<held, pinChanges>>
    BY <1>2 DEF Accept, Return
  <2>2. executed[c] = 0
    BY <1>2 DEF Accept, SessionInv, Unserved
  <2>3. base'[c] = pinChanges
    BY <1>2 DEF Accept, TypeOK
  <2> QED BY <2>1, <2>2, <2>3
<1>3. CASE Abort
  BY <1>3 DEF Abort, serverVars
<1>4. CASE Remote
  BY <1>4 DEF Remote, serverVars
<1>5. CASE UNCHANGED vars
  BY <1>5 DEF vars, serverVars
<1> QED BY <1>1, <1>2, <1>3, <1>4, <1>5 DEF Next, Serve

LEMMA NoPositions ==
  ASSUME NEW c, NEW op
  PROVE  Positions(c, 0, op) = {} /\ Cardinality(Positions(c, 0, op)) = 0
BY FS_EmptySet DEF Positions

LEMMA ReplyInit == ASSUME Init, BridgeAssumption PROVE SessionInv /\ ReplyInv
<1>1. SessionInv
  BY DEF Init, SessionInv, Unserved
<1>2. ASSUME NEW c \in Clients PROVE Current(c)
  <2>1. executed[c] = 0 /\ replies[c] = <<>>
    BY DEF Init
  <2> QED BY <2>1, NoPositions DEF Current
<1>3. client = NoClient /\ pc = "clock"
  BY DEF Init
<1> QED BY <1>1, <1>2, <1>3 DEF ReplyInv

LEMMA ReplyInductive ==
  ASSUME TypeOK, SessionInv, ReplyInv, [Next]_vars, BridgeAssumption
  PROVE  ReplyInv'
<1>1. CASE Execute
  <2>1. /\ client \in Clients /\ client # NoClient
        /\ executed'[client] = executed[client] + 1
        /\ client' \in {client, NoClient} /\ pc' = "clock" /\ UNCHANGED <<script, base>>
        /\ Perform(Command)
        /\ \A c \in Clients \ {client} : executed'[c] = executed[c] /\ replies'[c] = replies[c]
    BY <1>1, ExecuteEffect
  <2>2. PICK s \in Clients : s = client
    BY <2>1
  <2>3. /\ Current(s)'
        /\ Cardinality(Positions(s, executed[s] + 1, "pins"))
             = Cardinality(Positions(s, executed[s], "pins"))
                 + (IF Command.op = "pins" THEN 1 ELSE 0)
    BY <1>1, <2>2, CurrentExecuted
  <2>4. ASSUME NEW c \in Clients, c # s PROVE Current(c)'
    <3>1. Current(c) /\ executed'[c] = executed[c] /\ replies'[c] = replies[c]
      BY <2>1, <2>2, <2>4 DEF ReplyInv
    <3>2. base'[c] = base[c] /\ \A i \in 1..executed[c] : script'[c][i] = script[c][i]
      BY <2>1
    <3> QED BY <3>1, <3>2, CurrentKept
  <2>5. pinChanges' = base'[s] + Cardinality(Positions(s, executed[s], "pins")')
    <3>1. Positions(s, executed[s], "pins")' = Positions(s, executed[s] + 1, "pins")
      BY <2>1, <2>2 DEF Positions
    <3>2. pinChanges = base[s] + Cardinality(Positions(s, executed[s], "pins"))
      BY <2>1, <2>2 DEF ReplyInv
    <3>3. /\ pinChanges' = pinChanges + (IF Command.op = "pins" THEN 1 ELSE 0)
          /\ pinChanges \in Nat /\ base[s] \in Nat /\ executed[s] \in Nat
      BY <2>1 DEF Perform, TypeOK
    <3>4. Cardinality(Positions(s, executed[s], "pins")) \in Nat
      BY <3>3, PositionsFinite
    <3> QED BY <2>1, <2>3, <3>1, <3>2, <3>3, <3>4
  <2> QED BY <2>1, <2>2, <2>3, <2>4, <2>5 DEF ReplyInv
<1>2. CASE ~Execute
  <2>1. ASSUME NEW c \in Clients
        PROVE  /\ Current(c)' /\ executed'[c] = executed[c]
               /\ Positions(c, executed[c], "pins")' = Positions(c, executed[c], "pins")
    <3>1. /\ executed'[c] = executed[c] /\ replies'[c] = replies[c]
          /\ base'[c] = base[c] \/ executed[c] = 0
          /\ \A i \in 1..executed[c] : script'[c][i] = script[c][i]
      BY <1>2, RemotesKept
    <3>2. Current(c)
      BY DEF ReplyInv
    <3> QED BY <3>1, <3>2, CurrentKept DEF Positions
  <2>2. pinChanges' = pinChanges /\ \A c \in Clients : executed'[c] = executed[c]
    BY <1>2, <2>1, ServedKept
  <2>3. ASSUME client' # NoClient, NEW s \in Clients, s = client'
        PROVE  pinChanges' = base'[s] + Cardinality(Positions(s, executed[s], "pins")')
    <3>1. CASE UNCHANGED <<client, base>>
      BY <2>1, <2>2, <2>3, <3>1 DEF ReplyInv
    <3>2. CASE executed[s] = 0 /\ base'[s] = pinChanges
      <4>1. Cardinality(Positions(s, executed[s], "pins")') = 0
        BY <2>1, <3>2, NoPositions
      <4> QED BY <2>2, <3>2, <4>1 DEF TypeOK
    <3> QED BY <1>2, <2>3, <3>1, <3>2, ServedKept
  <2>4. pc' = "read" => tdo' = pinChanges'
    BY <1>2, <2>2, ServedKept DEF ReplyInv
  <2>5. client' # NoClient => client' \in Clients
    BY <1>2, ServedKept DEF TypeOK
  <2>6. client' # NoClient =>
          pinChanges' = base'[client'] + Cardinality(Positions(client, executed[client], "pins")')
    BY <2>3, <2>5
  <2> QED BY <2>1, <2>4, <2>6 DEF ReplyInv
<1> QED BY <1>1, <1>2

\* Every 'R' a remote sent is answered once, in order, with the TDO that the debug module
\* drives after all the pin changes that remote sent before it, for any number of remotes
\* that come and go (remote_bitbang.cc:103-209).
THEOREM RepliesCurrent == Spec => []ReplyIsCurrent
<1>1. Init => TypeOK /\ SessionInv /\ ReplyInv
  BY InitType, ReplyInit, BridgeAssumption
<1>2. TypeOK /\ SessionInv /\ ReplyInv /\ [Next]_vars => TypeOK' /\ SessionInv' /\ ReplyInv'
  BY TypeInductive, SessionInductive, ReplyInductive, BridgeAssumption
<1>3. ReplyInv => ReplyIsCurrent
  BY DEF ReplyInv, ReplyIsCurrent, Current
<1> QED BY <1>1, <1>2, <1>3, PTL DEF Spec

-----------------------------------------------------------------------------
(* Pins.                                                                   *)

\* The last pins command among the first n of c's script set the levels held.
Held(c, n) ==
  \A i \in Positions(c, n, "pins") :
    (\A j \in i+1..n : script[c][j].op # "pins")
      => script[c][i].arg = 4 * held.tck + 2 * held.tms + held.tdi

PinsInv == client # NoClient => pins = held /\ Held(client, executed[client])

\* What a pins command holds, and that no other command changes TCK, TMS and TDI.
LEMMA PerformHeld ==
  ASSUME TypeOK, NEW cmd \in Commands, Perform(cmd), BridgeAssumption
  PROVE  /\ cmd.op = "pins" => cmd.arg = 4 * held'.tck + 2 * held'.tms + held'.tdi
         /\ cmd.op # "pins" => /\ held'.tck = held.tck /\ held'.tms = held.tms
                               /\ held'.tdi = held.tdi
<1>1. held \in PinRecords
  BY DEF TypeOK
<1>2. CASE cmd.op = "pins"
  <2>1. held' = [held EXCEPT !.tck = cmd.arg \div 4, !.tms = (cmd.arg \div 2) % 2,
                             !.tdi = cmd.arg % 2]
    BY <1>2 DEF Perform
  <2>2. /\ held'.tck = cmd.arg \div 4 /\ held'.tms = (cmd.arg \div 2) % 2
        /\ held'.tdi = cmd.arg % 2
    BY <1>1, <2>1 DEF PinRecords
  <2>3. cmd.arg \in 0..7
    BY CommandFields
  <2>4. 4 * (cmd.arg \div 4) + 2 * ((cmd.arg \div 2) % 2) + (cmd.arg % 2) = cmd.arg
    BY <2>3, Digits
  <2> QED BY <1>2, <2>2, <2>4
<1>3. CASE cmd.op = "reset"
  BY <1>1, <1>3 DEF Perform, PinRecords
<1>4. CASE cmd.op \notin {"pins", "reset"}
  BY <1>4 DEF Perform
<1> QED BY <1>2, <1>3, <1>4

LEMMA HeldExecuted ==
  ASSUME TypeOK, SessionInv, Execute, BridgeAssumption, NEW c \in Clients, c = client,
         Held(c, executed[c])
  PROVE  Held(c, executed[c])'
<1>1. PICK n \in Nat : n = executed[c]
  BY DEF TypeOK
<1>2. /\ executed'[c] = n + 1 /\ script' = script /\ Command = script[c][n+1]
      /\ Command \in Commands /\ Perform(Command)
  BY <1>1, ExecuteEffect DEF Command
<1>3. /\ Command.op = "pins" => Command.arg = 4 * held'.tck + 2 * held'.tms + held'.tdi
      /\ Command.op # "pins" => /\ held'.tck = held.tck /\ held'.tms = held.tms
                                /\ held'.tdi = held.tdi
  BY <1>2, PerformHeld
<1>4. SUFFICES ASSUME NEW i \in 1..n+1, script[c][i].op = "pins",
                      \A j \in i+1..n+1 : script[c][j].op # "pins"
               PROVE  script[c][i].arg = 4 * held'.tck + 2 * held'.tms + held'.tdi
  BY <1>2 DEF Held, Positions
<1>5. CASE i = n + 1
  BY <1>2, <1>3, <1>4, <1>5
<1>6. CASE i # n + 1
  <2>1. i \in 1..n /\ n + 1 \in i+1..n+1 /\ \A j \in i+1..n : j \in i+1..n+1
    BY <1>4, <1>6
  <2>2. Command.op # "pins" /\ \A j \in i+1..n : script[c][j].op # "pins"
    BY <1>2, <1>4, <2>1
  <2>3. script[c][i].arg = 4 * held.tck + 2 * held.tms + held.tdi
    BY <1>1, <1>4, <2>1, <2>2 DEF Held, Positions
  <2> QED BY <1>3, <2>2, <2>3
<1> QED BY <1>5, <1>6

LEMMA PinsInductive ==
  ASSUME TypeOK, SessionInv, PinsInv, [Next]_vars, BridgeAssumption
  PROVE  PinsInv'
<1>1. CASE Execute
  <2>1. /\ client \in Clients /\ client # NoClient /\ client' \in {client, NoClient}
        /\ pins' = held'
    BY <1>1, ExecuteEffect
  <2>2. PICK s \in Clients : s = client
    BY <2>1
  <2>3. Held(s, executed[s])'
    BY <1>1, <2>1, <2>2, HeldExecuted DEF PinsInv
  <2> QED BY <2>1, <2>2, <2>3 DEF PinsInv
<1>2. CASE ~Execute
  <2>1. client' # NoClient => client' \in Clients
    BY <1>2, ServedKept DEF TypeOK
  <2>2. ASSUME NEW s \in Clients, s = client', client' # NoClient
        PROVE  pins' = held' /\ Held(s, executed[s])'
    <3>1. /\ executed'[s] = executed[s] /\ executed[s] \in Nat /\ held' = held
          /\ \A i \in 1..executed[s] : script'[s][i] = script[s][i]
      BY <1>2, RemotesKept DEF TypeOK
    <3>2. CASE UNCHANGED <<client, base>>
      <4>1. pins = held /\ Held(s, executed[s])
        BY <2>2, <3>2 DEF PinsInv
      <4>2. pins' = held'
        BY <1>2, <2>2, <3>1, <3>2, <4>1, ServedKept
      <4>3. Held(s, executed[s])'
        BY <3>1, <4>1 DEF Held, Positions
      <4> QED BY <4>2, <4>3
    <3>3. CASE executed[s] = 0 /\ pins' = held'
      BY <3>1, <3>3 DEF Held, Positions
    <3> QED BY <1>2, <2>2, <3>2, <3>3, ServedKept
  <2> QED BY <2>1, <2>2 DEF PinsInv
<1> QED BY <1>1, <1>2

\* Between calls the pins are those of the last pins command executed for the remote
\* served, whatever is sent and by however many remotes: no command is skipped, and none
\* reaches another pin (remote_bitbang.cc:119-136, 162-209).
THEOREM PinsAsCommanded == Spec => []PinsFollowCommands
<1>1. Init => TypeOK /\ SessionInv /\ PinsInv
  BY InitType, ReplyInit, BridgeAssumption DEF Init, PinsInv
<1>2. TypeOK /\ SessionInv /\ PinsInv /\ [Next]_vars => TypeOK' /\ SessionInv' /\ PinsInv'
  BY TypeInductive, SessionInductive, PinsInductive, BridgeAssumption
<1>3. BridgeAssumption /\ PinsInv => PinsFollowCommands
  BY DEF PinsInv, Held, PinsFollowCommands, BridgeAssumption
<1> QED BY <1>1, <1>2, <1>3, BridgeAssumption, PTL DEF Spec
-----------------------------------------------------------------------------
(* The service.                                                            *)

\* Nobody is served who was not accepted.  From the first remote on the pins are the held
\* ones, also between two remotes, and reset is over; before, the levels held are those
\* of the constructor.
ServiceInv ==
  /\ client # NoClient => client \in Accepted
  /\ IF Accepted = {} THEN held = PinRecord(1, 1, 1, 1, 1)
                      ELSE pins = held /\ resetLeft = 0

\* A remote is only awaited when nobody is served.
AwaitInv == pc = "accept" => client = NoClient

LEMMA ServiceInit == ASSUME Init, BridgeAssumption PROVE ServiceInv /\ Service!Init
<1>1. Accepted = {}
  BY DEF Init, Accepted
<1>2. PinLevels = [pins |-> 0, reset |-> 2]
  BY DEF Init, PinRecord, PinLevels
<1> QED BY <1>1, <1>2 DEF Init, ServiceInv, Service!Init

\* What a step other than Accept and Execute leaves of what the remotes see.
LEMMA AcceptedKept ==
  ASSUME TypeOK, Clock \/ Abort \/ Remote \/ UNCHANGED vars
  PROVE  /\ Accepted' = Accepted
         /\ UNCHANGED <<client, executed, replies, quit, held, pinChanges>>
<1>1. CASE Clock
  BY <1>1 DEF Clock, ClockInReset, ClockIdle, CallTick, ClockRunning, Accepted,
              serverVars, remoteVars
<1>2. CASE Abort \/ UNCHANGED vars
  BY <1>2 DEF Abort, vars, Accepted, serverVars, remoteVars
<1>3. CASE Remote
  <2>1. PICK c \in Clients : 
            Connect(c) \/ Collect(c) \/ Leave(c) \/ \E cmd \in Commands : Send(c, cmd)
    BY <1>3 DEF Remote
  <2>2. UNCHANGED <<client, executed, replies, quit, held, pinChanges>>
    BY <1>3, <2>1 DEF Remote, Connect, Collect, Leave, Send, serverVars
  <2>3. \A d \in Clients : conn'[d] \in Unserved <=> conn[d] \in Unserved
    BY <2>1 DEF TypeOK, Connect, Collect, Leave, Send, Unserved
  <2> QED BY <2>2, <2>3 DEF Accepted, Unserved
<1> QED BY <1>1, <1>2, <1>3

\* A clock toggles TCK, before anybody is served, or moves no pin.
LEMMA ClockPins ==
  ASSUME TypeOK, ServiceInv, Clock
  PROVE  /\ \/ Accepted = {} /\ pins' = [pins EXCEPT !.tck = 1 - pins.tck]
            \/ pins' = pins
         /\ resetLeft = 0 => resetLeft' = 0
         /\ UNCHANGED script
  BY DEF Clock, ClockInReset, ClockIdle, CallTick, ClockRunning, ServiceInv, remoteVars, TypeOK

\* Accepting a remote adds it to those accepted, and lets the pins be the held ones.
LEMMA AcceptServes ==
  ASSUME TypeOK, SessionInv, BridgeAssumption, NEW c \in Clients, Accept(c)
  PROVE  /\ c \notin Accepted /\ Accepted' = Accepted \cup {c}
         /\ client' = c /\ pins' = held /\ held' = held /\ resetLeft' = 0
         /\ UNCHANGED <<script, executed, replies, quit, pinChanges>>
<1>1. /\ client' = c /\ pins' = held /\ held' = held
      /\ UNCHANGED <<script, executed, replies, quit, pinChanges>>
  BY DEF Accept, Return
<1>2. resetLeft' = 0
  BY DEF Accept, SessionInv, simVars
<1>3. conn[c] \in Unserved /\ conn'[c] \notin Unserved
  BY DEF Accept, TypeOK, Unserved
<1>4. \A d \in Clients \ {c} : conn'[d] = conn[d]
  BY DEF Accept, TypeOK
<1> QED BY <1>1, <1>2, <1>3, <1>4 DEF Accepted, Unserved

\* Executing a command keeps who was accepted.
LEMMA ExecuteServes ==
  ASSUME TypeOK, SessionInv, BridgeAssumption, Execute
  PROVE  /\ Accepted' = Accepted /\ client \in Accepted
         /\ pins' = held' /\ resetLeft' = resetLeft
         /\ client' = IF quit' THEN NoClient ELSE client
<1>1. /\ client \in Clients /\ client # NoClient /\ pins' = held'
  BY ExecuteEffect
<1>2. conn[client] \notin Unserved
  BY <1>1 DEF SessionInv
<1>3. conn'[client] \notin Unserved /\ \A d \in Clients \ {client} : conn'[d] = conn[d]
  BY <1>1, <1>2 DEF Execute, TypeOK, Unserved
<1>4. resetLeft' = resetLeft /\ client' = IF quit' THEN NoClient ELSE client
  BY DEF Execute, simVars
<1> QED BY <1>1, <1>2, <1>3, <1>4 DEF Accepted, Unserved

LEMMA ServiceInductive ==
  ASSUME TypeOK, SessionInv, ServiceInv, AwaitInv, [Next]_vars, BridgeAssumption
  PROVE  ServiceInv' /\ AwaitInv'
<1>1. CASE Clock
  <2>1. ServiceInv'
    BY <1>1, AcceptedKept, ClockPins DEF ServiceInv
  <2>2. AwaitInv'
    BY <1>1 DEF Clock, ClockInReset, ClockIdle, CallTick, ClockRunning, AwaitInv, serverVars
  <2> QED BY <2>1, <2>2
<1>2. ASSUME NEW c \in Clients, Accept(c)
      PROVE  ServiceInv' /\ AwaitInv'
  <2>1. pc' = "clock"
    BY <1>2 DEF Accept, Return
  <2> QED BY <1>2, <2>1, AcceptServes DEF ServiceInv, AwaitInv
<1>3. CASE Execute
  <2>1. pc' = "clock"
    BY <1>3 DEF Execute, Return
  <2>2. client' # NoClient => client' \in Accepted'
    BY <1>3, ExecuteServes
  <2>3. Accepted # {} /\ Accepted' # {} /\ pins' = held' /\ resetLeft' = 0
    BY <1>3, ExecuteServes DEF ServiceInv
  <2> QED BY <2>1, <2>2, <2>3 DEF ServiceInv, AwaitInv
<1>4. CASE Abort \/ Remote \/ UNCHANGED vars
  <2>1. UNCHANGED <<pins, resetLeft>> /\ (pc' = pc \/ pc' = "aborted")
    BY <1>4 DEF Abort, Remote, vars, simVars
  <2> QED BY <1>4, <2>1, AcceptedKept DEF ServiceInv, AwaitInv
<1> QED BY <1>1, <1>2, <1>3, <1>4 DEF Next, Serve

-----------------------------------------------------------------------------
(* Each step is one of the service, or none.                               *)

\* Toggling TCK adds 4 to the number of the levels, or takes 4 off.
LEMMA Toggled ==
  ASSUME pins \in PinRecords, pins' = [pins EXCEPT !.tck = 1 - pins.tck]
  PROVE  PinLevels' = [PinLevels EXCEPT !.pins = (@ + 4) % 8]
<1>1. /\ pins.tck \in {0, 1} /\ pins.tms \in {0, 1} /\ pins.tdi \in {0, 1}
      /\ pins'.tck = 1 - pins.tck /\ pins'.tms = pins.tms /\ pins'.tdi = pins.tdi
      /\ pins'.trstn = pins.trstn /\ pins'.srstn = pins.srstn
  BY DEF PinRecords
<1>2. \A t, m, i \in {0, 1} : 4 * (1 - t) + 2 * m + i = (4 * t + 2 * m + i + 4) % 8
  OBVIOUS
<1>3. 4 * pins'.tck + 2 * pins'.tms + pins'.tdi
        = (4 * pins.tck + 2 * pins.tms + pins.tdi + 4) % 8
  BY <1>1, <1>2
<1> QED BY <1>1, <1>3 DEF PinLevels

\* What a command does to the levels.
LEMMA PerformLevels ==
  ASSUME TypeOK, NEW cmd \in Commands, Perform(cmd), pins = held, pins' = held',
         BridgeAssumption
  PROVE  PinLevels' = CASE cmd.op = "pins"  -> [PinLevels EXCEPT !.pins = cmd.arg]
                        [] cmd.op = "reset" -> [PinLevels EXCEPT !.reset = cmd.arg]
                        [] OTHER            -> PinLevels
<1>1. held \in PinRecords /\ cmd.arg \in 0..7
  BY CommandFields DEF TypeOK
<1>2. CASE cmd.op = "pins"
  <2>1. cmd.arg = 4 * held'.tck + 2 * held'.tms + held'.tdi
    BY <1>2, PerformHeld
  <2>2. held'.trstn = held.trstn /\ held'.srstn = held.srstn
    BY <1>1, <1>2 DEF Perform, PinRecords
  <2> QED BY <1>2, <2>1, <2>2 DEF PinLevels
<1>3. CASE cmd.op = "reset"
  <2>1. held'.tck = held.tck /\ held'.tms = held.tms /\ held'.tdi = held.tdi
    BY <1>3, PerformHeld
  <2>2. held'.trstn = 1 - (cmd.arg \div 2) /\ held'.srstn = 1 - (cmd.arg % 2)
    BY <1>1, <1>3 DEF Perform, PinRecords
  <2>3. \A v \in 0..3 : 2 * (1 - (1 - (v \div 2))) + (1 - (1 - (v % 2))) = v
    OBVIOUS
  <2>4. cmd.arg \in 0..3
    BY <1>3, CommandFields
  <2>5. 2 * (1 - held'.trstn) + (1 - held'.srstn) = cmd.arg
    BY <2>2, <2>3, <2>4
  <2> QED BY <1>3, <2>1, <2>5 DEF PinLevels
<1>4. CASE cmd.op \notin {"pins", "reset"}
  BY <1>4 DEF Perform, PinLevels
<1> QED BY <1>2, <1>3, <1>4

LEMMA ServiceStep ==
  ASSUME TypeOK, SessionInv, ReplyInv, ServiceInv, AwaitInv, [Next]_vars, BridgeAssumption
  PROVE  [Service!Next]_(Service!vars)
<1> SUFFICES Service!Next \/ UNCHANGED Service!vars
  OBVIOUS
<1>1. CASE Clock
  <2>1. /\ Accepted' = Accepted /\ UNCHANGED <<client, script, executed, replies, quit, pinChanges>>
    BY <1>1, AcceptedKept, ClockPins
  <2>2. CASE pins' = pins
    BY <2>1, <2>2 DEF Service!vars, PinLevels
  <2>3. CASE Accepted = {} /\ pins' = [pins EXCEPT !.tck = 1 - pins.tck]
    <3>1. PinLevels' = [PinLevels EXCEPT !.pins = (@ + 4) % 8]
      BY <2>3, Toggled DEF TypeOK
    <3>2. Service!Toggle
      BY <2>1, <2>3, <3>1 DEF Service!Toggle
    <3> QED BY <3>2 DEF Service!Next
  <2> QED BY <1>1, <2>2, <2>3, ClockPins
<1>2. ASSUME NEW c \in Clients, Accept(c)
      PROVE  Service!Next
  <2>1. /\ c \notin Accepted /\ Accepted' = Accepted \cup {c}
        /\ client' = c /\ pins' = held
        /\ UNCHANGED <<script, executed, replies, quit, pinChanges>>
    BY <1>2, AcceptServes
  <2>2. client = NoClient
    BY <1>2 DEF Accept, AwaitInv
  <2>3. PinLevels' = IF Accepted = {} THEN Service!Idle ELSE PinLevels
    <3>1. CASE Accepted = {}
      <4>1. pins' = PinRecord(1, 1, 1, 1, 1)
        BY <2>1, <3>1 DEF ServiceInv
      <4>2. PinLevels' = [pins |-> 7, reset |-> 0]
        BY <4>1 DEF PinRecord, PinLevels
      <4> QED BY <3>1, <4>2 DEF Service!Idle
    <3>2. CASE Accepted # {}
      BY <2>1, <3>2 DEF ServiceInv, PinLevels
    <3> QED BY <3>1, <3>2
  <2>4. Service!Attach(c)
    BY <2>1, <2>2, <2>3 DEF Service!Attach
  <2> QED BY <2>4 DEF Service!Next
<1>3. CASE Execute
  <2>1. /\ Accepted' = Accepted /\ client \in Accepted /\ pins' = held'
        /\ client' = IF quit' THEN NoClient ELSE client
    BY <1>3, ExecuteServes
  <2>2. /\ client # NoClient /\ Command \in Commands /\ Perform(Command)
        /\ script' = script
    BY <1>3, ExecuteEffect
  <2>3. pins = held
    BY <2>1 DEF ServiceInv
  <2>4. PinLevels' = CASE Command.op = "pins"  -> [PinLevels EXCEPT !.pins = Command.arg]
                       [] Command.op = "reset" -> [PinLevels EXCEPT !.reset = Command.arg]
                       [] OTHER                -> PinLevels
    BY <2>1, <2>2, <2>3, PerformLevels
  <2>5. tdo = pinChanges
    BY <1>3 DEF Execute, ReplyInv
  <2>6. /\ executed[client] < Len(script[client])
        /\ executed' = [executed EXCEPT ![client] = @ + 1]
        /\ replies' = IF Command.op = "read" THEN [replies EXCEPT ![client] = Append(@, pinChanges)]
                                             ELSE replies
    BY <1>3, <2>5 DEF Execute, Command
  <2>7. /\ quit' = (quit \/ Command.op = "quit")
        /\ pinChanges' = IF Command.op = "pins" THEN pinChanges + 1 ELSE pinChanges
    BY <2>2 DEF Perform
  <2>8. Service!Perform
    BY <2>1, <2>2, <2>4, <2>6, <2>7 DEF Service!Perform, Command
  <2> QED BY <2>8 DEF Service!Next
<1>4. CASE Abort \/ UNCHANGED vars
  <2>1. UNCHANGED <<pins, script>>
    BY <1>4 DEF Abort, vars, remoteVars
  <2> QED BY <1>4, <2>1, AcceptedKept DEF Service!vars, PinLevels
<1>5. CASE Remote
  <2>1. PICK c \in Clients : 
            Connect(c) \/ Collect(c) \/ Leave(c) \/ \E cmd \in Commands : Send(c, cmd)
    BY <1>5 DEF Remote
  <2>2. /\ Accepted' = Accepted /\ PinLevels' = PinLevels
        /\ UNCHANGED <<client, executed, replies, quit, pinChanges>>
    BY <1>5, AcceptedKept DEF Remote, PinLevels
  <2>3. ASSUME NEW cmd \in Commands, Send(c, cmd) PROVE Service!Next
    <3>1. script' = [script EXCEPT ![c] = Append(@, cmd)]
      BY <2>3 DEF Send
    <3>2. Service!Send(c, cmd)
      BY <2>2, <3>1 DEF Service!Send
    <3> QED BY <3>2 DEF Service!Next
  <2>4. CASE Connect(c) \/ Collect(c) \/ Leave(c)
    <3>1. script' = script
      BY <2>4 DEF Connect, Collect, Leave
    <3> QED BY <2>2, <3>1 DEF Service!vars
  <2> QED BY <2>1, <2>3, <2>4
<1> QED BY <1>1, <1>2, <1>3, <1>4, <1>5 DEF Next, Serve

\* The bridge implements BitbangService, for any number of remotes and whatever they send,
\* whenever they leave: each command takes effect at once and in its turn, for one remote
\* at a time, a read is answered with the TDO of its moment, and nothing else moves a pin
\* once a remote was served (SimJTAG.sv:66-88, remote_bitbang.cc:76-209).
THEOREM BridgeImplementsService == Spec => ImplementsBitbangService
<1> DEFINE BridgeInv == TypeOK /\ SessionInv /\ ReplyInv /\ ServiceInv /\ AwaitInv
<1>1. Init => BridgeInv /\ Service!Init
  BY InitType, ReplyInit, ServiceInit, BridgeAssumption DEF Init, AwaitInv
<1>2. BridgeInv /\ [Next]_vars => BridgeInv' /\ [Service!Next]_(Service!vars)
  BY TypeInductive, SessionInductive, ReplyInductive, ServiceInductive, ServiceStep,
     BridgeAssumption
<1> QED BY <1>1, <1>2, PTL DEF Spec, ImplementsBitbangService, Service!Spec
=============================================================================
