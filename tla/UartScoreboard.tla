--------------------------- MODULE UartScoreboard ---------------------------
(***************************************************************************)
(* The UART side of the SoC scoreboard (Soc/soc_ref_module/soc_scb.sv)     *)
(* with what feeds it: the bytes a test writes to the UART's transmitter   *)
(* or has driven onto its input line, the Wishbone transfers, and the two  *)
(* UART monitors.  Everything expected goes into one FIFO, everything that *)
(* came out of the UART into another, and run_phase compares them in turn. *)
(*                                                                         *)
(* Bytes are numbered, and stand for data that all differ.  The UART, its  *)
(* agents and the reference model's registers are outside this repository  *)
(* and modelled from what the scoreboard and the sequences make of them.   *)
(***************************************************************************)
EXTENDS Integers, Sequences, SequencesExt, FiniteSets

CONSTANTS
  MaxBytes,    \* bound: bytes of a test
  FifoDepth,   \* depth of uart_expected_value_fifo and uart_actual_value_fifo
  DutDepth,    \* depth of the UART's own FIFOs
  Corrupts,    \* whether the UART may garble a byte
  Usage        \* what a test does beyond plain traffic in one direction at a time

ASSUME ScoreboardAssumption ==
  /\ MaxBytes \in Nat /\ FifoDepth \in Nat \ {0} /\ DutDepth \in Nat \ {0}
  /\ Corrupts \in BOOLEAN
  /\ Usage \subseteq {"rxResets", "txResets", "emptyReads", "duplex", "formats"}

NoByte  == 0
NoFrame == [byte |-> NoByte, received |-> TRUE, published |-> TRUE]

\* What a read of the receiver returns: a byte, garbled or not, or a stray value.
Datum(b, ok) == [byte |-> b, intact |-> ok]
Stray        == Datum(NoByte, FALSE)

VARIABLES
  lcr,        \* LCR: "plain" (03h), "latch" (83h), "parity" (1Bh), "latchParity" (9Bh)
  txFifo, txLine,   \* the UART's transmitter and the byte on its output line
  rxLine, rxFifo,   \* the frame on its input line and its receiver
  expected, actual, \* the scoreboard's FIFOs
  comparePc,  \* run_phase: "expected" or "actual", the FIFO whose get it is in
  held,       \* expected_value while the actual one is awaited
  results,    \* the verdicts
  bytes,      \* history: bytes given to the UART so far
  garbled,    \* history: the bytes it garbled
  plain       \* history: the traffic has been plain so far

uartVars    == <<txFifo, txLine, rxLine, rxFifo>>
compareVars == <<comparePc, held, results>>
vars == <<lcr, uartVars, expected, actual, compareVars, bytes, garbled, plain>>

Init ==
  /\ lcr = "plain"
  /\ txFifo = <<>> /\ txLine = NoByte /\ rxLine = NoFrame /\ rxFifo = <<>>
  /\ expected = <<>> /\ actual = <<>>
  /\ comparePc = "expected" /\ held = NoByte /\ results = <<>>
  /\ bytes = 0 /\ garbled = {} /\ plain = TRUE

\* Mutant of TryPut: the last place of the FIFO is not used.
TryPutShort(fifo, v) == IF Len(fifo) < FifoDepth - 1 THEN Append(fifo, v) ELSE fifo

\* Mutant of TryPut: the FIFO has no bound.
TryPutUnbounded(fifo, v) == Append(fifo, v)

\* try_put: a full FIFO drops the value, and nobody looks at the result.
TryPut(fifo, v) == IF Len(fifo) < FifoDepth THEN Append(fifo, v) ELSE fifo

\* Time passes, and bus, UART and agents move, only while run_phase is blocked.
CompareBlocked == IF comparePc = "expected" THEN expected = <<>> ELSE actual = <<>>

TxIdle == txFifo = <<>> /\ txLine = NoByte
RxIdle == rxFifo = <<>> /\ rxLine = NoFrame

-----------------------------------------------------------------------------
(* The Wishbone sequences.  A transfer goes from the monitor to wb_ref_model, *)
(* which gives it to the scoreboard first and to the UART's model then.       *)

\* LCR is written at any time, also with bytes in the UART or on its lines: what that does
\* to a frame under way is one of the ways in which the UART may garble it.
WriteLcr(v) ==
  /\ CompareBlocked /\ v # lcr
  /\ lcr' = v
  /\ UNCHANGED <<uartVars, expected, actual, compareVars, bytes, garbled, plain>>

\* Mutant of WriteThr: the written byte is expected in no format.
WriteThrUnexpected ==
  /\ CompareBlocked /\ bytes < MaxBytes /\ Len(txFifo) < DutDepth
  /\ \/ lcr = "plain"
     \/ lcr = "parity" /\ "formats" \in Usage
  /\ RxIdle \/ "duplex" \in Usage
  /\ plain' = (plain /\ lcr = "plain" /\ RxIdle)
  /\ bytes' = bytes + 1
  /\ txFifo' = Append(txFifo, bytes')
  /\ UNCHANGED <<lcr, txLine, rxLine, rxFifo, expected, actual, compareVars, garbled>>

\* A byte is written to the transmitter, unless that is full.  It is expected only if LCR
\* is 03h.
WriteThr ==
  /\ CompareBlocked /\ bytes < MaxBytes /\ Len(txFifo) < DutDepth
  /\ \/ lcr = "plain"
     \/ lcr = "parity" /\ "formats" \in Usage
  /\ RxIdle \/ "duplex" \in Usage
  /\ plain' = (plain /\ lcr = "plain" /\ RxIdle)
  /\ bytes' = bytes + 1
  /\ txFifo' = Append(txFifo, bytes')
  /\ expected' = IF lcr = "plain" THEN TryPut(expected, bytes') ELSE expected
  /\ UNCHANGED <<lcr, txLine, rxLine, rxFifo, actual, compareVars, garbled>>

\* Address 0 is read while LCR is not 83h: the value is an actual one, be it a
\* byte, what an empty receiver returns, or the divisor latch of 9Bh.
ReadRbr ==
  /\ CompareBlocked /\ lcr # "latch"
  /\ \/ /\ lcr # "latchParity" /\ rxFifo # <<>>
        /\ actual' = TryPut(actual, Head(rxFifo)) /\ rxFifo' = Tail(rxFifo)
        /\ UNCHANGED plain
     \/ /\ lcr # "latchParity" /\ rxFifo = <<>> /\ "emptyReads" \in Usage
        /\ actual' = TryPut(actual, Stray) /\ plain' = FALSE /\ UNCHANGED rxFifo
     \/ /\ lcr = "latchParity" /\ "formats" \in Usage
        /\ actual' = TryPut(actual, Stray) /\ plain' = FALSE /\ UNCHANGED rxFifo
  /\ UNCHANGED <<lcr, txFifo, txLine, rxLine, expected, compareVars, bytes, garbled>>

\* FCR clears the receiver's or the transmitter's FIFO, but not a byte on the line.
ResetFifo ==
  /\ CompareBlocked /\ plain' = FALSE
  /\ \/ "rxResets" \in Usage /\ rxFifo # <<>> /\ rxFifo' = <<>> /\ UNCHANGED txFifo
     \/ "txResets" \in Usage /\ txFifo # <<>> /\ txFifo' = <<>> /\ UNCHANGED rxFifo
  /\ UNCHANGED <<lcr, txLine, rxLine, expected, actual, compareVars, bytes, garbled>>

-----------------------------------------------------------------------------
(* The UART and the two agents on its lines.                               *)

\* The UART takes a byte from its FIFO and puts it on the line.
Transmit ==
  /\ CompareBlocked /\ txLine = NoByte /\ txFifo # <<>>
  /\ txLine' = Head(txFifo) /\ txFifo' = Tail(txFifo)
  /\ UNCHANGED <<lcr, rxLine, rxFifo, expected, actual, compareVars, bytes, garbled, plain>>

\* Whether the UART garbles byte b.
Garble(b, ok) ==
  /\ ok \/ Corrupts
  /\ garbled' = IF ok THEN garbled ELSE garbled \cup {b}

\* Mutant of Uart1Rx: a garbled frame is not published.
Uart1RxIntactOnly ==
  /\ CompareBlocked /\ txLine # NoByte
  /\ \E ok \in BOOLEAN :
       /\ Garble(txLine, ok)
       /\ actual' = IF ok THEN TryPut(actual, Datum(txLine, ok)) ELSE actual
  /\ txLine' = NoByte
  /\ UNCHANGED <<lcr, txFifo, rxLine, rxFifo, expected, compareVars, bytes, plain>>

\* write_uart1rx: the frame is over, and the receiving agent's monitor publishes it.
Uart1Rx ==
  /\ CompareBlocked /\ txLine # NoByte
  /\ \E ok \in BOOLEAN :
       /\ Garble(txLine, ok)
       /\ actual' = TryPut(actual, Datum(txLine, ok))
  /\ txLine' = NoByte
  /\ UNCHANGED <<lcr, txFifo, rxLine, rxFifo, expected, compareVars, bytes, plain>>

\* The sending agent drives a frame, unless the receiver would overflow.
DriveFrame ==
  /\ CompareBlocked /\ bytes < MaxBytes /\ rxLine = NoFrame /\ Len(rxFifo) < DutDepth
  /\ TxIdle \/ "duplex" \in Usage
  /\ plain' = (plain /\ TxIdle)
  /\ bytes' = bytes + 1
  /\ rxLine' = [byte |-> bytes', received |-> FALSE, published |-> FALSE]
  /\ UNCHANGED <<lcr, txFifo, txLine, rxFifo, expected, actual, compareVars, garbled>>

\* The frame on the line after the UART or the monitor has taken it.
FrameAfter(f) == IF f.received /\ f.published THEN NoFrame ELSE f

Receive ==
  /\ CompareBlocked /\ ~rxLine.received
  /\ \E ok \in BOOLEAN :
       /\ Garble(rxLine.byte, ok)
       /\ rxFifo' = Append(rxFifo, Datum(rxLine.byte, ok))
  /\ rxLine' = FrameAfter([rxLine EXCEPT !.received = TRUE])
  /\ UNCHANGED <<lcr, txFifo, txLine, expected, actual, compareVars, bytes, plain>>

\* write_uart1tx: the sending agent's monitor publishes the frame.
Uart1Tx ==
  /\ CompareBlocked /\ ~rxLine.published
  /\ expected' = TryPut(expected, rxLine.byte)
  /\ rxLine' = FrameAfter([rxLine EXCEPT !.published = TRUE])
  /\ UNCHANGED <<lcr, txFifo, txLine, rxFifo, actual, compareVars, bytes, garbled, plain>>

Lines == Transmit \/ Uart1Rx \/ Receive \/ Uart1Tx

-----------------------------------------------------------------------------
(* run_phase of the scoreboard.                                            *)

GetExpected ==
  /\ comparePc = "expected" /\ expected # <<>>
  /\ held' = Head(expected) /\ expected' = Tail(expected)
  /\ comparePc' = "actual"
  /\ UNCHANGED <<lcr, uartVars, actual, results, bytes, garbled, plain>>

Verdict(b, d) == [byte |-> b, passed |-> d = Datum(b, TRUE)]

\* Mutant of GetActual: the expected value is not renewed after a mismatch.
GetActualRetry ==
  /\ comparePc = "actual" /\ actual # <<>>
  /\ results' = Append(results, Verdict(held, Head(actual)))
  /\ actual' = Tail(actual)
  /\ IF Head(actual).intact
       THEN comparePc' = "expected" /\ held' = NoByte
       ELSE UNCHANGED <<comparePc, held>>
  /\ UNCHANGED <<lcr, uartVars, expected, bytes, garbled, plain>>

GetActual ==
  /\ comparePc = "actual" /\ actual # <<>>
  /\ results' = Append(results, Verdict(held, Head(actual)))
  /\ actual' = Tail(actual)
  /\ comparePc' = "expected" /\ held' = NoByte
  /\ UNCHANGED <<lcr, uartVars, expected, bytes, garbled, plain>>

Compare == GetExpected \/ GetActual

-----------------------------------------------------------------------------
Lcrs == {"plain", "latch", "parity", "latchParity"}

Next ==
  \/ \E v \in Lcrs : WriteLcr(v)
  \/ WriteThr \/ ReadRbr \/ ResetFifo
  \/ DriveFrame
  \/ Lines
  \/ Compare

Spec == Init /\ [][Next]_vars

\* The scoreboard's process runs, and what is on a line or in the transmitter moves
\* on; nothing makes a sequence write, drive or read.
FairSpec == Spec /\ WF_vars(Compare) /\ WF_vars(Lines)

-----------------------------------------------------------------------------
(* Properties.                                                             *)

Bytes == 1..MaxBytes
Data  == [byte : Bytes \cup {NoByte}, intact : BOOLEAN]

\* Type invariant of the UART, the FIFOs and the scoreboard.
TypeOK ==
  /\ lcr \in Lcrs
  /\ txFifo \in Seq(Bytes) /\ Len(txFifo) <= DutDepth /\ txLine \in Bytes \cup {NoByte}
  /\ rxFifo \in Seq(Data) /\ Len(rxFifo) <= DutDepth
  /\ rxLine \in [byte : Bytes \cup {NoByte}, received : BOOLEAN, published : BOOLEAN]
  /\ expected \in Seq(Bytes) /\ Len(expected) <= FifoDepth
  /\ actual \in Seq(Data) /\ Len(actual) <= FifoDepth
  /\ comparePc \in {"expected", "actual"} /\ held \in Bytes \cup {NoByte}
  /\ results \in Seq([byte : Bytes \cup {NoByte}, passed : BOOLEAN])
  /\ bytes \in 0..MaxBytes /\ plain \in BOOLEAN /\ garbled \subseteq Bytes

\* In plain traffic the verdicts are about the bytes in the order they were given to
\* the UART, one each, and a byte fails exactly if the UART garbled it: the two FIFOs
\* never get out of step (soc_scb.sv:333-352, 468-497, 546-554).
VerdictsTrue ==
  plain => \A i \in 1..Len(results) : results[i] = [byte |-> i, passed |-> i \notin garbled]

\* In plain traffic, once nothing is on a line, in the UART or before the comparison,
\* every byte has had its verdict: no try_put has dropped one
\* (soc_scb.sv:296-297, 337, 349, 474, 493).
AllJudgedWhenIdle ==
  plain /\ TxIdle /\ RxIdle /\ CompareBlocked => Len(results) = bytes

\* Whatever the test does, no byte is judged twice: a mismatch does not make the
\* scoreboard hold on to the expected byte (soc_scb.sv:546-554).
JudgedOnce ==
  \A i, j \in 1..Len(results) : results[i].byte = results[j].byte => i = j

\* A byte written to the transmitter gets a verdict, unless the test leaves plain
\* traffic first (soc_scb.sv:540-556).
EveryByteJudged ==
  \A b \in Bytes :
    (plain /\ b \in ToSet(txFifo))
      ~> (~plain \/ \E i \in 1..Len(results) : results[i].byte = b)
=============================================================================
