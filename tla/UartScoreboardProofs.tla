------------------------ MODULE UartScoreboardProofs ------------------------
(***************************************************************************)
(* Proofs about UartScoreboard, for any number of bytes, any traffic and   *)
(* any depth of the FIFOs, as long as the scoreboard's FIFOs are not       *)
(* shorter than the UART's where nothing may be dropped.                   *)
(***************************************************************************)
EXTENDS UartScoreboard, TLAPS

-----------------------------------------------------------------------------
(* Queues.                                                                 *)

\* Appending adds the last element and leaves the others.
LEMMA Appended ==
  ASSUME NEW S, NEW q \in Seq(S), NEW v \in S
  PROVE  /\ Append(q, v) \in Seq(S)
         /\ Len(q) \in Nat /\ Len(Append(q, v)) = Len(q) + 1
         /\ \A i \in 1..Len(q) + 1 : Append(q, v)[i] = IF i <= Len(q) THEN q[i] ELSE v
  OBVIOUS

\* Taking the head leaves the others, one place nearer.
LEMMA Taken ==
  ASSUME NEW S, NEW q \in Seq(S), q # <<>>
  PROVE  /\ Head(q) \in S /\ Head(q) = q[1]
         /\ Tail(q) \in Seq(S)
         /\ Len(q) \in Nat \ {0} /\ Len(Tail(q)) = Len(q) - 1
         /\ \A i \in 1..Len(q) - 1 : Tail(q)[i] = q[i + 1]
  OBVIOUS

\* try_put on a FIFO within its depth.
LEMMA Tried ==
  ASSUME ScoreboardAssumption, NEW S, NEW q \in Seq(S), Len(q) <= FifoDepth, NEW v \in S
  PROVE  /\ TryPut(q, v) \in Seq(S) /\ Len(TryPut(q, v)) <= FifoDepth
         /\ TryPut(q, v) = Append(q, v) \/ TryPut(q, v) = q
  BY Appended DEF TryPut, ScoreboardAssumption

-----------------------------------------------------------------------------
(* Types.                                                                  *)

\* TypeOK is not inductive alone: a frame on the line must have a number while somebody
\* has still to take it, and a place in the receiver.
TypeInv ==
  /\ TypeOK
  /\ ~rxLine.received \/ ~rxLine.published => rxLine.byte \in Bytes
  /\ ~rxLine.received => Len(rxFifo) < DutDepth

LEMMA TypeInit == ScoreboardAssumption /\ Init => TypeInv
  BY DEF Init, TypeInv, TypeOK, ScoreboardAssumption, Bytes, Data, NoByte, NoFrame, Lcrs

\* A new number is that of a byte.
LEMMA FreshByte ==
  ASSUME ScoreboardAssumption, TypeOK, bytes < MaxBytes
  PROVE  bytes + 1 \in Bytes /\ bytes + 1 \in 0..MaxBytes
  BY DEF TypeOK, Bytes, ScoreboardAssumption

LEMMA DatumType ==
  ASSUME NEW b \in Bytes \cup {NoByte}, NEW ok \in BOOLEAN
  PROVE  Datum(b, ok) \in Data /\ Stray \in Data
  BY DEF Datum, Data, Stray, NoByte

LEMMA FrameType ==
  ASSUME NEW f \in [byte : Bytes, received : BOOLEAN, published : BOOLEAN]
  PROVE  /\ FrameAfter(f) \in [byte : Bytes \cup {NoByte}, received : BOOLEAN, published : BOOLEAN]
         /\ ~FrameAfter(f).received \/ ~FrameAfter(f).published => FrameAfter(f).byte \in Bytes
         /\ ~FrameAfter(f).received => ~f.received
  BY DEF FrameAfter, NoFrame, NoByte

LEMMA TypeStep ==
  ASSUME ScoreboardAssumption, TypeInv, [Next]_vars
  PROVE  TypeInv'
<1> USE DEF TypeInv
<1>0. ScoreboardAssumption /\ FifoDepth \in Nat /\ DutDepth \in Nat
  BY DEF ScoreboardAssumption
<1>1. ASSUME NEW v \in Lcrs, WriteLcr(v) PROVE TypeInv'
  BY <1>1 DEF WriteLcr, TypeOK, uartVars, compareVars
<1>2. CASE WriteThr
  <2>1. bytes + 1 \in Bytes /\ bytes' \in 0..MaxBytes /\ bytes' = bytes + 1
    BY <1>2, FreshByte DEF WriteThr
  <2>2. txFifo' \in Seq(Bytes) /\ Len(txFifo') <= DutDepth
    BY <1>0, <1>2, <2>1, Appended DEF WriteThr, TypeOK
  <2>3. expected' \in Seq(Bytes) /\ Len(expected') <= FifoDepth
    BY <1>2, <2>1, Tried DEF WriteThr, TypeOK
  <2>4. plain' \in BOOLEAN
    BY <1>2 DEF WriteThr
  <2> QED BY <1>2, <2>1, <2>2, <2>3, <2>4 DEF WriteThr, TypeOK, compareVars
<1>3. CASE ReadRbr
  <2>1. Stray \in Data
    BY DatumType DEF NoByte, Stray, Data, Datum
  <2>2. /\ actual' \in Seq(Data) /\ Len(actual') <= FifoDepth
        /\ rxFifo' \in Seq(Data) /\ Len(rxFifo') <= Len(rxFifo)
        /\ Len(rxFifo') \in Nat /\ Len(rxFifo) \in Nat
    <3>1. CASE rxFifo # <<>> /\ actual' = TryPut(actual, Head(rxFifo)) /\ rxFifo' = Tail(rxFifo)
               /\ UNCHANGED plain
      <4>1. /\ Head(rxFifo) \in Data
            /\ rxFifo' \in Seq(Data) /\ Len(rxFifo) \in Nat /\ Len(rxFifo') = Len(rxFifo) - 1
        BY <3>1, Taken DEF TypeOK
      <4>2. actual' \in Seq(Data) /\ Len(actual') <= FifoDepth
        BY <3>1, <4>1, Tried DEF TypeOK
      <4> QED BY <3>1, <4>1, <4>2 DEF TypeOK
    <3>2. CASE actual' = TryPut(actual, Stray) /\ plain' = FALSE /\ UNCHANGED rxFifo
      <4>1. Len(rxFifo) \in Nat
        BY DEF TypeOK
      <4>2. actual' \in Seq(Data) /\ Len(actual') <= FifoDepth
        BY <3>2, <2>1, Tried DEF TypeOK
      <4> QED BY <3>2, <4>1, <4>2 DEF TypeOK
    <3> QED BY <1>3, <3>1, <3>2 DEF ReadRbr
  <2>3. plain' \in BOOLEAN
    BY <1>3 DEF ReadRbr, TypeOK
  <2> QED BY <1>0, <1>3, <2>2, <2>3 DEF ReadRbr, TypeOK, compareVars
<1>4. CASE ResetFifo
  <2>1. /\ <<>> \in Seq(Data) /\ <<>> \in Seq(Bytes) /\ Len(<<>>) = 0
        /\ Len(rxFifo) \in Nat /\ Len(txFifo) \in Nat
    BY DEF TypeOK
  <2>2. /\ rxFifo' \in Seq(Data) /\ Len(rxFifo') \in Nat
        /\ Len(rxFifo') = Len(rxFifo) \/ Len(rxFifo') = 0
    BY <1>4, <2>1 DEF ResetFifo, TypeOK
  <2>3. /\ txFifo' \in Seq(Bytes) /\ Len(txFifo') \in Nat
        /\ Len(txFifo') = Len(txFifo) \/ Len(txFifo') = 0
    BY <1>4, <2>1 DEF ResetFifo, TypeOK
  <2>4. /\ Len(rxFifo') <= DutDepth /\ Len(txFifo') <= DutDepth
        /\ Len(rxFifo) < DutDepth => Len(rxFifo') < DutDepth
    BY <1>0, <2>1, <2>2, <2>3 DEF TypeOK
  <2> QED BY <1>4, <2>2, <2>3, <2>4 DEF ResetFifo, TypeOK, compareVars
<1>5. CASE DriveFrame
  <2>1. bytes + 1 \in Bytes /\ bytes' \in 0..MaxBytes /\ bytes' = bytes + 1
    BY <1>5, FreshByte DEF DriveFrame
  <2>2. rxLine' \in [byte : Bytes, received : BOOLEAN, published : BOOLEAN]
    BY <1>5, <2>1 DEF DriveFrame
  <2>3. plain' \in BOOLEAN
    BY <1>5 DEF DriveFrame
  <2> QED BY <1>5, <2>1, <2>2, <2>3 DEF DriveFrame, TypeOK, compareVars
<1>6. CASE Transmit
  BY <1>0, <1>6, Taken DEF Transmit, TypeOK, compareVars
<1>7. CASE Uart1Rx
  <2>1. PICK ok \in BOOLEAN : Garble(txLine, ok) /\ actual' = TryPut(actual, Datum(txLine, ok))
    BY <1>7 DEF Uart1Rx
  <2>2. txLine \in Bytes
    BY <1>7 DEF Uart1Rx, TypeOK
  <2>3. actual' \in Seq(Data) /\ Len(actual') <= FifoDepth
    BY <2>1, <2>2, Tried, DatumType DEF TypeOK
  <2>4. garbled' \subseteq Bytes
    BY <2>1, <2>2 DEF Garble, TypeOK
  <2> QED BY <1>7, <2>3, <2>4 DEF Uart1Rx, TypeOK, compareVars
<1>8. CASE Receive
  <2>1. PICK ok \in BOOLEAN : Garble(rxLine.byte, ok)
                              /\ rxFifo' = Append(rxFifo, Datum(rxLine.byte, ok))
    BY <1>8 DEF Receive
  <2>2. rxLine.byte \in Bytes
    BY <1>8 DEF Receive, TypeOK
  <2>3. rxFifo' \in Seq(Data) /\ Len(rxFifo') = Len(rxFifo) + 1
    BY <2>1, <2>2, Appended, DatumType DEF TypeOK
  <2>4. garbled' \subseteq Bytes
    BY <2>1, <2>2 DEF Garble, TypeOK
  <2>5. [rxLine EXCEPT !.received = TRUE] \in [byte : Bytes, received : BOOLEAN, published : BOOLEAN]
    BY <2>2 DEF TypeOK
  <2>6. rxLine' \in [byte : Bytes \cup {NoByte}, received : BOOLEAN, published : BOOLEAN]
        /\ (~rxLine'.received \/ ~rxLine'.published => rxLine'.byte \in Bytes)
    BY <1>8, <2>5, FrameType DEF Receive
  <2>7. rxLine'.received /\ Len(rxFifo') <= DutDepth
    <3>1. [rxLine EXCEPT !.received = TRUE].received
      BY DEF TypeOK
    <3>2. rxLine'.received
      BY <1>8, <3>1, <2>5, FrameType DEF Receive
    <3> QED BY <1>0, <1>8, <2>3, <3>2 DEF Receive, TypeOK
  <2> QED BY <1>8, <2>3, <2>4, <2>6, <2>7 DEF Receive, TypeOK, compareVars
<1>9. CASE Uart1Tx
  <2>1. rxLine.byte \in Bytes
    BY <1>9 DEF Uart1Tx, TypeOK
  <2>2. expected' \in Seq(Bytes) /\ Len(expected') <= FifoDepth
    BY <1>9, <2>1, Tried DEF Uart1Tx, TypeOK
  <2>3. [rxLine EXCEPT !.published = TRUE] \in [byte : Bytes, received : BOOLEAN, published : BOOLEAN]
    BY <2>1 DEF TypeOK
  <2>4. /\ rxLine' \in [byte : Bytes \cup {NoByte}, received : BOOLEAN, published : BOOLEAN]
        /\ ~rxLine'.received \/ ~rxLine'.published => rxLine'.byte \in Bytes
    BY <1>9, <2>3, FrameType DEF Uart1Tx
  <2>5. ~rxLine'.received => ~rxLine.received
    <3>1. [rxLine EXCEPT !.published = TRUE].received = rxLine.received
      BY DEF TypeOK
    <3> QED BY <1>9, <2>3, <3>1, FrameType DEF Uart1Tx
  <2> QED BY <1>9, <2>2, <2>4, <2>5 DEF Uart1Tx, TypeOK, compareVars
<1>10. CASE GetExpected
  <2>1. held' \in Bytes /\ expected' \in Seq(Bytes) /\ Len(expected') <= FifoDepth
    BY <1>0, <1>10, Taken DEF GetExpected, TypeOK
  <2> QED BY <1>10, <2>1 DEF GetExpected, TypeOK, uartVars
<1>11. CASE GetActual
  <2>1. actual' \in Seq(Data) /\ Len(actual') <= FifoDepth
    BY <1>0, <1>11, Taken DEF GetActual, TypeOK
  <2>2. Verdict(held, Head(actual)) \in [byte : Bytes \cup {NoByte}, passed : BOOLEAN]
    BY DEF Verdict, TypeOK
  <2>3. results' \in Seq([byte : Bytes \cup {NoByte}, passed : BOOLEAN])
    BY <1>11, <2>2, Appended DEF GetActual, TypeOK
  <2> QED BY <1>11, <2>1, <2>3 DEF GetActual, TypeOK, uartVars
<1>12. CASE UNCHANGED vars
  BY <1>12 DEF vars, TypeOK, uartVars, compareVars
<1> QED BY <1>1, <1>2, <1>3, <1>4, <1>5, <1>6, <1>7, <1>8, <1>9, <1>10, <1>11, <1>12
       DEF Next, Lines, Compare

\* The scoreboard and what surrounds it keep their types, and the FIFOs their depths
\* (soc_scb.sv:296-306, 333-352, 540-557).
THEOREM TypeCorrect == Spec => []TypeOK
<1>1. Init => TypeInv
  BY TypeInit, ScoreboardAssumption
<1>2. TypeInv /\ [Next]_vars => TypeInv'
  BY TypeStep, ScoreboardAssumption
<1>3. TypeInv => TypeOK
  BY DEF TypeInv
<1> QED BY <1>1, <1>2, <1>3, PTL DEF Spec

-----------------------------------------------------------------------------
(* In any traffic, and with FIFOs of any depth, no byte is judged twice.   *)

\* The row of numbers that have been judged, are held, or are still to be expected.
JudgedBytes == {results[i].byte : i \in 1..Len(results)}
HeldBytes   == IF comparePc = "actual" THEN {held} ELSE {}
QueuedBytes == {expected[i] : i \in 1..Len(expected)}
LineBytes   == IF rxLine.published THEN {} ELSE {rxLine.byte}

\* No number is twice among them, and none is larger than that of the last byte given.
OnceInv ==
  /\ JudgedBytes \cup HeldBytes \cup QueuedBytes \cup LineBytes \subseteq 1..bytes
  /\ JudgedBytes \cap HeldBytes = {} /\ JudgedBytes \cap QueuedBytes = {}
  /\ JudgedBytes \cap LineBytes = {} /\ HeldBytes \cap QueuedBytes = {}
  /\ HeldBytes \cap LineBytes = {} /\ QueuedBytes \cap LineBytes = {}
  /\ \A i, j \in 1..Len(results) : results[i].byte = results[j].byte => i = j
  /\ \A i, j \in 1..Len(expected) : expected[i] = expected[j] => i = j

\* try_put of a number that is not in the FIFO.
LEMMA TriedOnce ==
  ASSUME ScoreboardAssumption, TypeOK, \A i, j \in 1..Len(expected) : expected[i] = expected[j] => i = j,
         NEW b \in Bytes \ QueuedBytes, expected' = TryPut(expected, b)
  PROVE  /\ QueuedBytes' \subseteq QueuedBytes \cup {b}
         /\ \A i, j \in 1..Len(expected') : expected'[i] = expected'[j] => i = j
<1>1. CASE expected' = expected
  BY <1>1 DEF QueuedBytes
<1>2. CASE expected' = Append(expected, b)
  <2>1. /\ Len(expected) \in Nat /\ Len(expected') = Len(expected) + 1
        /\ \A i \in 1..Len(expected) + 1 :
             expected'[i] = IF i <= Len(expected) THEN expected[i] ELSE b
    BY <1>2, Appended DEF TypeOK
  <2>2. \A i \in 1..Len(expected) : expected[i] # b
    BY DEF QueuedBytes
  <2>3. ASSUME NEW i \in 1..Len(expected'), NEW j \in 1..Len(expected'),
               expected'[i] = expected'[j]
        PROVE  i = j
    <3>1. CASE i <= Len(expected) /\ j <= Len(expected)
      <4>1. i \in 1..Len(expected) /\ j \in 1..Len(expected)
        BY <2>1, <3>1
      <4>2. expected[i] = expected[j]
        BY <2>1, <2>3, <3>1
      <4> QED BY <4>1, <4>2
    <3>2. CASE i <= Len(expected) /\ ~(j <= Len(expected))
      BY <2>1, <2>2, <2>3, <3>2
    <3>3. CASE ~(i <= Len(expected)) /\ j <= Len(expected)
      BY <2>1, <2>2, <2>3, <3>3
    <3>4. CASE ~(i <= Len(expected)) /\ ~(j <= Len(expected))
      BY <2>1, <3>4
    <3> QED BY <3>1, <3>2, <3>3, <3>4
  <2>4. ASSUME NEW c \in QueuedBytes'
        PROVE  c \in QueuedBytes \cup {b}
    <3>1. PICK i \in 1..Len(expected') : c = expected'[i]
      BY <2>4 DEF QueuedBytes
    <3> QED BY <2>1, <3>1 DEF QueuedBytes
  <2> QED BY <2>3, <2>4
<1> QED BY <1>1, <1>2 DEF TryPut

LEMMA OnceInit == ScoreboardAssumption /\ Init => OnceInv
<1> SUFFICES ASSUME Init
             PROVE  OnceInv
  OBVIOUS
<1>1. Len(results) = 0 /\ Len(expected) = 0 /\ comparePc = "expected" /\ rxLine.published
  BY DEF Init, NoFrame
<1>2. JudgedBytes = {} /\ HeldBytes = {} /\ QueuedBytes = {} /\ LineBytes = {}
  BY <1>1 DEF JudgedBytes, HeldBytes, QueuedBytes, LineBytes
<1> QED BY <1>1, <1>2 DEF OnceInv

LEMMA OnceStep ==
  ASSUME ScoreboardAssumption, TypeInv, OnceInv, [Next]_vars
  PROVE  OnceInv'
<1>0. TypeOK /\ bytes \in Nat
  BY DEF TypeInv, TypeOK
<1>1. ASSUME UNCHANGED <<expected, compareVars, bytes>>, LineBytes' = LineBytes
      PROVE  OnceInv'
  <2>1. JudgedBytes' = JudgedBytes /\ HeldBytes' = HeldBytes /\ QueuedBytes' = QueuedBytes
    BY <1>1 DEF JudgedBytes, HeldBytes, QueuedBytes, compareVars
  <2> QED BY <1>1, <2>1 DEF OnceInv, compareVars
<1>2. CASE WriteThr
  <2>1. /\ bytes' = bytes + 1 /\ bytes + 1 \in Bytes
        /\ expected' = TryPut(expected, bytes + 1) \/ expected' = expected
    BY <1>2, FreshByte DEF WriteThr, TypeInv
  <2>2. bytes + 1 \notin 1..bytes /\ 1..bytes \subseteq 1..bytes + 1 /\ bytes + 1 \in 1..bytes + 1
    BY <1>0
  <2>3. JudgedBytes' = JudgedBytes /\ HeldBytes' = HeldBytes /\ LineBytes' = LineBytes
    BY <1>2 DEF WriteThr, JudgedBytes, HeldBytes, LineBytes, compareVars
  <2>4. /\ QueuedBytes' \subseteq QueuedBytes \cup {bytes + 1}
        /\ \A i, j \in 1..Len(expected') : expected'[i] = expected'[j] => i = j
    <3>1. CASE expected' = expected
      BY <3>1 DEF OnceInv, QueuedBytes
    <3>2. CASE expected' = TryPut(expected, bytes + 1)
      BY <1>0, <2>1, <2>2, <3>2, TriedOnce DEF OnceInv
    <3> QED BY <2>1, <3>1, <3>2
  <2>5. results' = results
    BY <1>2 DEF WriteThr, compareVars
  <2> QED BY <2>1, <2>2, <2>3, <2>4, <2>5 DEF OnceInv
<1>3. CASE DriveFrame
  <2>1. bytes' = bytes + 1 /\ LineBytes = {} /\ LineBytes' = {bytes + 1}
    BY <1>3 DEF DriveFrame, LineBytes, NoFrame
  <2>2. bytes + 1 \notin 1..bytes /\ 1..bytes \subseteq 1..bytes + 1 /\ bytes + 1 \in 1..bytes + 1
    BY <1>0
  <2>3. JudgedBytes' = JudgedBytes /\ HeldBytes' = HeldBytes /\ QueuedBytes' = QueuedBytes
    BY <1>3 DEF DriveFrame, JudgedBytes, HeldBytes, QueuedBytes, compareVars
  <2>4. results' = results /\ expected' = expected
    BY <1>3 DEF DriveFrame, compareVars
  <2> QED BY <2>1, <2>2, <2>3, <2>4 DEF OnceInv
<1>4. CASE Receive
  <2>1. LineBytes' = LineBytes
    BY <1>4 DEF Receive, LineBytes, FrameAfter, NoFrame, TypeInv, TypeOK
  <2> QED BY <1>1, <1>4, <2>1 DEF Receive
<1>5. CASE Uart1Tx
  <2>1. LineBytes = {rxLine.byte} /\ LineBytes' = {}
    BY <1>5 DEF Uart1Tx, LineBytes, FrameAfter, NoFrame, TypeInv, TypeOK
  <2>2. rxLine.byte \in Bytes \ QueuedBytes
    BY <1>5, <2>1 DEF Uart1Tx, OnceInv, TypeInv
  <2>3. /\ QueuedBytes' \subseteq QueuedBytes \cup {rxLine.byte}
        /\ \A i, j \in 1..Len(expected') : expected'[i] = expected'[j] => i = j
    BY <1>0, <1>5, <2>2, TriedOnce DEF Uart1Tx, OnceInv
  <2>4. /\ JudgedBytes' = JudgedBytes /\ HeldBytes' = HeldBytes
        /\ bytes' = bytes /\ results' = results
    BY <1>5 DEF Uart1Tx, JudgedBytes, HeldBytes, compareVars
  <2> QED BY <2>1, <2>3, <2>4 DEF OnceInv
<1>6. CASE GetExpected
  <2>1. /\ comparePc = "expected" /\ comparePc' = "actual" /\ expected # <<>>
        /\ held' = Head(expected) /\ expected' = Tail(expected)
        /\ UNCHANGED <<rxLine, results, bytes>>
    BY <1>6 DEF GetExpected, uartVars
  <2>2. /\ Head(expected) = expected[1] /\ Len(expected) \in Nat \ {0}
        /\ Len(expected') = Len(expected) - 1
        /\ \A i \in 1..Len(expected) - 1 : expected'[i] = expected[i + 1]
    BY <1>0, <2>1, Taken DEF TypeOK
  <2>3. \A i \in 1..Len(expected') : i + 1 \in 1..Len(expected) /\ i + 1 # 1 /\ i \in Int
    BY <2>2
  <2>4. 1 \in 1..Len(expected)
    BY <2>2
  <2>5. \A i, j \in 1..Len(expected') : expected'[i] = expected'[j] => i = j
    <3>1. ASSUME NEW i \in 1..Len(expected'), NEW j \in 1..Len(expected'),
                 expected'[i] = expected'[j]
          PROVE  i = j
      <4>1. expected[i + 1] = expected[j + 1]
        BY <2>2, <3>1
      <4>2. i + 1 = j + 1
        BY <2>3, <4>1 DEF OnceInv
      <4> QED BY <2>3, <4>2
    <3> QED BY <3>1
  <2>6. HeldBytes = {} /\ HeldBytes' = {expected[1]} /\ expected[1] \in QueuedBytes
    BY <2>1, <2>2, <2>4 DEF HeldBytes, QueuedBytes
  <2>7. QueuedBytes' \subseteq QueuedBytes \ {expected[1]}
    <3>1. ASSUME NEW i \in 1..Len(expected')
          PROVE  expected'[i] \in QueuedBytes \ {expected[1]}
      BY <2>2, <2>3, <2>4 DEF OnceInv, QueuedBytes
    <3> QED BY <3>1 DEF QueuedBytes
  <2>8. JudgedBytes' = JudgedBytes /\ LineBytes' = LineBytes
    BY <2>1 DEF JudgedBytes, LineBytes
  <2> QED BY <2>1, <2>5, <2>6, <2>7, <2>8 DEF OnceInv
<1>7. CASE GetActual
  <2>1. /\ comparePc = "actual" /\ comparePc' = "expected"
        /\ results' = Append(results, Verdict(held, Head(actual)))
        /\ UNCHANGED <<rxLine, expected, bytes>>
    BY <1>7 DEF GetActual, uartVars
  <2>2. /\ Verdict(held, Head(actual)) \in [byte : Bytes \cup {NoByte}, passed : BOOLEAN]
        /\ Verdict(held, Head(actual)).byte = held
    BY <1>0 DEF Verdict, TypeOK
  <2>3. /\ Len(results) \in Nat /\ Len(results') = Len(results) + 1
        /\ \A i \in 1..Len(results) + 1 :
             results'[i] = IF i <= Len(results) THEN results[i] ELSE Verdict(held, Head(actual))
    BY <1>0, <2>1, <2>2, Appended DEF TypeOK
  <2>4. \A i \in 1..Len(results') :
          results'[i].byte = IF i <= Len(results) THEN results[i].byte ELSE held
    BY <2>2, <2>3
  <2>5. HeldBytes = {held} /\ HeldBytes' = {}
    BY <2>1 DEF HeldBytes
  <2>6. \A i \in 1..Len(results) : results[i].byte # held
    BY <2>5 DEF OnceInv, JudgedBytes
  <2>7. ASSUME NEW i \in 1..Len(results'), NEW j \in 1..Len(results'),
               results'[i].byte = results'[j].byte
        PROVE  i = j
    <3>1. CASE i <= Len(results) /\ j <= Len(results)
      <4>1. i \in 1..Len(results) /\ j \in 1..Len(results)
        BY <2>3, <3>1
      <4>2. results[i].byte = results[j].byte
        BY <2>4, <2>7, <3>1
      <4> QED BY <4>1, <4>2 DEF OnceInv
    <3>2. CASE i <= Len(results) /\ ~(j <= Len(results))
      BY <2>3, <2>4, <2>6, <2>7, <3>2
    <3>3. CASE ~(i <= Len(results)) /\ j <= Len(results)
      BY <2>3, <2>4, <2>6, <2>7, <3>3
    <3>4. CASE ~(i <= Len(results)) /\ ~(j <= Len(results))
      BY <2>3, <3>4
    <3> QED BY <3>1, <3>2, <3>3, <3>4
  <2>8. JudgedBytes' \subseteq JudgedBytes \cup {held}
    <3>1. ASSUME NEW i \in 1..Len(results')
          PROVE  results'[i].byte \in JudgedBytes \cup {held}
      <4>1. CASE i <= Len(results)
        BY <2>3, <2>4, <4>1 DEF JudgedBytes
      <4>2. CASE ~(i <= Len(results))
        BY <2>4, <4>2
      <4> QED BY <4>1, <4>2
    <3> QED BY <3>1 DEF JudgedBytes
  <2>9. QueuedBytes' = QueuedBytes /\ LineBytes' = LineBytes
    BY <2>1 DEF QueuedBytes, LineBytes
  <2> QED BY <2>1, <2>5, <2>7, <2>8, <2>9 DEF OnceInv
<1>8. ASSUME NEW v \in Lcrs, WriteLcr(v) PROVE OnceInv'
  BY <1>1, <1>8 DEF WriteLcr, LineBytes, uartVars
<1>9. CASE ReadRbr \/ ResetFifo \/ Transmit \/ Uart1Rx
  BY <1>1, <1>9 DEF ReadRbr, ResetFifo, Transmit, Uart1Rx, LineBytes
<1>10. CASE UNCHANGED vars
  BY <1>1, <1>10 DEF vars, LineBytes, uartVars
<1> QED BY <1>2, <1>3, <1>4, <1>5, <1>6, <1>7, <1>8, <1>9, <1>10 DEF Next, Lines, Compare

\* Whatever the test does, and however short the FIFOs are, a byte is judged at most
\* once: what try_put drops is never made up for by judging another byte again
\* (soc_scb.sv:333-352, 540-557).
THEOREM NeverJudgedTwice == Spec => []JudgedOnce
<1>1. Init => TypeInv /\ OnceInv
  BY TypeInit, OnceInit, ScoreboardAssumption
<1>2. TypeInv /\ OnceInv /\ [Next]_vars => TypeInv' /\ OnceInv'
  BY TypeStep, OnceStep, ScoreboardAssumption
<1>3. OnceInv => JudgedOnce
  BY DEF OnceInv, JudgedOnce
<1> QED BY <1>1, <1>2, <1>3, PTL DEF Spec

-----------------------------------------------------------------------------
(* In plain traffic the two FIFOs stay in step: proof of VerdictsTrue and   *)
(* AllJudgedWhenIdle.  The bytes are one row, in the order of their         *)
(* numbers, and each stage of the scoreboard, of the UART and of the lines  *)
(* holds a stretch of it that begins where the stage before it ends.        *)

\* The stretches: how many bytes are judged, and how many have come how far.

One(b) == IF b THEN 1 ELSE 0

Judged   == Len(results)
Claimed  == Judged + One(comparePc = "actual")      \* expected ones taken by run_phase
Expected == Claimed + Len(expected)                 \* expected so far
Actual   == Judged + Len(actual)                    \* come out of the UART
Received == Actual + Len(rxFifo)                    \* as well, or in its receiver
Sending  == Received + One(txLine # NoByte)         \* as well, or on its output line

\* The verdicts, and what run_phase and the FIFOs hold, are the bytes in order.
ScoreboardInStep ==
  /\ \A i \in 1..Judged : results[i] = [byte |-> i, passed |-> i \notin garbled]
  /\ comparePc = "actual" => held = Judged + 1
  /\ \A i \in 1..Len(expected) : expected[i] = Claimed + i
  /\ \A i \in 1..Len(actual) : actual[i] = Datum(Judged + i, Judged + i \notin garbled)

\* So is what the UART and the lines hold.
UartInStep ==
  /\ \A i \in 1..Len(rxFifo) : rxFifo[i] = Datum(Actual + i, Actual + i \notin garbled)
  /\ txLine # NoByte => txLine = Received + 1
  /\ \A i \in 1..Len(txFifo) : txFifo[i] = Sending + i
  /\ ~rxLine.received \/ ~rxLine.published => rxLine.byte = bytes
  /\ rxLine.received /\ rxLine.published => rxLine = NoFrame

\* Every byte is in one of the stages, and only what has left the lines is garbled.
AllAccounted ==
  /\ bytes = Sending + Len(txFifo) + One(~rxLine.received)
  /\ bytes = Expected + One(~rxLine.published)
  /\ TxIdle \/ RxIdle
  /\ garbled \subseteq 1..Received

BytesInStep == ScoreboardInStep /\ UartInStep /\ AllAccounted

InStep == plain => BytesInStep

OrderInv == TypeInv /\ InStep

DepthAssumption == ScoreboardAssumption /\ FifoDepth >= DutDepth

-----------------------------------------------------------------------------
(* Numbers.                                                                *)

LEMMA OneType == \A b \in BOOLEAN : One(b) \in {0, 1}
  BY DEF One

LEMMA Counts ==
  ASSUME TypeInv
  PROVE  /\ Len(results) \in Nat /\ Len(expected) \in Nat /\ Len(actual) \in Nat
         /\ Len(rxFifo) \in Nat /\ Len(txFifo) \in Nat /\ bytes \in Nat
         /\ Judged \in Nat /\ Claimed \in Nat /\ Expected \in Nat
         /\ Actual \in Nat /\ Received \in Nat /\ Sending \in Nat
<1>1. /\ Len(results) \in Nat /\ Len(expected) \in Nat /\ Len(actual) \in Nat
      /\ Len(rxFifo) \in Nat /\ Len(txFifo) \in Nat /\ bytes \in Nat
  BY DEF TypeInv, TypeOK
<1> QED BY <1>1 DEF Judged, Claimed, Expected, Actual, Received, Sending, One

\* The receiver and the lines are as they are when idle.
LEMMA RxIdleFacts ==
  ASSUME RxIdle
  PROVE  rxFifo = <<>> /\ Len(rxFifo) = 0 /\ rxLine.received /\ rxLine.published
  BY DEF RxIdle, NoFrame

LEMMA TxIdleFacts ==
  ASSUME TxIdle
  PROVE  Len(txFifo) = 0 /\ txLine = NoByte /\ Sending = Received + 0
  BY DEF TxIdle, Sending, One

-----------------------------------------------------------------------------
(* try_put drops nothing in plain traffic.                                 *)

\* When run_phase waits for an expected byte, all expected ones are judged; when it
\* waits for an actual one, all that came out of the UART are.
LEMMA Blocked ==
  ASSUME TypeInv, CompareBlocked
  PROVE  \/ comparePc = "expected" /\ Len(expected) = 0 /\ Expected = Judged
         \/ comparePc = "actual" /\ Len(actual) = 0 /\ Actual = Judged
               /\ Expected = Judged + 1 + Len(expected)
<1>1. Judged \in Nat /\ Len(expected) \in Nat
  BY Counts
<1>2. CASE comparePc = "expected" /\ expected = <<>>
  <2>1. Len(expected) = 0
    BY <1>2
  <2>2. Claimed = Judged
    BY <1>1, <1>2 DEF Claimed, One
  <2> QED BY <1>1, <1>2, <2>1, <2>2 DEF Expected
<1>3. CASE comparePc = "actual" /\ actual = <<>>
  <2>1. Len(actual) = 0
    BY <1>3
  <2>2. Claimed = Judged + 1
    BY <1>1, <1>3 DEF Claimed, One
  <2> QED BY <1>1, <1>3, <2>1, <2>2 DEF Expected, Actual
<1> QED BY <1>2, <1>3 DEF CompareBlocked, TypeInv, TypeOK

LEMMA RoomForWritten ==
  ASSUME DepthAssumption, TypeInv, AllAccounted,
         CompareBlocked, RxIdle, Len(txFifo) < DutDepth
  PROVE  Len(expected) < FifoDepth
<1>1. FifoDepth \in Nat \ {0} /\ DutDepth \in Nat \ {0} /\ FifoDepth >= DutDepth
  BY DEF DepthAssumption, ScoreboardAssumption
<1>2. bytes = Sending + Len(txFifo) /\ bytes = Expected
  BY RxIdleFacts, Counts DEF AllAccounted, One
<1>3. Sending <= Received + 1 /\ Received = Actual
  BY RxIdleFacts, Counts DEF Sending, One, Received
<1> QED BY <1>1, <1>2, <1>3, Blocked, Counts

LEMMA RoomForDriven ==
  ASSUME DepthAssumption, TypeInv, AllAccounted,
         CompareBlocked, ~rxLine.published
  PROVE  Len(expected) < FifoDepth
<1>1. FifoDepth \in Nat \ {0} /\ DutDepth \in Nat \ {0} /\ FifoDepth >= DutDepth
  BY DEF DepthAssumption, ScoreboardAssumption
<1>2. TxIdle
  BY RxIdleFacts DEF AllAccounted
<1>3. bytes = Expected + 1 /\ bytes = Received + One(~rxLine.received)
  BY <1>2, TxIdleFacts, Counts DEF AllAccounted, One
<1>4. Received = Actual + Len(rxFifo)
  BY DEF Received
<1>5. One(~rxLine.received) + Len(rxFifo) <= DutDepth
  BY <1>1, Counts DEF TypeInv, TypeOK, One
<1>6. One(~rxLine.received) \in {0, 1}
  BY DEF One
<1>7. CASE Len(expected) = 0
  BY <1>1, <1>7
<1>8. CASE Actual = Judged /\ Expected = Judged + 1 + Len(expected)
  <2>1. PICK o \in {0, 1} : o = One(~rxLine.received)
    BY <1>6
  <2>2. /\ bytes = Received + o /\ bytes = Expected + 1
        /\ o + Len(rxFifo) <= DutDepth /\ o \in Nat
    BY <1>3, <1>5, <2>1
  <2>3. Judged \in Nat /\ Len(expected) \in Nat /\ Len(rxFifo) \in Nat
    BY Counts
  <2>4. Judged + 1 + Len(expected) + 1 = Judged + Len(rxFifo) + o
    BY <1>4, <1>8, <2>2
  <2>5. 2 + Len(expected) = Len(rxFifo) + o
    BY <2>2, <2>3, <2>4
  <2> QED BY <1>1, <2>2, <2>3, <2>5
<1> QED BY <1>7, <1>8, Blocked

LEMMA RoomForActual ==
  ASSUME TypeInv, AllAccounted, CompareBlocked, txLine # NoByte \/ rxFifo # <<>>
  PROVE  Len(actual) = 0
<1>1. CASE txLine # NoByte
  <2>1. RxIdle
    BY <1>1, TxIdleFacts DEF AllAccounted
  <2>2. bytes = Expected /\ bytes = Sending + Len(txFifo) /\ Sending = Received + 1
    BY <1>1, <2>1, RxIdleFacts, Counts DEF AllAccounted, One, Sending
  <2>3. Received >= Judged
    BY Counts DEF Received, Actual
  <2>4. Expected # Judged
    BY <2>2, <2>3, Counts
  <2> QED BY <2>4, Blocked
<1>2. CASE rxFifo # <<>>
  <2>1. TxIdle
    BY <1>2, RxIdleFacts DEF AllAccounted
  <2>2. Len(rxFifo) >= 1
    BY <1>2 DEF TypeInv, TypeOK
  <2>3. bytes <= Expected + 1 /\ bytes >= Received
    BY <2>1, TxIdleFacts, Counts DEF AllAccounted, One
  <2> QED BY <2>2, <2>3, Blocked, Counts DEF Received, Actual
<1> QED BY <1>1, <1>2

-----------------------------------------------------------------------------
(* The steps.                                                              *)

\* A byte written to the transmitter joins the row at its end.
LEMMA WriteThrInStep ==
  ASSUME DepthAssumption, TypeInv, BytesInStep, WriteThr, plain'
  PROVE  BytesInStep'
<1>1. /\ RxIdle /\ bytes' = bytes + 1 /\ bytes + 1 \in Bytes
      /\ txFifo' = Append(txFifo, bytes + 1) /\ expected' = TryPut(expected, bytes + 1)
      /\ CompareBlocked /\ Len(txFifo) < DutDepth
  BY FreshByte DEF WriteThr, DepthAssumption, TypeInv
<1>2. UNCHANGED <<results, comparePc, held, actual, rxFifo, rxLine, txLine, garbled>>
  BY DEF WriteThr, compareVars
<1>3. /\ Judged' = Judged /\ Claimed' = Claimed /\ Actual' = Actual
      /\ Received' = Received /\ Sending' = Sending
  BY <1>2 DEF Judged, Claimed, Actual, Received, Sending
<1>4. /\ Judged \in Nat /\ Claimed \in Nat /\ Expected \in Nat /\ Sending \in Nat
      /\ Len(expected) \in Nat /\ Len(txFifo) \in Nat /\ bytes \in Nat
  BY Counts
<1>5. bytes = Sending + Len(txFifo) /\ bytes = Claimed + Len(expected)
  BY <1>1, <1>4, RxIdleFacts DEF BytesInStep, AllAccounted, One, Expected
<1>6. expected' = Append(expected, bytes + 1)
  BY <1>1, RoomForWritten DEF TryPut, BytesInStep
<1>7. /\ Len(expected') = Len(expected) + 1
      /\ \A i \in 1..Len(expected) + 1 :
           expected'[i] = IF i <= Len(expected) THEN expected[i] ELSE bytes + 1
  BY <1>1, <1>6, Appended DEF TypeInv, TypeOK
<1>8. /\ Len(txFifo') = Len(txFifo) + 1
      /\ \A i \in 1..Len(txFifo) + 1 :
           txFifo'[i] = IF i <= Len(txFifo) THEN txFifo[i] ELSE bytes + 1
  BY <1>1, Appended DEF TypeInv, TypeOK
<1>9. ScoreboardInStep'
  <2>1. \A i \in 1..Len(expected') : expected'[i] = Claimed + i
    BY <1>4, <1>5, <1>7 DEF BytesInStep, ScoreboardInStep
  <2> QED BY <1>2, <1>3, <2>1 DEF BytesInStep, ScoreboardInStep
<1>10. UartInStep'
  <2>0. \A i \in 1..Len(txFifo) : txFifo[i] = Sending + i
    BY DEF BytesInStep, UartInStep
  <2>1. \A i \in 1..Len(txFifo') : txFifo'[i] = Sending + i
    BY <1>4, <1>5, <1>8, <2>0
  <2> QED BY <1>1, <1>2, <1>3, <2>1, RxIdleFacts DEF BytesInStep, UartInStep
<1>11. AllAccounted'
  <2>1. Expected' = Expected + 1
    BY <1>3, <1>4, <1>7 DEF Expected
  <2>2. RxIdle'
    BY <1>1, <1>2 DEF RxIdle
  <2>3. One(~rxLine.received)' = 0 /\ One(~rxLine.published)' = 0
    BY <1>1, <1>2, RxIdleFacts DEF One
  <2> QED BY <1>1, <1>2, <1>3, <1>4, <1>5, <1>8, <2>1, <2>2, <2>3
          DEF BytesInStep, AllAccounted, Expected
<1> QED BY <1>9, <1>10, <1>11 DEF BytesInStep

\* A frame driven into the receiver joins the row at its end, and is not expected yet.
LEMMA DriveFrameInStep ==
  ASSUME DepthAssumption, TypeInv, BytesInStep, DriveFrame, plain'
  PROVE  BytesInStep'
<1>1. /\ TxIdle /\ bytes' = bytes + 1 /\ rxLine = NoFrame
      /\ rxLine' = [byte |-> bytes + 1, received |-> FALSE, published |-> FALSE]
  BY DEF DriveFrame
<1>2. UNCHANGED <<results, comparePc, held, expected, actual, rxFifo, txFifo, txLine, garbled>>
  BY DEF DriveFrame, compareVars
<1>3. /\ Judged' = Judged /\ Claimed' = Claimed /\ Actual' = Actual
      /\ Received' = Received /\ Sending' = Sending /\ Expected' = Expected
  BY <1>2 DEF Judged, Claimed, Actual, Received, Sending, Expected
<1>4. Expected \in Nat /\ Sending \in Nat /\ Len(txFifo) \in Nat /\ bytes \in Nat
  BY Counts
<1>5. bytes = Sending + Len(txFifo) /\ bytes = Expected
  BY <1>1, <1>4 DEF BytesInStep, AllAccounted, One, NoFrame
<1>6. ScoreboardInStep'
  BY <1>2, <1>3 DEF BytesInStep, ScoreboardInStep
<1>7. UartInStep'
  BY <1>1, <1>2, <1>3 DEF BytesInStep, UartInStep
<1>8. AllAccounted'
  <2>1. TxIdle'
    BY <1>1, <1>2 DEF TxIdle
  <2>2. One(~rxLine.received)' = 1 /\ One(~rxLine.published)' = 1
    BY <1>1 DEF One
  <2> QED BY <1>1, <1>2, <1>3, <1>4, <1>5, <2>1, <2>2 DEF BytesInStep, AllAccounted
<1> QED BY <1>6, <1>7, <1>8 DEF BytesInStep

\* Garbling the byte after the first n leaves what is known of those.
LEMMA GarbledLater ==
  ASSUME NEW n \in Nat, garbled \subseteq 1..n, NEW ok \in BOOLEAN, Garble(n + 1, ok)
  PROVE  /\ \A i \in 1..n : (i \notin garbled') = (i \notin garbled)
         /\ (n + 1 \notin garbled') = ok
         /\ garbled' \subseteq 1..n + 1
<1>1. n + 1 \notin garbled
  OBVIOUS
<1>2. CASE ok
  <2>1. garbled' = garbled
    BY <1>2 DEF Garble
  <2>2. garbled' \subseteq 1..n + 1
    BY <2>1
  <2>3. (n + 1 \notin garbled') = ok
    BY <1>1, <1>2, <2>1, Zenon
  <2> QED BY <2>1, <2>2, <2>3
<1>3. CASE ~ok
  <2>1. garbled' = garbled \cup {n + 1}
    BY <1>3 DEF Garble
  <2> QED BY <1>1, <1>3, <2>1
<1> QED BY <1>2, <1>3

\* A byte moves from the transmitter to the line.
LEMMA TransmitInStep ==
  ASSUME TypeInv, BytesInStep, Transmit
  PROVE  BytesInStep'
<1>1. txLine = NoByte /\ txFifo # <<>> /\ txLine' = Head(txFifo) /\ txFifo' = Tail(txFifo)
  BY DEF Transmit
<1>2. UNCHANGED <<results, comparePc, held, expected, actual, rxFifo, rxLine, bytes, garbled>>
  BY DEF Transmit, compareVars
<1>3. /\ Judged' = Judged /\ Claimed' = Claimed /\ Actual' = Actual
      /\ Received' = Received /\ Expected' = Expected
  BY <1>2 DEF Judged, Claimed, Actual, Received, Expected
<1>4. Received \in Nat /\ Len(txFifo) \in Nat /\ bytes \in Nat
  BY Counts
<1>5. /\ Head(txFifo) = txFifo[1] /\ Len(txFifo) > 0 /\ Len(txFifo') = Len(txFifo) - 1
      /\ \A i \in 1..Len(txFifo) - 1 : txFifo'[i] = txFifo[i + 1]
  BY <1>1, <1>4, Taken DEF TypeInv, TypeOK
<1>6. Sending = Received
  BY <1>1, <1>4 DEF Sending, One
<1>7. \A i \in 1..Len(txFifo) : txFifo[i] = Received + i
  BY <1>6 DEF BytesInStep, UartInStep
<1>8. txLine' = Received + 1 /\ txLine' # NoByte
  BY <1>1, <1>4, <1>5, <1>7 DEF NoByte
<1>9. Sending' = Received + 1
  BY <1>3, <1>8 DEF Sending, One
<1>10. ScoreboardInStep'
  BY <1>2, <1>3 DEF BytesInStep, ScoreboardInStep
<1>11. UartInStep'
  <2>1. \A i \in 1..Len(txFifo') : txFifo'[i] = Sending' + i
    BY <1>4, <1>5, <1>7, <1>9
  <2> QED BY <1>2, <1>3, <1>8, <2>1 DEF BytesInStep, UartInStep
<1>12. AllAccounted'
  <2>1. RxIdle /\ RxIdle'
    BY <1>2, <1>4, <1>5, TxIdleFacts DEF BytesInStep, AllAccounted, RxIdle
  <2>2. One(~rxLine.received) = 0 /\ One(~rxLine.received)' = 0
    BY <1>2, <2>1, RxIdleFacts DEF One
  <2> QED BY <1>2, <1>3, <1>4, <1>5, <1>6, <1>9, <2>1, <2>2 DEF BytesInStep, AllAccounted
<1> QED BY <1>10, <1>11, <1>12 DEF BytesInStep

\* The byte on the output line becomes an actual one, garbled or not.
LEMMA Uart1RxInStep ==
  ASSUME DepthAssumption, TypeInv, BytesInStep, Uart1Rx
  PROVE  BytesInStep'
<1>1. txLine # NoByte /\ txLine' = NoByte /\ CompareBlocked
  BY DEF Uart1Rx
<1>2. UNCHANGED <<results, comparePc, held, expected, txFifo, rxFifo, rxLine, bytes>>
  BY DEF Uart1Rx, compareVars
<1>3. PICK ok \in BOOLEAN : Garble(txLine, ok) /\ actual' = TryPut(actual, Datum(txLine, ok))
  BY DEF Uart1Rx
<1>4. RxIdle /\ Len(rxFifo) = 0 /\ rxLine.received /\ rxLine.published
  BY <1>1, TxIdleFacts, RxIdleFacts DEF BytesInStep, AllAccounted
<1>5. /\ Judged \in Nat /\ Actual \in Nat /\ Received \in Nat /\ Len(txFifo) \in Nat
      /\ bytes \in Nat /\ Len(actual) = 0 /\ Len(actual) < FifoDepth
  BY <1>1, Counts, RoomForActual DEF BytesInStep, DepthAssumption, ScoreboardAssumption
<1>6. /\ Actual = Judged /\ Received = Judged /\ Sending = Judged + 1
      /\ txLine = Judged + 1 /\ txLine \in Bytes
  <2>1. Actual = Judged /\ Received = Judged
    BY <1>4, <1>5 DEF Actual, Received
  <2>2. Sending = Judged + 1
    BY <1>1, <1>5, <2>1 DEF Sending, One
  <2>3. txLine = Judged + 1 /\ txLine \in Bytes
    BY <1>1, <2>1 DEF BytesInStep, UartInStep, TypeInv, TypeOK
  <2> QED BY <2>1, <2>2, <2>3
<1>7. actual' = Append(actual, Datum(Judged + 1, ok)) /\ Datum(Judged + 1, ok) \in Data
  BY <1>3, <1>5, <1>6, DatumType DEF TryPut
<1>8. Len(actual') = 1 /\ actual'[1] = Datum(Judged + 1, ok)
  <2>1. /\ Len(actual') = Len(actual) + 1
        /\ \A i \in 1..Len(actual) + 1 :
             actual'[i] = IF i <= Len(actual) THEN actual[i] ELSE Datum(Judged + 1, ok)
    BY <1>7, Appended DEF TypeInv, TypeOK
  <2> QED BY <1>5, <2>1
<1>9. /\ \A i \in 1..Judged : (i \notin garbled') = (i \notin garbled)
      /\ (Judged + 1 \notin garbled') = ok
      /\ garbled' \subseteq 1..Judged + 1
  BY <1>3, <1>5, <1>6, GarbledLater DEF BytesInStep, AllAccounted
<1>10. /\ Judged' = Judged /\ Claimed' = Claimed /\ Expected' = Expected
       /\ Actual' = Judged + 1 /\ Received' = Judged + 1 /\ Sending' = Judged + 1
  <2>1. Judged' = Judged /\ Claimed' = Claimed /\ Expected' = Expected
    BY <1>2 DEF Judged, Claimed, Expected
  <2>2. Actual' = Judged + 1
    BY <1>8, <2>1 DEF Actual
  <2>3. Received' = Judged + 1
    BY <1>2, <1>4, <1>5, <2>2 DEF Received
  <2> QED BY <1>1, <1>5, <2>1, <2>2, <2>3 DEF Sending, One
<1>11. ScoreboardInStep'
  <2>1. \A i \in 1..Judged : results'[i] = [byte |-> i, passed |-> i \notin garbled']
    BY <1>2, <1>9 DEF BytesInStep, ScoreboardInStep
  <2>2. \A i \in 1..Len(actual') : actual'[i] = Datum(Judged + i, Judged + i \notin garbled')
    BY <1>8, <1>9
  <2> QED BY <1>2, <1>10, <2>1, <2>2 DEF BytesInStep, ScoreboardInStep
<1>12. UartInStep'
  <2>1. \A i \in 1..Len(rxFifo') : FALSE
    BY <1>2, <1>4
  <2> QED BY <1>1, <1>2, <1>6, <1>10, <2>1 DEF BytesInStep, UartInStep
<1>13. AllAccounted'
  <2>1. RxIdle'
    BY <1>2, <1>4 DEF RxIdle
  <2> QED BY <1>2, <1>6, <1>9, <1>10, <2>1 DEF BytesInStep, AllAccounted
<1> QED BY <1>11, <1>12, <1>13 DEF BytesInStep

\* The UART takes the frame on its input line, garbled or not.
LEMMA ReceiveInStep ==
  ASSUME DepthAssumption, TypeInv, BytesInStep, Receive
  PROVE  BytesInStep'
<1>1. ~rxLine.received /\ rxLine' = FrameAfter([rxLine EXCEPT !.received = TRUE])
  BY DEF Receive
<1>2. UNCHANGED <<results, comparePc, held, expected, actual, txFifo, txLine, bytes>>
  BY DEF Receive, compareVars
<1>3. PICK ok \in BOOLEAN : /\ Garble(rxLine.byte, ok)
                            /\ rxFifo' = Append(rxFifo, Datum(rxLine.byte, ok))
  BY DEF Receive
<1>4. /\ TxIdle /\ Sending = Received /\ Len(txFifo) = 0 /\ txLine = NoByte
      /\ Judged \in Nat /\ Actual \in Nat /\ Received \in Nat /\ Len(rxFifo) \in Nat
      /\ bytes \in Nat /\ Len(actual) \in Nat
  BY <1>1, Counts, RxIdleFacts, TxIdleFacts DEF BytesInStep, AllAccounted
<1>5. bytes = Received + 1 /\ rxLine.byte = Received + 1 /\ rxLine.byte \in Bytes
  BY <1>1, <1>4 DEF BytesInStep, AllAccounted, UartInStep, One, TypeInv
<1>6. /\ Len(rxFifo') = Len(rxFifo) + 1
      /\ \A i \in 1..Len(rxFifo) + 1 :
           rxFifo'[i] = IF i <= Len(rxFifo) THEN rxFifo[i] ELSE Datum(Received + 1, ok)
  BY <1>3, <1>5, DatumType, Appended DEF TypeInv, TypeOK
<1>7. /\ \A i \in 1..Received : (i \notin garbled') = (i \notin garbled)
      /\ (Received + 1 \notin garbled') = ok
      /\ garbled' \subseteq 1..Received + 1
  BY <1>3, <1>4, <1>5, GarbledLater DEF BytesInStep, AllAccounted
<1>8. Received = Judged + Len(actual) + Len(rxFifo) /\ Actual = Judged + Len(actual)
  BY DEF Received, Actual
<1>9. /\ Judged' = Judged /\ Claimed' = Claimed /\ Expected' = Expected
      /\ Actual' = Actual /\ Received' = Received + 1 /\ Sending' = Received + 1
  <2>1. Judged' = Judged /\ Claimed' = Claimed /\ Expected' = Expected /\ Actual' = Actual
    BY <1>2 DEF Judged, Claimed, Expected, Actual
  <2>2. Received' = Received + 1
    BY <1>4, <1>6, <2>1 DEF Received
  <2> QED BY <1>2, <1>4, <2>1, <2>2 DEF Sending, One
<1>10. /\ rxLine'.received /\ rxLine'.published = rxLine.published
       /\ ~rxLine'.published => rxLine'.byte = rxLine.byte
       /\ rxLine'.published => rxLine' = NoFrame
  BY <1>1 DEF FrameAfter, NoFrame, TypeInv, TypeOK
<1>11. ScoreboardInStep'
  <2>1. \A i \in 1..Judged : results'[i] = [byte |-> i, passed |-> i \notin garbled']
    BY <1>2, <1>4, <1>7, <1>8 DEF BytesInStep, ScoreboardInStep
  <2>2. ASSUME NEW i \in 1..Len(actual)
        PROVE  actual'[i] = Datum(Judged + i, Judged + i \notin garbled')
    <3>1. Judged + i \in 1..Received
      BY <1>4, <1>8
    <3>2. actual[i] = Datum(Judged + i, Judged + i \notin garbled)
      BY DEF BytesInStep, ScoreboardInStep
    <3> QED BY <1>2, <1>7, <3>1, <3>2
  <2> QED BY <1>2, <1>9, <2>1, <2>2 DEF BytesInStep, ScoreboardInStep
<1>12. UartInStep'
  <2>1. ASSUME NEW i \in 1..Len(rxFifo')
        PROVE  rxFifo'[i] = Datum(Actual + i, Actual + i \notin garbled')
    <3>1. CASE i <= Len(rxFifo)
      <4>1. Actual + i \in 1..Received /\ i \in 1..Len(rxFifo)
        BY <1>4, <1>8, <3>1
      <4>2. rxFifo[i] = Datum(Actual + i, Actual + i \notin garbled)
        BY <4>1 DEF BytesInStep, UartInStep
      <4>3. rxFifo'[i] = rxFifo[i]
        BY <1>4, <1>6, <3>1
      <4> QED BY <1>7, <4>1, <4>2, <4>3
    <3>2. CASE i > Len(rxFifo)
      <4>1. i = Len(rxFifo) + 1 /\ Actual + i = Received + 1
        BY <1>4, <1>6, <1>8, <3>2
      <4>2. rxFifo'[i] = Datum(Received + 1, ok)
        BY <1>4, <1>6, <4>1
      <4> QED BY <1>7, <4>1, <4>2
    <3> QED BY <1>4, <3>1, <3>2
  <2>2. \A i \in 1..Len(txFifo') : FALSE
    BY <1>2, <1>4
  <2>3. txLine' = NoByte
    BY <1>2, <1>4
  <2>4. rxLine.byte = bytes
    BY <1>4, <1>5
  <2> QED BY <1>2, <1>9, <1>10, <2>1, <2>2, <2>3, <2>4 DEF UartInStep
<1>13. AllAccounted'
  <2>1. TxIdle'
    BY <1>2, <1>4 DEF TxIdle
  <2>2. One(~rxLine.received)' = 0 /\ One(~rxLine.published)' = One(~rxLine.published)
    BY <1>10 DEF One
  <2>3. bytes' = Expected' + One(~rxLine.published)'
    BY <1>2, <1>9, <2>2 DEF BytesInStep, AllAccounted
  <2>4. bytes' = Sending' + Len(txFifo') + One(~rxLine.received)'
    BY <1>2, <1>4, <1>5, <1>9, <2>2
  <2>5. garbled' \subseteq 1..Received'
    BY <1>7, <1>9
  <2> QED BY <2>1, <2>3, <2>4, <2>5 DEF AllAccounted
<1> QED BY <1>11, <1>12, <1>13 DEF BytesInStep

\* The sending agent's monitor publishes the frame, which is expected from now on.
LEMMA Uart1TxInStep ==
  ASSUME DepthAssumption, TypeInv, BytesInStep, Uart1Tx
  PROVE  BytesInStep'
<1>1. /\ ~rxLine.published /\ CompareBlocked
      /\ rxLine' = FrameAfter([rxLine EXCEPT !.published = TRUE])
      /\ expected' = TryPut(expected, rxLine.byte)
  BY DEF Uart1Tx
<1>2. UNCHANGED <<results, comparePc, held, actual, txFifo, rxFifo, txLine, bytes, garbled>>
  BY DEF Uart1Tx, compareVars
<1>3. /\ TxIdle /\ Claimed \in Nat /\ Expected \in Nat /\ Len(expected) \in Nat /\ bytes \in Nat
      /\ Expected = Claimed + Len(expected)
  BY <1>1, Counts, RxIdleFacts DEF BytesInStep, AllAccounted, Expected
<1>4. bytes = Expected + 1 /\ rxLine.byte = bytes /\ bytes \in Bytes
  BY <1>1, <1>3 DEF BytesInStep, AllAccounted, UartInStep, One, TypeInv
<1>5. expected' = Append(expected, bytes)
  BY <1>1, <1>4, RoomForDriven DEF TryPut, BytesInStep
<1>6. /\ Len(expected') = Len(expected) + 1
      /\ \A i \in 1..Len(expected) + 1 :
           expected'[i] = IF i <= Len(expected) THEN expected[i] ELSE bytes
  BY <1>4, <1>5, Appended DEF TypeInv, TypeOK
<1>7. /\ Judged' = Judged /\ Claimed' = Claimed /\ Actual' = Actual
      /\ Received' = Received /\ Sending' = Sending /\ Expected' = Expected + 1
  <2>1. /\ Judged' = Judged /\ Claimed' = Claimed /\ Actual' = Actual
        /\ Received' = Received /\ Sending' = Sending
    BY <1>2 DEF Judged, Claimed, Actual, Received, Sending
  <2> QED BY <1>3, <1>6, <2>1 DEF Expected
<1>8. /\ rxLine'.published /\ rxLine'.received = rxLine.received
      /\ ~rxLine'.received => rxLine'.byte = rxLine.byte
      /\ rxLine'.received => rxLine' = NoFrame
  BY <1>1 DEF FrameAfter, NoFrame, TypeInv, TypeOK
<1>9. ScoreboardInStep'
  <2>1. \A i \in 1..Len(expected) : expected[i] = Claimed + i
    BY DEF BytesInStep, ScoreboardInStep
  <2>2. \A i \in 1..Len(expected') : expected'[i] = Claimed + i
    BY <1>3, <1>4, <1>6, <2>1
  <2> QED BY <1>2, <1>7, <2>2 DEF BytesInStep, ScoreboardInStep
<1>10. UartInStep'
  BY <1>2, <1>4, <1>7, <1>8 DEF BytesInStep, UartInStep
<1>11. AllAccounted'
  <2>1. TxIdle'
    BY <1>2, <1>3 DEF TxIdle
  <2>2. One(~rxLine.published)' = 0 /\ One(~rxLine.received)' = One(~rxLine.received)
    BY <1>8 DEF One
  <2>3. bytes' = Expected' + One(~rxLine.published)'
    BY <1>2, <1>3, <1>4, <1>7, <2>2
  <2> QED BY <1>2, <1>7, <2>1, <2>2, <2>3 DEF BytesInStep, AllAccounted
<1> QED BY <1>9, <1>10, <1>11 DEF BytesInStep

\* The test reads a byte from the receiver, which becomes an actual one.
LEMMA ReadRbrInStep ==
  ASSUME DepthAssumption, TypeInv, BytesInStep, ReadRbr, plain'
  PROVE  BytesInStep'
<1>1. /\ CompareBlocked /\ rxFifo # <<>>
      /\ actual' = TryPut(actual, Head(rxFifo)) /\ rxFifo' = Tail(rxFifo)
  BY DEF ReadRbr
<1>2. UNCHANGED <<results, comparePc, held, expected, txFifo, txLine, rxLine, bytes, garbled>>
  BY DEF ReadRbr, compareVars
<1>3. /\ Judged \in Nat /\ Actual \in Nat /\ Received \in Nat /\ Len(rxFifo) \in Nat
      /\ Len(actual) = 0 /\ Len(actual) < FifoDepth
  BY <1>1, Counts, RoomForActual DEF BytesInStep, DepthAssumption, ScoreboardAssumption
<1>4. /\ Head(rxFifo) = rxFifo[1] /\ Head(rxFifo) \in Data
      /\ Len(rxFifo) > 0 /\ Len(rxFifo') = Len(rxFifo) - 1
      /\ \A i \in 1..Len(rxFifo) - 1 : rxFifo'[i] = rxFifo[i + 1]
  BY <1>1, <1>3, Taken DEF TypeInv, TypeOK
<1>5. Actual = Judged /\ Received = Judged + Len(rxFifo)
  BY <1>3 DEF Actual, Received
<1>6. \A i \in 1..Len(rxFifo) : rxFifo[i] = Datum(Judged + i, Judged + i \notin garbled)
  BY <1>5 DEF BytesInStep, UartInStep
<1>7. Len(actual') = 1 /\ actual'[1] = rxFifo[1]
  <2>1. actual' = Append(actual, rxFifo[1])
    BY <1>1, <1>3, <1>4 DEF TryPut
  <2>2. /\ Len(actual') = Len(actual) + 1
        /\ \A i \in 1..Len(actual) + 1 :
             actual'[i] = IF i <= Len(actual) THEN actual[i] ELSE rxFifo[1]
    <3>1. rxFifo[1] \in Data /\ actual \in Seq(Data)
      BY <1>4 DEF TypeInv, TypeOK
    <3> QED BY <2>1, <3>1, Appended
  <2> QED BY <1>3, <2>2
<1>8. /\ Judged' = Judged /\ Claimed' = Claimed /\ Expected' = Expected
      /\ Actual' = Judged + 1 /\ Received' = Received /\ Sending' = Sending
  <2>1. Judged' = Judged /\ Claimed' = Claimed /\ Expected' = Expected
    BY <1>2 DEF Judged, Claimed, Expected
  <2>2. Actual' = Judged + 1
    BY <1>7, <2>1 DEF Actual
  <2>3. Received' = Received
    BY <1>3, <1>4, <1>5, <2>2 DEF Received
  <2> QED BY <1>2, <2>1, <2>2, <2>3 DEF Sending
<1>9. ScoreboardInStep'
  <2>1. rxFifo[1] = Datum(Judged + 1, Judged + 1 \notin garbled)
    BY <1>3, <1>4, <1>6
  <2>2. \A i \in 1..Len(actual') : actual'[i] = Datum(Judged + i, Judged + i \notin garbled)
    BY <1>7, <2>1
  <2> QED BY <1>2, <1>8, <2>2 DEF BytesInStep, ScoreboardInStep
<1>10. UartInStep'
  <2>1. ASSUME NEW i \in 1..Len(rxFifo')
        PROVE  rxFifo'[i] = Datum(Judged + 1 + i, Judged + 1 + i \notin garbled)
    <3>1. i + 1 \in 1..Len(rxFifo) /\ Judged + (i + 1) = Judged + 1 + i
      BY <1>3, <1>4
    <3>2. rxFifo'[i] = rxFifo[i + 1]
      BY <1>3, <1>4
    <3>3. rxFifo[i + 1] = Datum(Judged + (i + 1), Judged + (i + 1) \notin garbled)
      BY <1>6, <3>1
    <3> QED BY <3>1, <3>2, <3>3
  <2> QED BY <1>2, <1>8, <2>1 DEF BytesInStep, UartInStep
<1>11. AllAccounted'
  <2>1. TxIdle /\ TxIdle'
    BY <1>1, <1>2, RxIdleFacts DEF BytesInStep, AllAccounted, TxIdle
  <2> QED BY <1>2, <1>8, <2>1 DEF BytesInStep, AllAccounted
<1> QED BY <1>9, <1>10, <1>11 DEF BytesInStep

\* run_phase takes the next expected byte, which is the next one to be judged.
LEMMA GetExpectedInStep ==
  ASSUME TypeInv, BytesInStep, GetExpected
  PROVE  BytesInStep'
<1>1. /\ comparePc = "expected" /\ comparePc' = "actual" /\ expected # <<>>
      /\ held' = Head(expected) /\ expected' = Tail(expected)
  BY DEF GetExpected
<1>2. UNCHANGED <<uartVars, actual, results, bytes, garbled>>
  BY DEF GetExpected
<1>3. Judged \in Nat /\ Len(expected) \in Nat
  BY Counts
<1>4. /\ Head(expected) = expected[1] /\ Len(expected) > 0
      /\ Len(expected') = Len(expected) - 1
      /\ \A i \in 1..Len(expected) - 1 : expected'[i] = expected[i + 1]
  BY <1>1, <1>3, Taken DEF TypeInv, TypeOK
<1>5. Judged' = Judged /\ Actual' = Actual /\ Received' = Received /\ Sending' = Sending
  BY <1>2 DEF Judged, Actual, Received, Sending, uartVars
<1>6. Claimed = Judged /\ Claimed' = Judged + 1 /\ Expected' = Expected
  <2>1. Claimed = Judged /\ Claimed' = Judged + 1
    BY <1>1, <1>3, <1>5 DEF Claimed, One
  <2> QED BY <1>3, <1>4, <2>1 DEF Expected
<1>7. \A i \in 1..Len(expected) : expected[i] = Judged + i
  BY <1>6 DEF BytesInStep, ScoreboardInStep
<1>8. ScoreboardInStep'
  <2>1. held' = Judged + 1
    BY <1>1, <1>3, <1>4, <1>7
  <2>2. \A i \in 1..Len(expected') : expected'[i] = Judged + 1 + i
    BY <1>3, <1>4, <1>7
  <2> QED BY <1>2, <1>5, <1>6, <2>1, <2>2 DEF BytesInStep, ScoreboardInStep
<1>9. UartInStep'
  BY <1>2, <1>5 DEF BytesInStep, UartInStep, uartVars
<1>10. AllAccounted'
  BY <1>2, <1>5, <1>6 DEF BytesInStep, AllAccounted, uartVars, TxIdle, RxIdle
<1> QED BY <1>8, <1>9, <1>10 DEF BytesInStep

\* run_phase judges the byte it holds by the next actual one, which is the same byte.
LEMMA GetActualInStep ==
  ASSUME TypeInv, BytesInStep, GetActual
  PROVE  BytesInStep'
<1>1. /\ comparePc = "actual" /\ comparePc' = "expected" /\ actual # <<>>
      /\ results' = Append(results, Verdict(held, Head(actual))) /\ actual' = Tail(actual)
  BY DEF GetActual
<1>2. UNCHANGED <<uartVars, expected, bytes, garbled>>
  BY DEF GetActual
<1>3. Judged \in Nat /\ Len(actual) \in Nat /\ Judged = Len(results)
  BY Counts DEF Judged
<1>4. /\ Head(actual) = actual[1] /\ Len(actual) > 0 /\ Len(actual') = Len(actual) - 1
      /\ \A i \in 1..Len(actual) - 1 : actual'[i] = actual[i + 1]
  BY <1>1, <1>3, Taken DEF TypeInv, TypeOK
<1>5. \A i \in 1..Len(actual) : actual[i] = Datum(Judged + i, Judged + i \notin garbled)
  BY DEF BytesInStep, ScoreboardInStep
<1>6. Verdict(held, Head(actual)) = [byte |-> Judged + 1, passed |-> Judged + 1 \notin garbled]
  <2>1. held = Judged + 1
    BY <1>1 DEF BytesInStep, ScoreboardInStep
  <2>2. Head(actual) = Datum(Judged + 1, Judged + 1 \notin garbled)
    BY <1>3, <1>4, <1>5
  <2>3. CASE Judged + 1 \notin garbled
    <3>1. (Judged + 1 \notin garbled) = TRUE
      BY <2>3
    <3>2. Verdict(held, Head(actual)) = [byte |-> Judged + 1, passed |-> TRUE]
      BY <2>1, <2>2, <3>1 DEF Verdict, Datum
    <3> QED BY <3>1, <3>2
  <2>4. CASE Judged + 1 \in garbled
    <3>1. (Judged + 1 \notin garbled) = FALSE
      BY <2>4
    <3>2. Datum(Judged + 1, FALSE) # Datum(Judged + 1, TRUE)
      BY DEF Datum
    <3>3. Verdict(held, Head(actual)) = [byte |-> Judged + 1, passed |-> FALSE]
      BY <2>1, <2>2, <3>1, <3>2 DEF Verdict
    <3> QED BY <3>1, <3>3
  <2> QED BY <2>3, <2>4
<1>7. /\ Len(results') = Judged + 1
      /\ \A i \in 1..Judged + 1 :
           results'[i] = IF i <= Judged THEN results[i] ELSE Verdict(held, Head(actual))
  <2>1. Verdict(held, Head(actual)) \in [byte : Bytes \cup {NoByte}, passed : BOOLEAN]
    BY DEF Verdict, TypeInv, TypeOK
  <2> QED BY <1>1, <1>3, <2>1, Appended DEF TypeInv, TypeOK
<1>8. /\ Judged' = Judged + 1 /\ Claimed' = Claimed /\ Claimed = Judged + 1
      /\ Expected' = Expected /\ Actual' = Actual /\ Received' = Received /\ Sending' = Sending
  <2>1. Judged' = Judged + 1
    BY <1>7 DEF Judged
  <2>2. Claimed' = Claimed /\ Claimed = Judged + 1
    BY <1>1, <1>3, <2>1 DEF Claimed, One
  <2>3. Actual' = Actual
    BY <1>3, <1>4, <2>1 DEF Actual
  <2> QED BY <1>2, <2>1, <2>2, <2>3 DEF Expected, Received, Sending, uartVars
<1>9. ScoreboardInStep'
  <2>1. ASSUME NEW i \in 1..Judged + 1
        PROVE  results'[i] = [byte |-> i, passed |-> i \notin garbled]
    <3>1. CASE i <= Judged
      <4>1. i \in 1..Judged
        BY <1>3, <3>1
      <4> QED BY <1>7, <3>1, <4>1 DEF BytesInStep, ScoreboardInStep
    <3>2. CASE ~(i <= Judged)
      <4>1. i = Judged + 1
        BY <1>3, <3>2
      <4> QED BY <1>6, <1>7, <3>2, <4>1
    <3> QED BY <3>1, <3>2
  <2>2. ASSUME NEW i \in 1..Len(actual')
        PROVE  actual'[i] = Datum(Judged + 1 + i, Judged + 1 + i \notin garbled)
    <3>1. i + 1 \in 1..Len(actual) /\ Judged + (i + 1) = Judged + 1 + i
      BY <1>3, <1>4
    <3>2. actual'[i] = actual[i + 1]
      BY <1>3, <1>4
    <3>3. actual[i + 1] = Datum(Judged + (i + 1), Judged + (i + 1) \notin garbled)
      BY <1>5, <3>1
    <3> QED BY <3>1, <3>2, <3>3
  <2> QED BY <1>1, <1>2, <1>8, <2>1, <2>2 DEF BytesInStep, ScoreboardInStep
<1>10. UartInStep'
  BY <1>2, <1>8 DEF BytesInStep, UartInStep, uartVars
<1>11. AllAccounted'
  BY <1>2, <1>8 DEF BytesInStep, AllAccounted, uartVars, TxIdle, RxIdle
<1> QED BY <1>9, <1>10, <1>11 DEF BytesInStep

-----------------------------------------------------------------------------
LEMMA InStepInit == DepthAssumption /\ Init => OrderInv
<1> SUFFICES ASSUME DepthAssumption, Init
             PROVE  OrderInv
  OBVIOUS
<1>1. TypeInv
  BY TypeInit DEF DepthAssumption
<1>2. /\ Len(results) = 0 /\ Len(expected) = 0 /\ Len(actual) = 0
      /\ Len(rxFifo) = 0 /\ Len(txFifo) = 0
  BY DEF Init
<1>3. /\ Judged = 0 /\ Claimed = 0 /\ Expected = 0
      /\ Actual = 0 /\ Received = 0 /\ Sending = 0
  BY <1>2 DEF Init, Judged, Claimed, Expected, Actual, Received, Sending, One
<1>4. ScoreboardInStep
  BY <1>2, <1>3 DEF Init, ScoreboardInStep
<1>5. UartInStep
  BY <1>2 DEF Init, UartInStep, NoFrame
<1>6. AllAccounted
  BY <1>2, <1>3 DEF Init, AllAccounted, NoFrame, One, TxIdle
<1> QED BY <1>1, <1>4, <1>5, <1>6 DEF OrderInv, InStep, BytesInStep

LEMMA InStepStep ==
  ASSUME DepthAssumption, OrderInv, [Next]_vars
  PROVE  OrderInv'
<1>1. TypeInv /\ TypeInv' /\ InStep
  BY TypeStep DEF OrderInv, DepthAssumption
<1> SUFFICES ASSUME plain'
             PROVE  BytesInStep'
  BY <1>1 DEF OrderInv, InStep
<1>2. plain
  BY DEF Next, vars, WriteLcr, WriteThr, ReadRbr, ResetFifo, DriveFrame, Lines, Transmit,
         Uart1Rx, Receive, Uart1Tx, Compare, GetExpected, GetActual
<1>3. BytesInStep
  BY <1>1, <1>2 DEF InStep
<1>4. ASSUME UNCHANGED <<uartVars, expected, actual, compareVars, bytes, garbled>>
      PROVE  BytesInStep'
  <2>1. /\ Judged' = Judged /\ Claimed' = Claimed /\ Expected' = Expected
        /\ Actual' = Actual /\ Received' = Received /\ Sending' = Sending
    BY <1>4 DEF Judged, Claimed, Expected, Actual, Received, Sending, uartVars, compareVars
  <2>2. ScoreboardInStep'
    BY <1>3, <1>4, <2>1 DEF BytesInStep, ScoreboardInStep, compareVars
  <2>3. UartInStep'
    BY <1>3, <1>4, <2>1 DEF BytesInStep, UartInStep, uartVars
  <2>4. AllAccounted'
    BY <1>3, <1>4, <2>1 DEF BytesInStep, AllAccounted, uartVars, TxIdle, RxIdle
  <2> QED BY <2>2, <2>3, <2>4 DEF BytesInStep
<1>5. ASSUME NEW v \in Lcrs, WriteLcr(v) PROVE BytesInStep'
  BY <1>4, <1>5 DEF WriteLcr
<1>6. CASE ResetFifo
  BY <1>6 DEF ResetFifo
<1>7. CASE UNCHANGED vars
  BY <1>4, <1>7 DEF vars
<1> QED BY <1>1, <1>3, <1>5, <1>6, <1>7, WriteThrInStep, ReadRbrInStep, DriveFrameInStep,
           TransmitInStep, Uart1RxInStep, ReceiveInStep, Uart1TxInStep, GetExpectedInStep,
           GetActualInStep DEF Next, Lines, Compare

LEMMA AlwaysInStep == ASSUME DepthAssumption PROVE Spec => []OrderInv
<1>1. Init => OrderInv
  BY InStepInit
<1>2. OrderInv /\ [Next]_vars => OrderInv'
  BY InStepStep
<1> QED BY <1>1, <1>2, PTL DEF Spec

\* While the scoreboard's FIFOs are at least as deep as the UART's, which they are (100
\* against 16), plain traffic of any length is judged in order, one verdict a byte, and
\* a byte fails exactly if the UART garbled it (soc_scb.sv:333-352, 468-497, 546-554).
THEOREM PlainVerdictsTrue == ASSUME DepthAssumption PROVE Spec => []VerdictsTrue
<1>1. OrderInv => VerdictsTrue
  BY DEF OrderInv, InStep, BytesInStep, ScoreboardInStep, VerdictsTrue, Judged
<1> QED BY <1>1, AlwaysInStep, PTL

\* Under the same condition every byte of plain traffic has its verdict once all is
\* idle: try_put has dropped none (soc_scb.sv:296-297, 337, 349, 474, 493).
THEOREM PlainAllJudged == ASSUME DepthAssumption PROVE Spec => []AllJudgedWhenIdle
<1>1. ASSUME OrderInv
      PROVE  AllJudgedWhenIdle
  <2> SUFFICES ASSUME plain, TxIdle, RxIdle, CompareBlocked
               PROVE  Len(results) = bytes
    BY DEF AllJudgedWhenIdle
  <2>1. TypeInv /\ AllAccounted
    BY <1>1 DEF OrderInv, InStep, BytesInStep
  <2>2. bytes = Expected /\ bytes = Received /\ Received = Actual
    BY <2>1, TxIdleFacts, RxIdleFacts, Counts DEF AllAccounted, One, Received
  <2>3. Judged \in Nat /\ Len(expected) \in Nat
    BY <2>1, Counts
  <2>4. Expected = Judged \/ (Actual = Judged /\ Expected = Judged + 1 + Len(expected))
    BY <2>1, Blocked
  <2>5. bytes = Judged
    BY <2>2, <2>3, <2>4
  <2> QED BY <2>5 DEF Judged
<1> QED BY <1>1, AlwaysInStep, PTL
=============================================================================
