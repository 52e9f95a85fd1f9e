--------------------------- MODULE GpioPinsProofs ---------------------------
(***************************************************************************)
(* Proofs about GpioPins, for every set of words, byte selects and pins.   *)
(***************************************************************************)
EXTENDS GpioPins, TLAPS

\* A bit belongs to one byte.
LEMMA ByteOfBit ==
  ASSUME NEW b \in 0..31, NEW l \in Lanes
  PROVE  b \in BitsOf(l) <=> b \div 8 = l
BY DEF Lanes, BitsOf

LEMMA LaneOfBit == ASSUME NEW b \in 0..31 PROVE b \div 8 \in Lanes
BY DEF Lanes

\* The register r, of this width, holds what the writes since the last reset have put
\* into each of its bits.
Holds(reg, r, width) == \A b \in 0..width - 1 : b \in reg <=> Programmed(r, b)

\* The registers hold what was written, byte by byte.
RegistersHold ==
  /\ Holds(rgpioOut, "out", 24) /\ Holds(rgpioOe, "oe", 24) /\ Holds(ioSel, "sel", 13)

PinsInv == TypeOK /\ RegistersHold

-----------------------------------------------------------------------------
(* Type correctness.                                                       *)

\* A register keeps within its width.
LEMMA MaskedWidth ==
  ASSUME NEW old, NEW sel, NEW data, NEW width
  PROVE  Masked(old, sel, data, width) \subseteq 0..width - 1
BY DEF Masked

LEMMA InitPins == ASSUME Init, PinsAssumption PROVE PinsInv
<1>1. written \in [Registers \ {"in"} -> [Lanes -> SUBSET (0..31)]]
  BY DEF Init, Cleared
<1>2. outside \in [Pins -> {"0", "1", "z"}]
  BY DEF Init
<1>3. TypeOK
  BY <1>1, <1>2 DEF Init, TypeOK
<1>4. ASSUME NEW r \in Registers \ {"in"}, NEW b \in 0..31
      PROVE  ~Programmed(r, b)
  BY <1>4, LaneOfBit DEF Init, Cleared, Programmed
<1>5. RegistersHold
  BY <1>4 DEF RegistersHold, Holds, Init, Registers
<1> QED BY <1>3, <1>5 DEF PinsInv

\* The masked register holds what was written, if the old one did.
LEMMA MaskedHolds ==
  ASSUME TypeOK, NEW r \in Registers \ {"in"}, NEW width \in {13, 24}, NEW reg, Holds(reg, r, width),
         NEW sel \in SUBSET Lanes, NEW data \in SUBSET (0..31),
         written' = [written EXCEPT ![r] =
                       [l \in Lanes |-> IF l \in sel THEN data \cap BitsOf(l) ELSE @[l]]],
         NEW b \in 0..width - 1
  PROVE  b \in Masked(reg, sel, data, width) <=> Programmed(r, b)'
<1>1. b \in 0..31 /\ b \div 8 \in Lanes
  BY LaneOfBit
<1>2. (\E l \in sel : b \in BitsOf(l)) <=> b \div 8 \in sel
  BY <1>1, ByteOfBit
<1>3. written'[r] = [l \in Lanes |-> IF l \in sel THEN data \cap BitsOf(l) ELSE written[r][l]]
  BY DEF TypeOK
<1>4. CASE b \div 8 \in sel
  <2>1. written'[r][b \div 8] = data \cap BitsOf(b \div 8)
    BY <1>1, <1>3, <1>4
  <2>2. b \in BitsOf(b \div 8)
    BY <1>1, ByteOfBit
  <2>3. b \in Masked(reg, sel, data, width) <=> b \in data
    BY <1>2, <1>4 DEF Masked
  <2> QED BY <2>1, <2>2, <2>3 DEF Programmed
<1>5. CASE b \div 8 \notin sel
  <2>1. written'[r][b \div 8] = written[r][b \div 8]
    BY <1>1, <1>3, <1>5
  <2>2. b \in Masked(reg, sel, data, width) <=> b \in reg
    BY <1>2, <1>5 DEF Masked
  <2> QED BY <2>1, <2>2 DEF Programmed, Holds
<1> QED BY <1>4, <1>5

-----------------------------------------------------------------------------
(* The steps.                                                              *)

LEMMA WriteStep == ASSUME PinsInv, Write, PinsAssumption PROVE PinsInv'
<1>1. PICK r \in Registers, sel \in ByteSelects, data \in DataWords :
        /\ rgpioOut' = IF r = "out" THEN Masked(rgpioOut, sel, data, 24) ELSE rgpioOut
        /\ rgpioOe'  = IF r = "oe"  THEN Masked(rgpioOe, sel, data, 24)  ELSE rgpioOe
        /\ ioSel'    = IF r = "sel" THEN Masked(ioSel, sel, data, 13)    ELSE ioSel
        /\ written' = IF r = "in" THEN written
                      ELSE [written EXCEPT ![r] =
                              [l \in Lanes |-> IF l \in sel THEN data \cap BitsOf(l) ELSE @[l]]]
  BY DEF Write
<1>2. UNCHANGED <<lines, oen, outside>> /\ TypeOK /\ RegistersHold
  BY DEF Write, PinsInv
<1>3. sel \in SUBSET Lanes /\ data \in SUBSET (0..31)
  BY DEF PinsAssumption
<1>4. written' \in [Registers \ {"in"} -> [Lanes -> SUBSET (0..31)]]
  <2>1. CASE r = "in"
    BY <1>1, <1>2, <2>1 DEF TypeOK
  <2>2. CASE r # "in"
    <3>1. r \in Registers \ {"in"} /\ written[r] \in [Lanes -> SUBSET (0..31)]
      BY <1>2, <2>2 DEF TypeOK
    <3>2. [l \in Lanes |-> IF l \in sel THEN data \cap BitsOf(l) ELSE written[r][l]]
            \in [Lanes -> SUBSET (0..31)]
      BY <1>3, <3>1
    <3> QED BY <1>1, <1>2, <2>2, <3>1, <3>2 DEF TypeOK
  <2> QED BY <2>1, <2>2
<1>5. TypeOK'
  <2>1. rgpioOut' \subseteq 0..23 /\ rgpioOe' \subseteq 0..23 /\ ioSel' \subseteq 0..12
    <3>1. 24 - 1 = 23 /\ 13 - 1 = 12
      OBVIOUS
    <3>2. \A old, width : Masked(old, sel, data, width) \subseteq 0..width - 1
      BY MaskedWidth
    <3> QED BY <1>1, <1>2, <3>1, <3>2 DEF TypeOK
  <2> QED BY <1>2, <1>4, <2>1 DEF TypeOK
<1>6. ASSUME NEW s \in Registers \ {"in"}, NEW width \in {13, 24}, NEW reg, Holds(reg, s, width),
             NEW b \in 0..width - 1
      PROVE  b \in (IF r = s THEN Masked(reg, sel, data, width) ELSE reg) <=> Programmed(s, b)'
  <2>1. CASE r # s
    <3>1. written'[s] = written[s]
      BY <1>1, <1>2, <2>1 DEF TypeOK
    <3> QED BY <1>6, <2>1, <3>1 DEF Holds, Programmed
  <2>2. CASE r = s
    <3>1. written' = [written EXCEPT ![s] =
                        [l \in Lanes |-> IF l \in sel THEN data \cap BitsOf(l) ELSE @[l]]]
      BY <1>1, <1>6, <2>2
    <3>2. b \in Masked(reg, sel, data, width) <=> Programmed(s, b)'
      BY <1>2, <1>3, <1>6, <3>1, MaskedHolds
    <3> QED BY <2>2, <3>2
  <2> QED BY <2>1, <2>2
<1>7. /\ "out" \in Registers \ {"in"} /\ "oe" \in Registers \ {"in"} /\ "sel" \in Registers \ {"in"}
      /\ Holds(rgpioOut, "out", 24) /\ Holds(rgpioOe, "oe", 24) /\ Holds(ioSel, "sel", 13)
  BY <1>2 DEF Registers, RegistersHold
<1>8. \A b \in 0..24 - 1 : b \in rgpioOut' <=> Programmed("out", b)'
  BY <1>1, <1>6, <1>7
<1>9. \A b \in 0..24 - 1 : b \in rgpioOe' <=> Programmed("oe", b)'
  BY <1>1, <1>6, <1>7
<1>10. \A b \in 0..13 - 1 : b \in ioSel' <=> Programmed("sel", b)'
  BY <1>1, <1>6, <1>7
<1>11. RegistersHold'
  BY <1>8, <1>9, <1>10 DEF RegistersHold, Holds
<1> QED BY <1>5, <1>11 DEF PinsInv

LEMMA ResetStep == ASSUME PinsInv, Reset PROVE PinsInv'
<1>1. written' \in [Registers \ {"in"} -> [Lanes -> SUBSET (0..31)]]
  BY DEF Reset, Cleared
<1>2. TypeOK'
  BY <1>1 DEF Reset, TypeOK, PinsInv
<1>3. ASSUME NEW r \in Registers \ {"in"}, NEW b \in 0..31
      PROVE  ~Programmed(r, b)'
  BY <1>3, LaneOfBit DEF Reset, Cleared, Programmed
<1>4. RegistersHold'
  BY <1>3 DEF RegistersHold, Holds, Reset, Registers
<1> QED BY <1>2, <1>4 DEF PinsInv

LEMMA AroundStep ==
  ASSUME PinsInv, PeripheralMoves \/ OutsideMoves, PinsAssumption
  PROVE  PinsInv'
<1>1. UNCHANGED <<rgpioOut, rgpioOe, ioSel, written>> /\ TypeOK /\ RegistersHold
  BY DEF PeripheralMoves, OutsideMoves, registers, PinsInv
<1>2. RegistersHold'
  BY <1>1 DEF RegistersHold, Holds, Programmed
<1>3. CASE PeripheralMoves
  <2>1. lines' \subseteq SharedPins \ MisoPins /\ oen' \subseteq I2cPins /\ outside' = outside
    BY <1>1, <1>3 DEF PeripheralMoves, TypeOK, PinsAssumption
  <2> QED BY <1>1, <1>2, <2>1 DEF PinsInv, TypeOK
<1>4. CASE OutsideMoves
  <2>1. UNCHANGED <<lines, oen>> /\ outside' \in [Pins -> {"0", "1", "z"}]
    BY <1>4 DEF OutsideMoves
  <2> QED BY <1>1, <1>2, <2>1 DEF PinsInv, TypeOK
<1> QED BY <1>3, <1>4

LEMMA PinsInductive == ASSUME PinsInv, [Next]_vars, PinsAssumption PROVE PinsInv'
<1>1. CASE UNCHANGED vars
  BY <1>1 DEF vars, registers, PinsInv, TypeOK, RegistersHold, Holds, Programmed
<1> QED BY <1>1, WriteStep, ResetStep, AroundStep DEF Next

\* The registers keep their widths, whatever bytes are written to them
\* (gpio_top.sv:186-203).
THEOREM TypeCorrect == Spec => []TypeOK
<1>1. Init => PinsInv
  BY InitPins, PinsAssumption
<1>2. PinsInv /\ [Next]_vars => PinsInv'
  BY PinsInductive, PinsAssumption
<1>3. PinsInv => TypeOK
  BY DEF PinsInv
<1> QED BY <1>1, <1>2, <1>3, PTL DEF Spec

-----------------------------------------------------------------------------
(* The pads.                                                               *)

\* What the registers hold decides about a shared pin of the GPIO.
LEMMA OwnedByGpio == ASSUME PinsInv PROVE PadsAsProgrammed
<1> SUFFICES ASSUME NEW p \in Pins \cap SharedPins, ~Programmed("sel", p - 11)
             PROVE  Driven(p) = {IF Programmed("oe", p) THEN Level(Programmed("out", p)) ELSE "z"}
  BY DEF PadsAsProgrammed
<1>1. p \in 0..24 - 1 /\ p - 11 \in 0..13 - 1
  BY DEF SharedPins
<1>2. ~Selected(p)
  BY <1>1 DEF Selected, PinsInv, RegistersHold, Holds
<1>3. p \in rgpioOe <=> Programmed("oe", p)
  BY <1>1 DEF PinsInv, RegistersHold, Holds
<1>4. p \in rgpioOut <=> Programmed("out", p)
  BY <1>1 DEF PinsInv, RegistersHold, Holds
<1>5. Out(p) <=> Programmed("out", p)
  BY <1>2, <1>4 DEF Out
<1>6. Enable(p) = {Level(p \in rgpioOe)}
  BY <1>2 DEF Enable
<1>7. Driven(p) = {IF p \in rgpioOe THEN Level(Out(p)) ELSE "z"}
  BY <1>6 DEF Driven, Level
<1>8. Level(Out(p)) = Level(Programmed("out", p))
  BY <1>5 DEF Level
<1> QED BY <1>3, <1>7, <1>8

\* A shared pin that no write has given to its peripheral does what the writes, a byte
\* at a time and in any order, have made of its bits, for every word, every choice of
\* bytes and every pin (gpio_top.sv:181-208, io_mux.sv:73-104).
THEOREM PadsFollowWrites == Spec => []PadsAsProgrammed
<1>1. Init => PinsInv
  BY InitPins, PinsAssumption
<1>2. PinsInv /\ [Next]_vars => PinsInv'
  BY PinsInductive, PinsAssumption
<1>3. PinsInv => PadsAsProgrammed
  BY OwnedByGpio
<1> QED BY <1>1, <1>2, <1>3, PTL DEF Spec

\* What a step leaves of a pin's bits in a register it does not reach.
LEMMA Unreached ==
  ASSUME PinsInv, PinsInv', NEW p \in 0..23
  PROVE  /\ ~Reaches("out", p \div 8) => (p \in rgpioOut <=> p \in rgpioOut')
         /\ ~Reaches("oe", p \div 8) => (p \in rgpioOe <=> p \in rgpioOe')
<1>1. p \in 0..24 - 1
  OBVIOUS
<1>2. /\ p \in rgpioOut <=> Programmed("out", p)
      /\ p \in rgpioOe <=> Programmed("oe", p)
  BY <1>1 DEF PinsInv, RegistersHold, Holds
<1>3. /\ p \in rgpioOut' <=> Programmed("out", p)'
      /\ p \in rgpioOe' <=> Programmed("oe", p)'
  BY <1>1 DEF PinsInv, RegistersHold, Holds
<1> QED BY <1>2, <1>3 DEF Programmed, Reaches

\* A pad whose owner stays the same and does nothing to it stays as it is.
LEMMA PadStays ==
  ASSUME PinsInv, PinsInv', PinsAssumption, NEW p \in Pins,
         outside'[p] = outside[p], Selected(p) <=> Selected(p)',
         Selected(p) => /\ (p \in lines) = (p \in lines') /\ (p \in oen) = (p \in oen')
                        /\ ~(p \in MisoPins /\ Reaches("out", p \div 8)),
         ~Selected(p) => ~Reaches("out", p \div 8) /\ ~Reaches("oe", p \div 8)
  PROVE  Pad(p)' = Pad(p)
<1>1. p \in 0..23
  BY DEF PinsAssumption
<1>2. /\ ~Reaches("out", p \div 8) => (p \in rgpioOut <=> p \in rgpioOut')
      /\ ~Reaches("oe", p \div 8) => (p \in rgpioOe <=> p \in rgpioOe')
  BY <1>1, Unreached
<1>3. Level(Out(p)) = Level(Out(p))'
  BY <1>2 DEF Out, Level
<1>4. Enable(p) = Enable(p)'
  <2>1. CASE p \notin SharedPins
    BY <2>1 DEF Enable, Selected
  <2>2. CASE p \in SharedPins /\ Selected(p)
    BY <2>2 DEF Enable, Level
  <2>3. CASE p \in SharedPins /\ ~Selected(p)
    BY <1>2, <2>3 DEF Enable, Level
  <2> QED BY <2>1, <2>2, <2>3
<1>5. Driven(p) = Driven(p)'
  BY <1>3, <1>4 DEF Driven
<1> QED BY <1>5 DEF Pad

\* A pad changes only with what drives it from outside, with its owner, or with what its
\* owner does: nobody else's line and no transfer to other bytes moves it, for every pin
\* and every set of lines that move (io_mux.sv:73-104, gpio_top.sv:181-204).
THEOREM OnlyOwnersMovePads == Spec => PadMovesByOwner
<1>1. Init => PinsInv
  BY InitPins, PinsAssumption
<1>2. PinsInv /\ [Next]_vars => PinsInv'
  BY PinsInductive, PinsAssumption
<1> DEFINE Moves ==
      \A p \in Pins : Pad(p)' # Pad(p) =>
        \/ outside'[p] # outside[p]
        \/ Selected(p) # Selected(p)'
        \/ /\ Selected(p)
           /\ \/ (p \in lines) # (p \in lines') \/ (p \in oen) # (p \in oen')
              \/ p \in MisoPins /\ Reaches("out", p \div 8)
        \/ /\ ~Selected(p)
           /\ Reaches("out", p \div 8) \/ Reaches("oe", p \div 8)
<1>3. PinsInv /\ PinsInv' => [Moves]_vars
  <2> SUFFICES ASSUME PinsInv, PinsInv' PROVE Moves
    OBVIOUS
  <2>1. ASSUME NEW p \in Pins, Pad(p)' # Pad(p),
               outside'[p] = outside[p], Selected(p) <=> Selected(p)',
               ~(/\ Selected(p)
                 /\ \/ (p \in lines) # (p \in lines') \/ (p \in oen) # (p \in oen')
                    \/ p \in MisoPins /\ Reaches("out", p \div 8)),
               ~(/\ ~Selected(p)
                 /\ Reaches("out", p \div 8) \/ Reaches("oe", p \div 8))
        PROVE  FALSE
    BY <2>1, PadStays, PinsAssumption, Zenon
  <2>2. ASSUME NEW p \in Pins PROVE (Selected(p) <=> Selected(p)') \/ Selected(p) # Selected(p)'
    BY DEF Selected
  <2> QED BY <2>1, <2>2, Zenon
<1> QED BY <1>1, <1>2, <1>3, PTL DEF Spec, PadMovesByOwner
=============================================================================
