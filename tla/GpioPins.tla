------------------------------ MODULE GpioPins ------------------------------
(***************************************************************************)
(* The GPIO's registers, the pin multiplexer and the pads                  *)
(* (Peripherals/gpio_uvc/rtl): gpio_top.sv, io_mux.sv and io_top.sv with   *)
(* the pad cell PDD24DGZ.v.  A word on the bus or in a register is the set *)
(* of the bits that are 1.  The multiplexer and the pads hold no state:    *)
(* they are operators over the registers, the lines of the peripherals and *)
(* what drives the pads from outside.                                      *)
(***************************************************************************)
EXTENDS Integers

CONSTANTS
  DataWords,  \* bound: the words a master writes
  ByteSelects,\* bound: the bytes it selects
  Moving,     \* bound: the shared pins whose peripheral lines move
  Pins        \* bound: the pins looked at

Registers == {"in", "out", "oe", "sel"}   \* wb_adr_i[3:2], by name
Lanes     == 0..3
SharedPins == 11..23
MisoPins   == {14, 22}   \* inputs of the SPI peripherals
I2cPins    == {16, 17}   \* with an output enable of their own

ASSUME PinsAssumption ==
  /\ DataWords \subseteq SUBSET (0..31)
  /\ ByteSelects \subseteq SUBSET Lanes
  /\ Moving \subseteq SharedPins \ MisoPins
  /\ Pins \subseteq 0..23

VARIABLES
  rgpioOut, rgpioOe, ioSel,  \* the registers; bit k of ioSel selects pin 11 + k
  lines,    \* the peripherals' outputs that are 1, by their pin
  oen,      \* the I2C pins whose o_scl_oen, o_sda_oen is 1
  outside,  \* what drives each pad from outside: "0", "1" or "z" for nothing
  written   \* history: the last word written to each byte of each register

registers == <<rgpioOut, rgpioOe, ioSel>>
vars == <<registers, lines, oen, outside, written>>

Cleared == [r \in Registers \ {"in"} |-> [l \in Lanes |-> {}]]

Init ==
  /\ rgpioOut = {} /\ rgpioOe = {} /\ ioSel = {}
  /\ lines = {} /\ oen = {}
  /\ outside = [p \in Pins |-> "z"]
  /\ written = Cleared

-----------------------------------------------------------------------------
(* gpio_top.sv                                                             *)

BitsOf(l) == (8 * l)..(8 * l + 7)

\* Mutant of Masked: the bytes that are not selected are cleared.
MaskedCleared(old, sel, data, width) ==
  {b \in 0..width - 1 : \E l \in sel : b \in BitsOf(l) /\ b \in data}

\* Mutant of Masked: the register takes the bits past its width.
MaskedWide(old, sel, data, width) ==
  {b \in 0..31 : IF \E l \in sel : b \in BitsOf(l) THEN b \in data ELSE b \in old}

\* A register of this width with the selected bytes taken from the bus.
Masked(old, sel, data, width) ==
  {b \in 0..width - 1 : IF \E l \in sel : b \in BitsOf(l) THEN b \in data ELSE b \in old}

\* A clock edge with stb, cyc and we.
Write ==
  \E r \in Registers, sel \in ByteSelects, data \in DataWords :
    /\ rgpioOut' = IF r = "out" THEN Masked(rgpioOut, sel, data, 24) ELSE rgpioOut
    /\ rgpioOe'  = IF r = "oe"  THEN Masked(rgpioOe, sel, data, 24)  ELSE rgpioOe
    /\ ioSel'    = IF r = "sel" THEN Masked(ioSel, sel, data, 13)    ELSE ioSel
    /\ written' = IF r = "in" THEN written
                  ELSE [written EXCEPT ![r] =
                          [l \in Lanes |-> IF l \in sel THEN data \cap BitsOf(l) ELSE @[l]]]
    /\ UNCHANGED <<lines, oen, outside>>

Reset ==
  /\ rgpioOut' = {} /\ rgpioOe' = {} /\ ioSel' = {}
  /\ written' = Cleared
  /\ UNCHANGED <<lines, oen, outside>>

-----------------------------------------------------------------------------
(* io_mux.sv and the pads                                                  *)

Level(high) == IF high THEN "1" ELSE "0"

Selected(p) == p \in SharedPins /\ p - 11 \in ioSel

\* o_gpio: the level given to the pad.
Out(p) == IF Selected(p) /\ p \notin MisoPins THEN p \in lines ELSE p \in rgpioOut

\* Mutant of Enable: the GPIO's enable holds for selected pins too.
EnableShared(p) ==
  IF p \notin SharedPins THEN {"0", "1"} ELSE {Level(p \in rgpioOe)}

\* en_gpio: the values it may have.  For the pins that are not shared nothing assigns it.
Enable(p) ==
  CASE p \notin SharedPins -> {"0", "1"}
    [] Selected(p) -> {Level(IF p \in I2cPins THEN p \in oen ELSE p \in MisoPins)}
    [] OTHER -> {Level(p \in rgpioOe)}

\* What the pad cell drives onto the pad: the pin's output while en_gpio is 1.
Driven(p) == {IF en = "1" THEN Level(Out(p)) ELSE "z" : en \in Enable(p)}

\* The pad, driven by a and b.
Resolved(a, b) == CASE a = "z" -> b [] b = "z" -> a [] a = b -> a [] OTHER -> "x"

\* The values the pad may have.
Pad(p) == {Resolved(d, outside[p]) : d \in Driven(p)}

-----------------------------------------------------------------------------
(* What is around.                                                         *)

PeripheralMoves ==
  /\ \/ \E p \in Moving : lines' = (lines \ {p}) \cup ({p} \ lines)
        /\ UNCHANGED oen
     \/ \E p \in Moving \cap I2cPins : oen' = (oen \ {p}) \cup ({p} \ oen)
        /\ UNCHANGED lines
  /\ UNCHANGED <<registers, outside, written>>

OutsideMoves ==
  /\ \E v \in {"0", "1", "z"} : outside' = [p \in Pins |-> v]
  /\ UNCHANGED <<registers, lines, oen, written>>

Next == Write \/ Reset \/ PeripheralMoves \/ OutsideMoves

Spec == Init /\ [][Next]_vars

-----------------------------------------------------------------------------
(* Properties.                                                             *)

\* Type invariant, with the widths of the registers.
TypeOK ==
  /\ rgpioOut \subseteq 0..23 /\ rgpioOe \subseteq 0..23 /\ ioSel \subseteq 0..12
  /\ lines \subseteq SharedPins \ MisoPins /\ oen \subseteq I2cPins
  /\ outside \in [Pins -> {"0", "1", "z"}]
  /\ written \in [Registers \ {"in"} -> [Lanes -> SUBSET (0..31)]]

\* The bit that the writes since the last reset have put into a register.
Programmed(r, b) == b \in written[r][b \div 8]

\* A shared pin that no write has given to its peripheral does what the writes, a byte
\* at a time and in any order, have made of its bits of OUT and OE (gpio_top.sv:181-208
\* with io_mux.sv:73-104).
PadsAsProgrammed ==
  \A p \in Pins \cap SharedPins :
    ~Programmed("sel", p - 11) =>
      Driven(p) = {IF Programmed("oe", p) THEN Level(Programmed("out", p)) ELSE "z"}

\* The transfer of a step reaches byte l of register r.
Reaches(r, l) == written'[r][l] # written[r][l]

\* A pad changes only with what drives it from outside, with the lines of its own
\* peripheral while that owns the pin, with a write (or a reset) of the byte that holds
\* its bit of OUT or OE while the GPIO owns it, and with one of its bit of IO_SEL; the
\* level of a MISO pin is the GPIO's in any case (io_mux.sv:73-104, gpio_top.sv:181-204).
PadMovesByOwner ==
  [][\A p \in Pins : Pad(p)' # Pad(p) =>
       \/ outside'[p] # outside[p]
       \/ Selected(p) # Selected(p)'
       \/ /\ Selected(p)
          /\ \/ (p \in lines) # (p \in lines') \/ (p \in oen) # (p \in oen')
             \/ p \in MisoPins /\ Reaches("out", p \div 8)
       \/ /\ ~Selected(p)
          /\ Reaches("out", p \div 8) \/ Reaches("oe", p \div 8)]_vars

\* What io_mux.sv:14-16 and io_top.sv:65 say: a pin given to an output of its peripheral
\* carries that output, unless something outside drives it too.
SelectedCarriesPeripheral ==
  \A p \in Pins \cap SharedPins :
    Selected(p) /\ p \notin MisoPins \cup I2cPins /\ outside[p] = "z" =>
      Pad(p) = {Level(p \in lines)}
=============================================================================
