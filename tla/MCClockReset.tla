---------------------------- MODULE MCClockReset ----------------------------
(* Values of ClockReset's constants for model checking. *)
EXTENDS ClockReset

CONSTANTS r1, r2, r3

MCRequests    == {r1, r2, r3}
MCMustHappen  == {r1, r2}
MCPeriods     == {1, 10}
MCResetDelays == {0, 2}
=============================================================================
