---------------------------- MODULE MCJtagBridge ----------------------------
(* Values of JtagBridge's constants for model checking. *)
EXTENDS JtagBridge

CONSTANTS c1, c2

OneClient     == {c1}
TwoClients    == {c1, c2}
MCPinValues   == {2, 5}
MCResetValues == {1, 2}
OnePin        == {5}
=============================================================================
