-------------------------- MODULE MCUartScoreboard --------------------------
(* Values of UartScoreboard's constants for model checking. *)
EXTENDS UartScoreboard

AnyTraffic == {"rxResets", "txResets", "emptyReads", "duplex", "formats"}
=============================================================================
