--------------------------- MODULE MCMonitorPage ----------------------------
(***************************************************************************)
(* The page for TLC: enough sockets for those that are live and those that *)
(* are still closing, and messages about one and about two lights.         *)
(***************************************************************************)
EXTENDS MonitorPage

MCMessages == {<<"000000">>, <<"ff0000">>, <<"000000", "00ff00">>}

=============================================================================
