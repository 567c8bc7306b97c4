------------------------------ MODULE MCFdTable -----------------------------
(***************************************************************************)
(* Small instances of FdTable for TLC.  The table has MaxFds - 1 places    *)
(* that connections can take, less the pipe and the listener.              *)
(***************************************************************************)
EXTENDS FdTable

CONSTANTS c1, c2, c3

=============================================================================
