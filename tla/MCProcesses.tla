----------------------------- MODULE MCProcesses -----------------------------
(***************************************************************************)
(* Three processes around one mutex; a command of four processes on both   *)
(* kinds of platform; two plugin processes with two directories.           *)
(***************************************************************************)
EXTENDS Processes

CONSTANTS a, b, c, lead, cmd, sub, other, p1, p2, d1, d2

Three == {a, b, c}
=============================================================================
