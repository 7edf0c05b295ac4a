------------------------- MODULE MCFileTransactions -------------------------
(***************************************************************************)
(* A receipt and two files, each of which may be replaced, created, deleted *)
(* or only read; every command is given every plan.                        *)
(***************************************************************************)
EXTENDS FileTransactions
=============================================================================
