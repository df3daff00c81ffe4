------------------------------- MODULE MCWaiting -------------------------------
(***************************************************************************)
(* An instance of Waiting for TLC.                                         *)
(***************************************************************************)
EXTENDS Waiting

CONSTANTS t1, t2

MCItemStatus == <<"ok", "failed">>
=============================================================================
