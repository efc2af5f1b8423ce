------------------------- MODULE MCExecuteCodePage -------------------------
(***************************************************************************)
(* ExecuteCodePage for TLC: two cycle counts, one signal that is not       *)
(* caught, and two faults of each kind.                                    *)
(***************************************************************************)
EXTENDS ExecuteCodePage
=============================================================================
