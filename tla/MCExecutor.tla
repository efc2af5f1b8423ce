----------------------------- MODULE MCExecutor -----------------------------
(***************************************************************************)
(* Executor for TLC: three tests, one of each kind, and a transient one.   *)
(***************************************************************************)
EXTENDS Executor

MCTests ==
    {[kind |-> "trigger", trigger |-> "t", measure |-> "m", reset |-> "r",
      transient |-> FALSE],
     [kind |-> "reset", trigger |-> "t", measure |-> "m", reset |-> "r",
      transient |-> FALSE],
     [kind |-> "triple", trigger |-> "t", measure |-> "m", reset |-> "r",
      transient |-> FALSE],
     [kind |-> "trigger", trigger |-> "t", measure |-> "m", reset |-> "r",
      transient |-> TRUE]}
=============================================================================
