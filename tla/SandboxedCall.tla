--------------------------- MODULE SandboxedCall ---------------------------
(***************************************************************************)
(* What Executor::ExecuteTestrun promises its callers, without saying how: *)
(* a page of arbitrary generated code is called, and the caller gets back  *)
(* either the cycles the page returned, or an error and exactly one more   *)
(* fault on the counter of the signal the page raised.  Only a signal      *)
(* outside Handled, or a page that leaves no stack to deliver one on, can  *)
(* end the process while a page runs.                                      *)
(*                                                                         *)
(* ExecuteCodePage implements this specification (Refinement there); the   *)
(* module Executor is built on top of it.                                  *)
(***************************************************************************)
EXTENDS Integers

CONSTANTS
    Cycles,         \* cycle counts a page can return
    OtherSignals    \* signals outside Handled that a page can raise

\* executor.cc:902, 1712, 1771: signals_to_handle.
Handled == {"SIGSEGV", "SIGILL", "SIGFPE", "SIGTRAP"}

\* A signal that the kernel cannot deliver on the stack the page has left: there
\* is no other stack (sigaltstack), and the process is killed.
NoStack == "no stack"

\* What a page can end the process with.
Fatal == OtherSignals \cup {NoStack}

VARIABLES
    st,      \* "off": no Executor, "idle", "busy": a page is running, "dead"
    last,    \* what the last call handed to its caller
    faults,  \* the fault counters
    cause    \* what ended the process while a page was running

vars == <<st, last, faults, cause>>

NoCause == "none"

\* executor.cc:1790-1791: the cycle count of a call that faulted.
FaultResult == [error |-> 1, cycles |-> -1]

Results == [error : {0}, cycles : Cycles] \cup {FaultResult}
NoResult == [error |-> 0, cycles |-> 0]

TypeOK ==
    /\ st \in {"off", "idle", "busy", "dead"}
    /\ last \in Results \cup {NoResult}
    /\ faults \in [Handled -> Nat]
    /\ cause \in Fatal \cup {NoCause}

Init ==
    /\ st = "off"
    /\ last = NoResult
    /\ faults = [s \in Handled |-> 0]
    /\ cause = NoCause

\* The constructor succeeds, or ends the process.
Start ==
    /\ st = "off"
    /\ st' \in {"idle", "dead"}
    /\ UNCHANGED <<last, faults, cause>>

Begin ==
    /\ st = "idle"
    /\ st' = "busy"
    /\ UNCHANGED <<last, faults, cause>>

Succeed(c) ==
    /\ st = "busy"
    /\ st' = "idle"
    /\ last' = [error |-> 0, cycles |-> c]
    /\ UNCHANGED <<faults, cause>>

Fail(s) ==
    /\ st = "busy"
    /\ st' = "idle"
    /\ last' = FaultResult
    /\ faults' = [faults EXCEPT ![s] = @ + 1]
    /\ UNCHANGED cause

\* The page raises a signal nobody catches, or nobody can.
Die(s) ==
    /\ st = "busy"
    /\ st' = "dead"
    /\ cause' = s
    /\ UNCHANGED <<last, faults>>

\* A fault of the harness itself, outside any page.
HarnessDies ==
    /\ st \in {"off", "idle"}
    /\ st' = "dead"
    /\ \/ faults' = faults
       \/ \E s \in Handled : faults' = [faults EXCEPT ![s] = @ + 1]
    /\ UNCHANGED <<last, cause>>

Stop ==
    /\ st = "idle"
    /\ st' = "off"
    /\ UNCHANGED <<last, faults, cause>>

Next ==
    \/ Start
    \/ Begin
    \/ \E c \in Cycles : Succeed(c)
    \/ \E s \in Handled : Fail(s)
    \/ \E s \in Fatal : Die(s)
    \/ HarnessDies
    \/ Stop

Spec == Init /\ [][Next]_vars
=============================================================================
