-------------------------- MODULE ExecuteCodePage --------------------------
(***************************************************************************)
(* The fault handling of src/src/executor.cc: how ExecuteCodePage calls a  *)
(* page of generated machine code and survives what the page does.         *)
(*                                                                         *)
(* A handled signal runs FaultHandler, which leaves through longjmp, never *)
(* by returning: the kernel's mask still blocks the signal when the code   *)
(* is back in ExecuteCodePage, and it is that code that must unblock it.   *)
(* A signal raised by an instruction while it is blocked kills the process *)
(* whatever its disposition, and so does one whose handler has no stack to *)
(* run on: the code sets none aside (sigaltstack).                         *)
(*                                                                         *)
(* The module keeps, besides the C++ state, the part of the kernel's state *)
(* the code depends on: dispositions, the blocked set, and whether the     *)
(* performance counters are open to user space (arm_pmu.c).                *)
(***************************************************************************)
EXTENDS Integers

CONSTANTS
    Cycles,         \* cycle counts a page can return
    OtherSignals,   \* signals a page can raise that are not caught (SIGBUS)
    MaxFaults       \* bound: no call starts once a counter has this value

Handled == {"SIGSEGV", "SIGILL", "SIGFPE", "SIGTRAP"}
Signals == Handled \cup OtherSignals

ASSUME CyclesAssumption == Cycles \subseteq Nat
ASSUME OtherAssumption  == OtherSignals \cap Handled = {}
ASSUME BoundAssumption  == MaxFaults \in Nat

VARIABLES
    debugmode,  \* DEBUGMODE, 0 or 1, fixed when the program is compiled
    pmu,        \* user space may access the PMU registers
    proc,       \* "running", "exited", "killed" by a signal, or "undefined"
    mapped,     \* the data pages at kMemoryBegin are mapped
    disp,       \* disposition of each signal: "DFL" or "HANDLER"
    blocked,    \* the thread's signal mask
    jmp,        \* fault_handler_jump_buf: "unset", "live" or "stale"
    pc,         \* where the program is
    sig,        \* the last signal raised, NoStack for one not delivered
    counter,    \* sigsegv_no, sigill_no, sigfpe_no, sigtrap_no
    last        \* return value and *cycles_elapsed of the last call

vars == <<debugmode, pmu, proc, mapped, disp, blocked, jmp, pc, sig, counter, last>>

NoSignal == "none"
NoStack  == "no stack"
Default  == [s \in Signals |-> "DFL"]

\* RegisterFaultHandler and UnregisterFaultHandler, on a disposition.
Register(d)   == [s \in Signals |-> IF s \in Handled THEN "HANDLER" ELSE d[s]]
Unregister(d) == [s \in Signals |-> IF s \in Handled THEN "DFL" ELSE d[s]]

NoResult    == [error |-> 0, cycles |-> 0]
FaultResult == [error |-> 1, cycles |-> -1]

TypeOK ==
    /\ debugmode \in {0, 1}
    /\ pmu \in BOOLEAN
    /\ proc \in {"running", "exited", "killed", "undefined"}
    /\ mapped \in BOOLEAN
    /\ disp \in [Signals -> {"DFL", "HANDLER"}]
    /\ blocked \subseteq Signals
    /\ jmp \in {"unset", "live", "stale"}
    /\ pc \in {"none", "idle", "setjmp", "timing_init", "page",
               "handler", "fault_path", "destroyed"}
    /\ sig \in Signals \cup {NoSignal, NoStack}
    /\ counter \in [Handled -> Nat]
    /\ last \in [error : {0}, cycles : Cycles] \cup {NoResult, FaultResult}

Init ==
    /\ debugmode \in {0, 1}
    /\ pmu \in BOOLEAN
    /\ proc = "running"
    /\ mapped = FALSE
    /\ disp = Default
    /\ blocked = {}
    /\ jmp = "unset"
    /\ pc = "none"
    /\ sig = NoSignal
    /\ counter = [s \in Handled |-> 0]
    /\ last = NoResult

-----------------------------------------------------------------------------
(* The kernel *)

\* The instruction being executed raises s.  A blocked or unhandled signal
\* kills; otherwise the handler runs with s blocked, as signal() installs it
\* without SA_NODEFER.
Raise(s) ==
    /\ sig' = s
    /\ IF s \in blocked \/ disp[s] = "DFL"
       THEN proc' = "killed" /\ UNCHANGED <<blocked, pc>>
       ELSE blocked' = blocked \cup {s} /\ pc' = "handler" /\ UNCHANGED proc

\* arm_pmu is loaded or removed: user access to the PMU opens or closes.
TogglePmu ==
    /\ proc = "running"
    /\ pmu' = ~pmu
    /\ UNCHANGED <<debugmode, proc, mapped, disp, blocked, jmp, pc, sig, counter, last>>

-----------------------------------------------------------------------------
(* Executor's life *)

\* Executor::Executor.  /dev/ic_iallu may be missing, and a second Executor
\* of the same process finds the data pages of the first still mapped.
Construct ==
    /\ proc = "running"
    /\ pc \in {"none", "destroyed"}
    /\ \/ /\ proc' = "exited"
          /\ UNCHANGED <<mapped, disp, pc>>
       \/ /\ ~mapped
          /\ mapped' = TRUE
          /\ disp' = IF debugmode = 1 THEN disp ELSE Register(disp)
          /\ pc' = "idle"
          /\ UNCHANGED proc
    /\ UNCHANGED <<debugmode, pmu, blocked, jmp, sig, counter, last>>

\* Mutant: the destructor leaves the handlers registered.
Destroy_KeepsHandlers ==
    /\ proc = "running"
    /\ pc = "idle"
    /\ pc' = "destroyed"
    /\ UNCHANGED <<debugmode, pmu, proc, mapped, disp, blocked, jmp, sig, counter, last>>

\* Executor::~Executor, which leaves the pages mapped.
Destroy ==
    /\ proc = "running"
    /\ pc = "idle"
    /\ pc' = "destroyed"
    /\ disp' = IF debugmode = 1 THEN disp ELSE Unregister(disp)
    /\ UNCHANGED <<debugmode, pmu, proc, mapped, blocked, jmp, sig, counter, last>>

\* A bug of the harness faults outside ExecuteCodePage.
HarnessFault(s) ==
    /\ proc = "running"
    /\ pc \in {"idle", "destroyed"}
    /\ Raise(s)
    /\ UNCHANGED <<debugmode, pmu, mapped, disp, jmp, counter, last>>

-----------------------------------------------------------------------------
(* ExecuteCodePage *)

\* Entry; a DEBUGMODE build registers the handlers on every call.
Call ==
    /\ proc = "running"
    /\ pc = "idle"
    /\ \A s \in Handled : counter[s] < MaxFaults
    /\ pc' = "setjmp"
    /\ disp' = IF debugmode = 1 THEN Register(disp) ELSE disp
    /\ UNCHANGED <<debugmode, pmu, proc, mapped, blocked, jmp, sig, counter, last>>

\* setjmp returns 0.  It saves the registers, not the signal mask.
SetJmp ==
    /\ proc = "running"
    /\ pc = "setjmp"
    /\ jmp' = "live"
    /\ pc' = "timing_init"
    /\ UNCHANGED <<debugmode, pmu, proc, mapped, disp, blocked, sig, counter, last>>

\* arm_v8_timing_init accesses PMCR_EL0: SIGILL when user access is closed.
\* The write to the ic_iallu device that follows only logs its failure.
TimingInit ==
    /\ proc = "running"
    /\ pc = "timing_init"
    /\ IF pmu
       THEN pc' = "page" /\ UNCHANGED <<proc, blocked, sig>>
       ELSE Raise("SIGILL")
    /\ UNCHANGED <<debugmode, pmu, mapped, disp, jmp, counter, last>>

\* The page runs to its RET and the call returns.  The page's own timer code
\* reads the PMU.
PageReturns(c) ==
    /\ proc = "running"
    /\ pc = "page"
    /\ pmu
    /\ last' = [error |-> 0, cycles |-> c]
    /\ pc' = "idle"
    /\ jmp' = "stale"
    /\ disp' = IF debugmode = 1 THEN Unregister(disp) ELSE disp
    /\ UNCHANGED <<debugmode, pmu, proc, mapped, blocked, sig, counter>>

\* Generated code raises any signal.
PageFaults(s) ==
    /\ proc = "running"
    /\ pc = "page"
    /\ Raise(s)
    /\ UNCHANGED <<debugmode, pmu, mapped, disp, jmp, counter, last>>

\* Generated code leaves SP where nothing can be stored, and raises any signal: the
\* kernel cannot push the frame of a handler, and forces SIGSEGV on the process.
PageLosesStack ==
    /\ proc = "running"
    /\ pc = "page"
    /\ sig' = NoStack
    /\ proc' = "killed"
    /\ UNCHANGED <<debugmode, pmu, mapped, disp, blocked, jmp, pc, counter, last>>

\* Mutant: the case of SIGSEGV lacks its break.
FaultHandler_FallsThrough ==
    /\ proc = "running"
    /\ pc = "handler"
    /\ counter' = [s \in Handled |->
                     IF s = sig \/ (sig = "SIGSEGV" /\ s = "SIGFPE")
                     THEN counter[s] + 1 ELSE counter[s]]
    /\ IF jmp = "live"
       THEN pc' = "fault_path" /\ UNCHANGED proc
       ELSE proc' = "undefined" /\ UNCHANGED pc
    /\ UNCHANGED <<debugmode, pmu, mapped, disp, blocked, jmp, sig, last>>

\* Mutant: the handler returns, so the faulting instruction runs again.
FaultHandler_Returns ==
    /\ proc = "running"
    /\ pc = "handler"
    /\ pc' = IF jmp = "live" THEN "page" ELSE "idle"
    /\ blocked' = blocked \ {sig}
    /\ UNCHANGED <<debugmode, pmu, proc, mapped, disp, jmp, sig, counter, last>>

\* FaultHandler.  longjmp to a frame that has returned is undefined.
FaultHandler ==
    /\ proc = "running"
    /\ pc = "handler"
    /\ counter' = [counter EXCEPT ![sig] = @ + 1]
    /\ IF jmp = "live"
       THEN pc' = "fault_path" /\ UNCHANGED proc
       ELSE proc' = "undefined" /\ UNCHANGED pc
    /\ UNCHANGED <<debugmode, pmu, mapped, disp, blocked, jmp, sig, last>>

\* Mutant: the fault path forgets sigprocmask(SIG_UNBLOCK).
ReturnFault_StaysBlocked ==
    /\ proc = "running"
    /\ pc = "fault_path"
    /\ disp' = IF debugmode = 1 THEN Unregister(disp) ELSE disp
    /\ last' = FaultResult
    /\ pc' = "idle"
    /\ jmp' = "stale"
    /\ UNCHANGED <<debugmode, pmu, proc, mapped, blocked, sig, counter>>

\* Mutant: only the normal return unregisters the handlers.
ReturnFault_StaysRegistered ==
    /\ proc = "running"
    /\ pc = "fault_path"
    /\ blocked' = blocked \ Handled
    /\ last' = FaultResult
    /\ pc' = "idle"
    /\ jmp' = "stale"
    /\ UNCHANGED <<debugmode, pmu, proc, mapped, disp, sig, counter>>

\* setjmp returned 1: unblock, report the fault.
ReturnFault ==
    /\ proc = "running"
    /\ pc = "fault_path"
    /\ blocked' = blocked \ Handled
    /\ disp' = IF debugmode = 1 THEN Unregister(disp) ELSE disp
    /\ last' = FaultResult
    /\ pc' = "idle"
    /\ jmp' = "stale"
    /\ UNCHANGED <<debugmode, pmu, proc, mapped, sig, counter>>

\* The process is gone.
Gone == proc # "running" /\ UNCHANGED vars

Step ==
    \/ SetJmp \/ TimingInit
    \/ \E c \in Cycles : PageReturns(c)
    \/ \E s \in Signals : PageFaults(s)
    \/ PageLosesStack
    \/ FaultHandler \/ ReturnFault

Next ==
    \/ TogglePmu
    \/ Construct \/ Destroy \/ Call
    \/ \E s \in Signals : HarnessFault(s)
    \/ Step
    \/ Gone

\* Once called, the code runs; that a page ends, by RET or by a signal, is an
\* assumption on the page: nothing in the code limits its time.
Fairness == WF_vars(Step)

Spec == Init /\ [][Next]_vars

FairSpec == Spec /\ Fairness
-----------------------------------------------------------------------------
(* Properties *)

\* No page that keeps a stack can end the fuzzer with a signal Executor catches,
\* however many faults came before: each call starts with every handled signal
\* unblocked and caught (executor.cc:1662-1793).
KilledOnlyByUncaught ==
    proc = "killed" /\ jmp = "live" => sig \in OtherSignals \cup {NoStack}

\* A DEBUGMODE build never longjmps into a frame that has returned: a fault of
\* the harness between two calls kills it where it happens, which is what the
\* registration around every call (executor.cc:1709-1716, 1757-1761, 1783-1787)
\* is for.
DebugFaultsStayVisible == debugmode = 1 => proc # "undefined"

\* Every call comes back or the process ends.
CallReturns == [](pc = "setjmp" => <>(pc = "idle" \/ proc # "running"))

\* The counters without a fault whose call has not returned yet.
Settled ==
    IF pc = "fault_path" THEN [counter EXCEPT ![sig] = @ - 1] ELSE counter

Sandbox == INSTANCE SandboxedCall WITH
    st <- IF proc # "running" THEN "dead"
          ELSE IF pc \in {"none", "destroyed"} THEN "off"
          ELSE IF jmp = "live" THEN "busy" ELSE "idle",
    faults <- Settled,
    cause <- IF proc = "killed" /\ jmp = "live" THEN sig ELSE "none"

\* The code implements SandboxedCall: in particular each error return comes
\* with exactly one fault counted, on the counter of the signal raised.
Refinement == Sandbox!Spec

-----------------------------------------------------------------------------
(* The inductive invariant *)

InCall == pc \in {"setjmp", "timing_init", "page", "handler", "fault_path"}

\* Who is registered when: by build, around a call or over Executor's life.
DispInv ==
    /\ \A s \in Handled :
         (disp[s] = "HANDLER") <=>
            (IF debugmode = 1 THEN InCall ELSE pc \notin {"none", "destroyed"})
    /\ \A s \in OtherSignals : disp[s] = "DFL"

JmpInv ==
    /\ pc \in {"timing_init", "page", "fault_path"} => jmp = "live"
    /\ pc \in {"none", "idle", "setjmp", "destroyed"} => jmp # "live"
    /\ pc = "handler" /\ debugmode = 1 => jmp = "live"

\* A handled signal is blocked only from its delivery to ReturnFault.
MaskInv ==
    /\ blocked \subseteq Handled
    /\ pc \notin {"handler", "fault_path"} => blocked = {}

SigInv == pc \in {"handler", "fault_path"} => sig \in Handled

CountInv == pc = "fault_path" => counter[sig] > 0

Inv ==
    /\ TypeOK
    /\ DispInv
    /\ JmpInv
    /\ MaskInv
    /\ SigInv
    /\ CountInv
    /\ KilledOnlyByUncaught
    /\ DebugFaultsStayVisible
=============================================================================
