----------------------- MODULE ExecuteCodePage_proofs -----------------------
(***************************************************************************)
(* Proofs about ExecuteCodePage, for every set of cycle counts, of         *)
(* uncaught signals, and every bound.                                      *)
(***************************************************************************)
EXTENDS ExecuteCodePage, TLAPS

\* What an instruction that raises a signal does to the signal state: it is
\* delivered to the handler exactly when it is a handled signal with its
\* handler registered, as nothing handled is blocked at that point.
LEMMA RaiseEffect ==
    ASSUME NEW s \in Signals, Inv, blocked = {}, Raise(s)
    PROVE  /\ sig' = s
           /\ \/ proc' = "killed" /\ blocked' = {} /\ pc' = pc /\ disp[s] = "DFL"
              \/ /\ proc' = proc /\ blocked' = {s} /\ pc' = "handler"
                 /\ disp[s] = "HANDLER" /\ s \in Handled
  BY DEF Raise, Inv, TypeOK, DispInv, Signals

LEMMA InitInv == Init => Inv
<1> SUFFICES ASSUME Init PROVE Inv
  OBVIOUS
<1>1. \A s \in Signals : disp[s] = "DFL"
  BY DEF Init, Default
<1>2. TypeOK
  BY DEF Init, TypeOK, Default, Signals
<1> QED
  BY <1>1, <1>2 DEF Init, Inv, DispInv, JmpInv, MaskInv, SigInv, CountInv,
     InCall, KilledOnlyByUncaught, DebugFaultsStayVisible, Signals

\* Every step of the code and of its environment preserves the invariant.
LEMMA NextInv == Inv /\ [Next]_vars => Inv'
<1> SUFFICES ASSUME Inv, [Next]_vars PROVE Inv'
  OBVIOUS
<1> USE OtherAssumption
<1>1. CASE TogglePmu
  BY <1>1 DEF TogglePmu, Inv, TypeOK, DispInv, JmpInv, MaskInv, SigInv, CountInv,
     InCall, KilledOnlyByUncaught, DebugFaultsStayVisible
<1>2. CASE Construct
  BY <1>2 DEF Construct, Register, Inv, TypeOK, DispInv, JmpInv, MaskInv, SigInv,
     CountInv, InCall, KilledOnlyByUncaught, DebugFaultsStayVisible, Signals
<1>3. CASE Destroy
  BY <1>3 DEF Destroy, Unregister, Inv, TypeOK, DispInv, JmpInv, MaskInv, SigInv,
     CountInv, InCall, KilledOnlyByUncaught, DebugFaultsStayVisible, Signals
<1>4. CASE Call
  BY <1>4 DEF Call, Register, Inv, TypeOK, DispInv, JmpInv, MaskInv, SigInv,
     CountInv, InCall, KilledOnlyByUncaught, DebugFaultsStayVisible, Signals
<1>5. ASSUME NEW s \in Signals, HarnessFault(s) PROVE Inv'
  <2>1. blocked = {}
    BY <1>5 DEF HarnessFault, Inv, MaskInv
  <2>2. Raise(s)
    BY <1>5 DEF HarnessFault
  <2> QED
    BY <1>5, <2>1, <2>2, RaiseEffect DEF HarnessFault, Inv, TypeOK, DispInv,
       JmpInv, MaskInv, SigInv, CountInv, InCall, KilledOnlyByUncaught,
       DebugFaultsStayVisible, Signals
<1>6. CASE SetJmp
  BY <1>6 DEF SetJmp, Inv, TypeOK, DispInv, JmpInv, MaskInv, SigInv, CountInv,
     InCall, KilledOnlyByUncaught, DebugFaultsStayVisible
<1>7. CASE TimingInit
  <2>1. CASE pmu
    BY <1>7, <2>1 DEF TimingInit, Inv, TypeOK, DispInv, JmpInv, MaskInv, SigInv,
       CountInv, InCall, KilledOnlyByUncaught, DebugFaultsStayVisible
  <2>2. CASE ~pmu
    <3>1. blocked = {} /\ Raise("SIGILL") /\ "SIGILL" \in Signals
      BY <1>7, <2>2 DEF TimingInit, Inv, MaskInv, Signals, Handled
    <3>2. proc' = proc /\ blocked' = {"SIGILL"} /\ pc' = "handler" /\ sig' = "SIGILL"
      BY <3>1, <1>7, RaiseEffect
      DEF TimingInit, Inv, DispInv, InCall, Handled
    <3> QED
      BY <1>7, <3>2 DEF TimingInit, Inv, TypeOK, DispInv, JmpInv, MaskInv,
         SigInv, CountInv, InCall, KilledOnlyByUncaught,
         DebugFaultsStayVisible, Signals, Handled
  <2> QED
    BY <2>1, <2>2
<1>8. ASSUME NEW c \in Cycles, PageReturns(c) PROVE Inv'
  BY <1>8 DEF PageReturns, Unregister, Inv, TypeOK, DispInv, JmpInv, MaskInv,
     SigInv, CountInv, InCall, KilledOnlyByUncaught, DebugFaultsStayVisible,
     Signals
<1>9. ASSUME NEW s \in Signals, PageFaults(s) PROVE Inv'
  <2>1. blocked = {} /\ Raise(s)
    BY <1>9 DEF PageFaults, Inv, MaskInv
  <2>2. proc' = "killed" => s \in OtherSignals
    BY <1>9, <2>1, RaiseEffect DEF PageFaults, Inv, DispInv, InCall, Signals
  <2> QED
    BY <1>9, <2>1, <2>2, RaiseEffect DEF PageFaults, Inv, TypeOK, DispInv,
       JmpInv, MaskInv, SigInv, CountInv, InCall, KilledOnlyByUncaught,
       DebugFaultsStayVisible, Signals
<1>10. CASE FaultHandler
  <2>1. sig \in Handled /\ counter[sig] \in Nat
    BY <1>10 DEF FaultHandler, Inv, TypeOK, SigInv
  <2>2. /\ counter' \in [Handled -> Nat]
        /\ counter'[sig] = counter[sig] + 1
    BY <1>10, <2>1 DEF FaultHandler, Inv, TypeOK
  <2> QED
    BY <1>10, <2>1, <2>2 DEF FaultHandler, Inv, TypeOK, DispInv, JmpInv, MaskInv,
       SigInv, CountInv, InCall, KilledOnlyByUncaught, DebugFaultsStayVisible
<1>11. CASE ReturnFault
  BY <1>11 DEF ReturnFault, Unregister, FaultResult, Inv, TypeOK, DispInv, JmpInv,
     MaskInv, SigInv, CountInv, InCall, KilledOnlyByUncaught,
     DebugFaultsStayVisible, Signals
<1>13. CASE PageLosesStack
  BY <1>13 DEF PageLosesStack, Inv, TypeOK, DispInv, JmpInv, MaskInv, SigInv, CountInv,
     InCall, KilledOnlyByUncaught, DebugFaultsStayVisible
<1>12. CASE UNCHANGED vars
  BY <1>12 DEF vars, Inv, TypeOK, DispInv, JmpInv, MaskInv, SigInv, CountInv,
     InCall, KilledOnlyByUncaught, DebugFaultsStayVisible
<1> QED
  BY <1>1, <1>2, <1>3, <1>4, <1>5, <1>6, <1>7, <1>8, <1>9, <1>10, <1>11, <1>12, <1>13
  DEF Next, Step, Gone

\* The inductive invariant of the fault handling holds in every state.
THEOREM Invariance == Spec => []Inv
  BY InitInv, NextInv, PTL DEF Spec

\* However many faults the pages raise, the process is never killed by a
\* handled signal while a page runs that keeps a stack.
THEOREM HandledFaultsSurvive == Spec => []KilledOnlyByUncaught
<1>1. Inv => KilledOnlyByUncaught
  BY DEF Inv
<1> QED
  BY Invariance, <1>1, PTL

\* A DEBUGMODE build never jumps into a dead frame.
THEOREM DebugFaultsVisible == Spec => []DebugFaultsStayVisible
<1>1. Inv => DebugFaultsStayVisible
  BY DEF Inv
<1> QED
  BY Invariance, <1>1, PTL

-----------------------------------------------------------------------------
(* The code implements SandboxedCall *)

\* Counting a fault and taking it back, in either order, changes no counter.
LEMMA CountAndTakeBack ==
    ASSUME NEW D, NEW f \in [D -> Nat], NEW d \in D
    PROVE  /\ [[f EXCEPT ![d] = @ + 1] EXCEPT ![d] = @ - 1] = f
           /\ [[f EXCEPT ![d] = @ - 1] EXCEPT ![d] = @ + 1] = f
<1>1. f[d] \in Nat
  OBVIOUS
<1>2. [f EXCEPT ![d] = @ + 1][d] = f[d] + 1 /\ [f EXCEPT ![d] = @ - 1][d] = f[d] - 1
  OBVIOUS
<1>3. [[f EXCEPT ![d] = @ + 1] EXCEPT ![d] = f[d]] = f
  OBVIOUS
<1>4. [[f EXCEPT ![d] = @ - 1] EXCEPT ![d] = f[d]] = f
  OBVIOUS
<1>5. (f[d] + 1) - 1 = f[d] /\ (f[d] - 1) + 1 = f[d]
  BY <1>1
<1> QED
  BY <1>2, <1>3, <1>4, <1>5

LEMMA RefinesInit == Init => Sandbox!Init
  BY DEF Init, Sandbox!Init, Settled, NoResult, Sandbox!NoResult,
     Sandbox!NoCause, Handled, Sandbox!Handled

\* Nothing the abstract specification sees changes between the fault and the
\* return that reports it.
LEMMA RefinesNext == Inv /\ [Next]_vars => [Sandbox!Next]_(Sandbox!vars)
<1> SUFFICES ASSUME Inv, [Next]_vars
             PROVE  Sandbox!Next \/ UNCHANGED Sandbox!vars
  OBVIOUS
<1> USE OtherAssumption
<1>1. CASE TogglePmu
  BY <1>1 DEF TogglePmu, Sandbox!vars, Settled
<1>2. CASE Construct
  BY <1>2 DEF Construct, Inv, JmpInv, Sandbox!Next, Sandbox!Start, Settled
<1>3. CASE Destroy
  BY <1>3 DEF Destroy, Inv, JmpInv, Sandbox!Next, Sandbox!Stop, Settled
<1>4. CASE Call
  BY <1>4 DEF Call, Inv, JmpInv, Sandbox!vars, Settled
<1>5. ASSUME NEW s \in Signals, HarnessFault(s)
      PROVE  Sandbox!Next \/ UNCHANGED Sandbox!vars
  <2>1. blocked = {} /\ Raise(s) /\ jmp # "live" /\ jmp' = jmp
    BY <1>5 DEF HarnessFault, Inv, MaskInv, JmpInv
  <2>2. CASE proc' = "killed"
    BY <1>5, <2>1, <2>2, RaiseEffect
    DEF HarnessFault, Sandbox!Next, Sandbox!HarnessDies, Settled
  <2>3. CASE proc' = proc /\ pc' = "handler"
    <3>1. pc = "idle"
      BY <1>5, <2>1, <2>3, RaiseEffect DEF HarnessFault, Inv, DispInv, InCall
    <3> QED
      BY <1>5, <2>1, <2>3, <3>1 DEF HarnessFault, Sandbox!vars, Settled
  <2> QED
    BY <2>1, <2>2, <2>3, RaiseEffect
<1>6. CASE SetJmp
  BY <1>6 DEF SetJmp, Inv, JmpInv, Sandbox!Next, Sandbox!Begin, Settled
<1>7. CASE TimingInit
  <2>1. CASE pmu
    BY <1>7, <2>1 DEF TimingInit, Inv, JmpInv, Sandbox!vars, Settled
  <2>2. CASE ~pmu
    <3>1. blocked = {} /\ Raise("SIGILL") /\ "SIGILL" \in Signals
      BY <1>7, <2>2 DEF TimingInit, Inv, MaskInv, Signals, Handled
    <3>2. proc' = proc /\ pc' = "handler"
      BY <3>1, <1>7, RaiseEffect DEF TimingInit, Inv, DispInv, InCall, Handled
    <3> QED
      BY <1>7, <3>2 DEF TimingInit, Inv, JmpInv, Sandbox!vars, Settled
  <2> QED
    BY <2>1, <2>2
<1>8. ASSUME NEW c \in Cycles, PageReturns(c)
      PROVE  Sandbox!Next \/ UNCHANGED Sandbox!vars
  <2>1. Sandbox!Succeed(c)
    BY <1>8 DEF PageReturns, Inv, JmpInv, Sandbox!Succeed, Settled
  <2> QED
    BY <2>1 DEF Sandbox!Next
<1>9. ASSUME NEW s \in Signals, PageFaults(s)
      PROVE  Sandbox!Next \/ UNCHANGED Sandbox!vars
  <2>1. blocked = {} /\ Raise(s) /\ jmp = "live" /\ jmp' = "live" /\ pc = "page"
    BY <1>9 DEF PageFaults, Inv, MaskInv, JmpInv
  <2>2. CASE proc' = "killed"
    <3>1. s \in Sandbox!Fatal
      BY <1>9, <2>1, <2>2, RaiseEffect
      DEF PageFaults, Inv, DispInv, InCall, Signals, Sandbox!Fatal
    <3>2. Sandbox!Die(s)
      BY <1>9, <2>1, <2>2, RaiseEffect DEF PageFaults, Sandbox!Die, Settled
    <3> QED
      BY <3>1, <3>2 DEF Sandbox!Next
  <2>3. CASE proc' = proc /\ pc' = "handler"
    BY <1>9, <2>1, <2>3 DEF PageFaults, Sandbox!vars, Settled
  <2> QED
    BY <2>1, <2>2, <2>3, RaiseEffect
<1>10. CASE FaultHandler
  <2>1. sig \in Handled /\ counter \in [Handled -> Nat]
    BY <1>10 DEF FaultHandler, Inv, TypeOK, SigInv
  <2>2. counter' = [counter EXCEPT ![sig] = @ + 1] /\ sig' = sig
    BY <1>10 DEF FaultHandler
  <2>3. CASE jmp = "live"
    <3>1. [counter' EXCEPT ![sig] = @ - 1] = counter
      BY <2>1, <2>2, CountAndTakeBack
    <3> QED
      BY <1>10, <2>2, <2>3, <3>1 DEF FaultHandler, Sandbox!vars, Settled
  <2>4. CASE jmp # "live"
    <3>1. Settled = counter /\ Settled' = [counter EXCEPT ![sig] = @ + 1]
      BY <1>10, <2>4, <2>2 DEF FaultHandler, Settled
    <3>2. Sandbox!HarnessDies
      BY <1>10, <2>1, <2>4, <3>1
      DEF FaultHandler, Sandbox!HarnessDies, Handled, Sandbox!Handled
    <3> QED
      BY <3>2 DEF Sandbox!Next
  <2> QED
    BY <2>3, <2>4
<1>11. CASE ReturnFault
  <2>1. sig \in Handled /\ counter \in [Handled -> Nat] /\ jmp = "live"
    BY <1>11 DEF ReturnFault, Inv, TypeOK, SigInv, JmpInv
  <2>2. Settled' = [Settled EXCEPT ![sig] = @ + 1]
    <3>1. Settled = [counter EXCEPT ![sig] = @ - 1] /\ Settled' = counter
      BY <1>11 DEF ReturnFault, Settled
    <3>2. [[counter EXCEPT ![sig] = @ - 1] EXCEPT ![sig] = @ + 1] = counter
      BY <2>1, CountAndTakeBack
    <3> QED
      BY <3>1, <3>2
  <2>3. Sandbox!Fail(sig)
    BY <1>11, <2>1, <2>2
    DEF ReturnFault, Sandbox!Fail, FaultResult, Sandbox!FaultResult
  <2> QED
    BY <2>1, <2>3 DEF Sandbox!Next, Handled, Sandbox!Handled
<1>13. CASE PageLosesStack
  <2>1. jmp = "live" /\ jmp' = "live" /\ pc = "page"
    BY <1>13 DEF PageLosesStack, Inv, JmpInv
  <2>2. Sandbox!Die(NoStack) /\ NoStack \in Sandbox!Fatal
    BY <1>13, <2>1 DEF PageLosesStack, Sandbox!Die, Sandbox!Fatal, Sandbox!NoStack, NoStack,
       Settled
  <2> QED
    BY <2>2 DEF Sandbox!Next
<1>12. CASE UNCHANGED vars
  BY <1>12 DEF vars, Sandbox!vars, Settled
<1> QED
  BY <1>1, <1>2, <1>3, <1>4, <1>5, <1>6, <1>7, <1>8, <1>9, <1>10, <1>11, <1>12, <1>13
  DEF Next, Step, Gone

\* ExecuteCodePage and its handler keep the promise of SandboxedCall.
THEOREM ImplementsSandboxedCall == Spec => Refinement
<1>1. Spec => Sandbox!Spec
  BY Invariance, RefinesInit, RefinesNext, PTL DEF Spec, Sandbox!Spec
<1> QED
  BY <1>1 DEF Refinement
=============================================================================
