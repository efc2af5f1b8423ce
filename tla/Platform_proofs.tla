-------------------------- MODULE Platform_proofs --------------------------
(***************************************************************************)
(* The properties of Platform for any number of CPUs and processes.        *)
(***************************************************************************)
EXTENDS Platform, TLAPS

-----------------------------------------------------------------------------
(* Types *)

LEMMA TypeInit == Init => TypeOK
<1> SUFFICES ASSUME Init
             PROVE  TypeOK
  OBVIOUS
<1>1. ArmPmuTypeOK
  BY FirstPmcrAssumption DEF Init, ArmPmuInit, ArmPmuTypeOK
<1>2. IcIalluTypeOK
  BY DEF Init, IcIalluInit, IcIalluTypeOK
<1> QED
  BY <1>1, <1>2, Cpu0Assumption DEF Init, TypeOK

LEMMA PmuType ==
    ASSUME TypeOK, PmuModule
    PROVE  TypeOK'
<1> USE DEF ArmPmuTypeOK, procVars, icVars
<1>1. CASE (Insmod \/ Rmmod \/ EachCpuDone) /\ UNCHANGED <<icVars, procVars>>
  <2>1. ArmPmuTypeOK'
    BY <1>1 DEF TypeOK, Insmod, Rmmod, EachCpuDone
  <2> QED
    BY <1>1, <2>1 DEF TypeOK, IcIalluTypeOK
<1>2. ASSUME NEW c \in Cpus, enable_cpu_counters(c),
             exact' = Touched(c, EnableValue(c)), meddlers' = MeddledBy("arm_pmu", c),
             UNCHANGED <<icVars, pc, affinity, cpu, fd, value, flushed, stale, first>>
      PROVE  TypeOK'
  <2>1. ArmPmuTypeOK'
    BY <1>2 DEF TypeOK, enable_cpu_counters, PmcrAfter
  <2>2. exact' \in [Processes -> BOOLEAN]
    BY <1>2 DEF TypeOK, Touched
  <2>3. meddlers' \in [Processes -> SUBSET (Processes \cup {"arm_pmu"})]
    BY <1>2 DEF TypeOK, MeddledBy
  <2> QED
    BY <1>2, <2>1, <2>2, <2>3 DEF TypeOK, IcIalluTypeOK
<1>3. ASSUME NEW c \in Cpus, disable_cpu_counters(c),
             exact' = Touched(c, DisableValue(c)),
             UNCHANGED <<icVars, pc, affinity, cpu, fd, value, flushed, stale, first, meddlers>>
      PROVE  TypeOK'
  <2>1. ArmPmuTypeOK'
    BY <1>3 DEF TypeOK, disable_cpu_counters, PmcrAfter
  <2>2. exact' \in [Processes -> BOOLEAN]
    BY <1>3 DEF TypeOK, Touched
  <2> QED
    BY <1>3, <2>1, <2>2 DEF TypeOK, IcIalluTypeOK
<1> QED
  BY <1>1, <1>2, <1>3 DEF PmuModule

LEMMA IcType ==
    ASSUME TypeOK, IcModule
    PROVE  TypeOK'
<1>1. IcIalluTypeOK'
  <2> USE DEF TypeOK, IcIalluTypeOK, Registrations
  <2>1. CASE IcInsmod \/ RegisterFails \/ IcRmmod \/ Unregister \/ IcGone
    BY <2>1 DEF IcInsmod, RegisterFails, IcRmmod, Unregister, IcGone
  <2>2. CASE Register
    BY <2>2 DEF Register, After
  <2> QED
    BY <2>1, <2>2 DEF IcModule
<1>2. fd' \in [Processes -> {"closed", "open", "gone"}]
  BY DEF TypeOK, IcModule
<1> QED
  BY <1>1, <1>2 DEF TypeOK, IcModule, pmuVars, counting, ArmPmuTypeOK

LEMMA ForgetType ==
    ASSUME TypeOK, NEW p \in Processes, Forget(p)
    PROVE  /\ value' \in [Processes -> SUBSET Stored]
           /\ flushed' \in [Processes -> BOOLEAN]
           /\ first' \in [Processes -> Cpus \cup {None}]
           /\ exact' \in [Processes -> BOOLEAN]
           /\ meddlers' \in [Processes -> SUBSET (Processes \cup {"arm_pmu"})]
  BY DEF TypeOK, Forget

LEMMA ProcessType ==
    ASSUME TypeOK, NEW p \in Processes, Process(p)
    PROVE  TypeOK'
<1> USE DEF Goto, pmuVars, icVars, counting, ArmPmuTypeOK, IcIalluTypeOK
<1>1. CASE Start(p)
  BY <1>1 DEF TypeOK, Start
<1>2. CASE SetAffinity(p)
  BY <1>2, Cpu0Assumption DEF TypeOK, SetAffinity
<1>3. CASE SetAffinityFails(p)
  BY <1>3 DEF TypeOK, SetAffinityFails
<1>4. CASE OpenDevice(p)
  BY <1>4 DEF TypeOK, OpenDevice
<1>5. CASE WritePages(p)
  BY <1>5 DEF TypeOK, WritePages
<1>6. CASE TriggerIcIallu(p)
  BY <1>6 DEF TypeOK, TriggerIcIallu, Invalidated
<1>7. CASE TimingRead(p)
  BY <1>7 DEF TypeOK, TimingRead
<1>8. CASE TimingWrite(p)
  <2>1. pmcr' \in [Cpus -> SUBSET Stored]
    BY <1>8 DEF TypeOK, TimingWrite, PmcrAfter
  <2>2. exact' \in [Processes -> BOOLEAN]
    BY <1>8 DEF TypeOK, TimingWrite, Touched
  <2>3. meddlers' \in [Processes -> SUBSET (Processes \cup {"arm_pmu"})]
    BY <1>8 DEF TypeOK, TimingWrite, MeddledBy
  <2> QED
    BY <1>8, <2>1, <2>2, <2>3 DEF TypeOK, TimingWrite
<1>9. CASE Trap(p)
  BY <1>9, ForgetType DEF TypeOK, Trap
<1>10. CASE Flush(p)
  BY <1>10 DEF TypeOK, Flush, Invalidated
<1>11. CASE FlushFails(p)
  BY <1>11 DEF TypeOK, FlushFails
<1>12. CASE FlushGone(p)
  <2>1. \/ pc' = [pc EXCEPT ![p] = "ended"]
        \/ pc' = [pc EXCEPT ![p] = "enter"]
    BY <1>12 DEF FlushGone
  <2>2. fd' = [fd EXCEPT ![p] = "closed"] \/ fd' = fd
    BY <1>12 DEF FlushGone
  <2>3. Forget(p) \/ UNCHANGED <<value, flushed, first, exact, meddlers>>
    BY <1>12 DEF FlushGone
  <2>4. UNCHANGED <<pmuVars, icVars, affinity, cpu, stale>>
    BY <1>12 DEF FlushGone
  <2>5. /\ value' \in [Processes -> SUBSET Stored]
        /\ flushed' \in [Processes -> BOOLEAN]
        /\ first' \in [Processes -> Cpus \cup {None}]
        /\ exact' \in [Processes -> BOOLEAN]
        /\ meddlers' \in [Processes -> SUBSET (Processes \cup {"arm_pmu"})]
    BY <2>3, ForgetType DEF TypeOK
  <2> QED
    BY <2>1, <2>2, <2>4, <2>5 DEF TypeOK
<1>13. CASE StartReading(p)
  BY <1>13 DEF TypeOK, StartReading, Counts
<1>19. CASE PageRead(p)
  BY <1>19 DEF TypeOK, PageRead
<1>20. CASE PageWrite(p)
  <2>1. pmcr' \in [Cpus -> SUBSET Stored]
    BY <1>20 DEF TypeOK, PageWrite, PmcrAfter
  <2>2. exact' \in [Processes -> BOOLEAN]
    BY <1>20 DEF TypeOK, PageWrite, Touched
  <2>3. meddlers' \in [Processes -> SUBSET (Processes \cup {"arm_pmu"})]
    BY <1>20 DEF TypeOK, PageWrite, MeddledBy
  <2> QED
    BY <1>20, <2>1, <2>2, <2>3 DEF TypeOK, PageWrite
<1>14. CASE EndReading(p)
  BY <1>14 DEF TypeOK, EndReading
<1>15. CASE PageFaults(p)
  BY <1>15, ForgetType DEF TypeOK, PageFaults
<1>16. CASE Returned(p)
  <2>1. stale' \in [Cpus -> SUBSET Processes]
    BY <1>16 DEF TypeOK, Returned, Invalidated
  <2> QED
    BY <1>16, <2>1, ForgetType DEF TypeOK, Returned
<1>17. CASE End(p)
  BY <1>17, ForgetType DEF TypeOK, End
<1>18. CASE Migrate(p)
  BY <1>18 DEF TypeOK, Migrate
<1> QED
  BY <1>1, <1>2, <1>3, <1>4, <1>5, <1>6, <1>7, <1>8, <1>9, <1>10, <1>11, <1>12,
     <1>13, <1>14, <1>15, <1>16, <1>17, <1>18, <1>19, <1>20 DEF Process

-----------------------------------------------------------------------------
(* The device *)

LEMMA IcStep ==
    ASSUME IcInv, IcModule
    PROVE  IcInv'
<1> USE DEF IcInv, RegisteredBefore, Registrations
<1>1. CASE IcInsmod
  BY <1>1 DEF IcInsmod
<1>2. CASE Register
  BY <1>2 DEF Register, After
<1>3. CASE RegisterFails
  BY <1>3 DEF RegisterFails, Undone
<1>4. CASE IcRmmod
  BY <1>4 DEF IcRmmod
<1>5. CASE Unregister
  BY <1>5 DEF Unregister, After
<1>6. CASE IcGone
  BY <1>6 DEF IcGone
<1> QED
  BY <1>1, <1>2, <1>3, <1>4, <1>5, <1>6 DEF IcModule

-----------------------------------------------------------------------------
(* Where a process runs *)

\* What the two modules leave to the processes.
LEMMA ModulesFrame ==
    /\ PmuModule => UNCHANGED <<icVars, pc, affinity, cpu, fd, value, flushed, stale, first>>
    /\ IcModule => UNCHANGED <<pmuVars, pc, affinity, cpu, value, flushed, stale, counting>>
  BY DEF PmuModule, IcModule, procVars

LEMMA PinnedStep ==
    ASSUME TypeOK, Pinned, NEW p \in Processes, Process(p)
    PROVE  Pinned'
<1> USE DEF Goto
<1>1. CASE Start(p)
  BY <1>1 DEF TypeOK, Pinned, Start
<1>2. CASE SetAffinity(p)
  BY <1>2 DEF TypeOK, Pinned, SetAffinity
<1>3. CASE SetAffinityFails(p) \/ OpenDevice(p) \/ WritePages(p) \/ TriggerIcIallu(p)
  BY <1>3 DEF TypeOK, Pinned, SetAffinityFails, OpenDevice, WritePages, TriggerIcIallu
<1>4. CASE TimingRead(p) \/ TimingWrite(p) \/ Trap(p)
  BY <1>4 DEF TypeOK, Pinned, TimingRead, TimingWrite, Trap
<1>5. CASE Flush(p) \/ FlushFails(p) \/ FlushGone(p)
  BY <1>5 DEF TypeOK, Pinned, Flush, FlushFails, FlushGone
<1>6. CASE StartReading(p) \/ EndReading(p) \/ PageFaults(p) \/ Returned(p)
  BY <1>6 DEF TypeOK, Pinned, StartReading, EndReading, PageFaults, Returned
<1>8. CASE PageRead(p) \/ PageWrite(p)
  BY <1>8 DEF TypeOK, Pinned, PageRead, PageWrite
<1>7. CASE End(p) \/ Migrate(p)
  BY <1>7 DEF TypeOK, Pinned, End, Migrate
<1> QED
  BY <1>1, <1>2, <1>3, <1>4, <1>5, <1>6, <1>7, <1>8 DEF Process

LEMMA OnCpu0 ==
    ASSUME TypeOK, Pinned, NEW p \in Processes, pc[p] \notin {"ended", "main"}
    PROVE  cpu[p] = Cpu0 /\ ~Migrate(p)
<1>1. affinity[p] = {Cpu0} /\ cpu[p] \in affinity[p]
  BY DEF TypeOK, Pinned
<1> QED
  BY <1>1 DEF Migrate

-----------------------------------------------------------------------------
(* The instruction cache *)

LEMMA FlushStep ==
    ASSUME TypeOK, Pinned, FlushInv, NEW p \in Processes, Process(p)
    PROVE  FlushInv'
<1> USE DEF Goto
<1>1. CASE Start(p) \/ SetAffinity(p)
  BY <1>1 DEF TypeOK, FlushInv, Start, SetAffinity
<1>2. CASE SetAffinityFails(p) \/ OpenDevice(p)
  BY <1>2 DEF TypeOK, FlushInv, SetAffinityFails, OpenDevice
<1>3. CASE WritePages(p)
  BY <1>3 DEF TypeOK, FlushInv, WritePages
<1>4. CASE TriggerIcIallu(p)
  BY <1>4 DEF TypeOK, FlushInv, TriggerIcIallu, Invalidated
<1>5. CASE TimingRead(p) \/ TimingWrite(p)
  BY <1>5 DEF TypeOK, FlushInv, TimingRead, TimingWrite
<1>6. CASE Flush(p)
  BY <1>6 DEF TypeOK, FlushInv, Flush, Invalidated
<1>7. CASE FlushFails(p)
  BY <1>7 DEF TypeOK, FlushInv, FlushFails
<1>8. CASE FlushGone(p)
  BY <1>8 DEF TypeOK, FlushInv, FlushGone, Forget
<1>9. CASE Trap(p) \/ PageFaults(p) \/ End(p)
  BY <1>9 DEF TypeOK, FlushInv, Trap, PageFaults, End, Forget
<1>10. CASE StartReading(p) \/ EndReading(p)
  BY <1>10 DEF TypeOK, FlushInv, StartReading, EndReading
<1>13. CASE PageRead(p) \/ PageWrite(p)
  BY <1>13 DEF TypeOK, FlushInv, PageRead, PageWrite
<1>11. CASE Returned(p)
  BY <1>11 DEF TypeOK, FlushInv, Returned, Forget, Invalidated
<1>12. CASE Migrate(p)
  <2>1. pc[p] \in {"ended", "main"}
    BY <1>12, OnCpu0
  <2> QED
    BY <1>12, <2>1 DEF TypeOK, FlushInv, Migrate
<1> QED
  BY <1>1, <1>2, <1>3, <1>4, <1>5, <1>6, <1>7, <1>8, <1>9, <1>10, <1>11, <1>12, <1>13
     DEF Process

-----------------------------------------------------------------------------
(* The counters *)

LEMMA AccessStep ==
    ASSUME TypeOK, AccessInv, PmuModule
    PROVE  AccessInv'
  BY DEF TypeOK, ArmPmuTypeOK, AccessInv, PmuModule, Insmod, Rmmod, EachCpuDone,
         enable_cpu_counters, disable_cpu_counters

\* No process changes who has access, nor which counters are enabled.
LEMMA ProcessLeavesAccess ==
    ASSUME NEW p \in Processes, Process(p)
    PROVE  UNCHANGED <<pmuserenr, pmcnten, arm_pmu, interrupting, icVars>>
  BY DEF Process, pmuVars, Start, SetAffinity, SetAffinityFails, OpenDevice, WritePages,
         TriggerIcIallu, TimingRead, TimingWrite, Trap, Flush, FlushFails, FlushGone,
         PageRead, PageWrite, StartReading, EndReading, PageFaults, Returned, End, Migrate

LEMMA WindowPmu ==
    ASSUME TypeOK, WindowInv, PmuModule
    PROVE  WindowInv'
<1> SUFFICES ASSUME NEW q \in Processes
             PROVE  Window(q)'
  BY DEF WindowInv
<1>0. Window(q) /\ q # "arm_pmu"
  BY ModuleAssumption DEF WindowInv
<1>1. CASE (Insmod \/ Rmmod \/ EachCpuDone) /\ UNCHANGED <<icVars, procVars>>
  BY <1>0, <1>1 DEF Window, Measuring, Counts, Insmod, Rmmod, EachCpuDone, procVars
<1>2. ASSUME NEW c \in Cpus, enable_cpu_counters(c),
             exact' = Touched(c, EnableValue(c)), meddlers' = MeddledBy("arm_pmu", c),
             UNCHANGED <<icVars, pc, affinity, cpu, fd, value, flushed, stale, first>>
      PROVE  Window(q)'
  <2>1. CASE Measuring(q) /\ cpu[q] = c
    <3>1. meddlers'[q] # {}
      BY <1>0, <1>2, <2>1 DEF MeddledBy
    <3> QED
      BY <1>0, <1>2, <2>1, <3>1 DEF Window, Measuring
  <2>2. CASE ~(Measuring(q) /\ cpu[q] = c)
    <3>1. meddlers'[q] = meddlers[q]
      BY <1>2, <2>2 DEF MeddledBy
    <3>2. exact'[q] = (exact[q] /\ ~(first[q] = c /\ Spoils(c, EnableValue(c))))
      BY <1>2 DEF Touched
    <3>3. pc[q] = "page" => first[q] # c
      BY <1>0, <2>2 DEF Window, Measuring
    <3>4. pc[q] = "returned" => first[q] # c
      BY <1>0, NoneAssumption DEF Window
    <3>5. Measuring(q) => cpu[q] # c
      BY <2>2
    <3>6. /\ pc[q] = "page" => exact'[q] = exact[q]
          /\ pc[q] = "returned" => exact'[q] = exact[q]
      BY <3>2, <3>3, <3>4 DEF TypeOK
    <3>7. cpu[q] # c => /\ Counts(cpu[q])' = Counts(cpu[q])
                        /\ pmuserenr'[cpu[q]] = pmuserenr[cpu[q]]
      BY <1>2 DEF TypeOK, ArmPmuTypeOK, Counts, enable_cpu_counters, PmcrAfter
    <3> QED
      BY <1>0, <1>2, <3>1, <3>5, <3>6, <3>7 DEF Window, Measuring
  <2> QED
    BY <2>1, <2>2
<1>3. ASSUME NEW c \in Cpus, disable_cpu_counters(c),
             exact' = Touched(c, DisableValue(c)),
             UNCHANGED <<icVars, pc, affinity, cpu, fd, value, flushed, stale, first, meddlers>>
      PROVE  Window(q)'
  <2>1. exact'[q] = (exact[q] /\ ~(first[q] = c /\ Spoils(c, DisableValue(c))))
    BY <1>3 DEF Touched
  <2>2. pc[q] = "returned" => exact'[q] = exact[q]
    BY <1>0, <2>1, NoneAssumption DEF Window, TypeOK
  <2>3. CASE cpu[q] = c
    <3>1. ~pmuserenr'[cpu'[q]]
      BY <1>3, <2>3 DEF TypeOK, ArmPmuTypeOK, disable_cpu_counters
    <3> QED
      BY <1>0, <1>3, <2>2, <3>1 DEF Window, Measuring
  <2>4. CASE cpu[q] # c
    <3>1. Counts(cpu[q])' = Counts(cpu[q]) /\ pmuserenr'[cpu[q]] = pmuserenr[cpu[q]]
      BY <1>3, <2>4 DEF TypeOK, ArmPmuTypeOK, Counts, disable_cpu_counters, PmcrAfter
    <3>2. pc[q] = "page" => exact'[q] = exact[q]
      BY <1>0, <2>1, <2>4 DEF Window, TypeOK
    <3> QED
      BY <1>0, <1>3, <2>2, <3>1, <3>2 DEF Window, Measuring
  <2> QED
    BY <2>3, <2>4
<1> QED
  BY <1>1, <1>2, <1>3 DEF PmuModule

\* A process writes a value to PMCR_EL0 of the CPU it is on.
PmcrWritten(p, val) ==
    /\ pmuserenr[cpu[p]]
    /\ pmcr' = PmcrAfter(cpu[p], val)
    /\ exact' = Touched(cpu[p], val)
    /\ meddlers' = MeddledBy(p, cpu[p])
    /\ value' = [value EXCEPT ![p] = {}]
    /\ \A q \in Processes : q # p => pc'[q] = pc[q]
    /\ UNCHANGED <<pmuserenr, pmcnten, cpu, first>>

\* Those who measure there have a meddler; nobody else notices.
LEMMA OthersWindow ==
    ASSUME TypeOK, NEW p \in Processes, NEW val, PmcrWritten(p, val),
           NEW q \in Processes, q # p, Window(q)
    PROVE  Window(q)'
<1> DEFINE c == cpu[p]
<1>0. c \in Cpus /\ pc'[q] = pc[q] /\ value'[q] = value[q]
  BY DEF TypeOK, PmcrWritten
<1>1. CASE Measuring(q) /\ cpu[q] = c
  <2>1. meddlers'[q] # {}
    BY <1>1 DEF PmcrWritten, MeddledBy
  <2> QED
    BY <1>0, <1>1, <2>1 DEF Window, Measuring, PmcrWritten
<1>2. CASE ~(Measuring(q) /\ cpu[q] = c)
  <2>1. meddlers'[q] = meddlers[q]
    BY <1>2 DEF PmcrWritten, MeddledBy
  <2>2. exact'[q] = (exact[q] /\ ~(first[q] = c /\ Spoils(c, val)))
    BY DEF PmcrWritten, Touched
  <2>3. /\ pc[q] = "page" => exact'[q] = exact[q]
        /\ pc[q] = "returned" => exact'[q] = exact[q]
    BY <1>0, <1>2, <2>2, NoneAssumption DEF Window, Measuring, TypeOK
  <2>4. cpu[q] # c => Counts(cpu[q])' = Counts(cpu[q])
    BY DEF TypeOK, ArmPmuTypeOK, Counts, PmcrAfter, PmcrWritten
  <2> QED
    BY <1>0, <1>2, <2>1, <2>3, <2>4 DEF Window, Measuring, PmcrWritten
<1> QED
  BY <1>1, <1>2

LEMMA WindowProcess ==
    ASSUME TypeOK, Pinned, AccessInv, WindowInv, NEW p \in Processes, Process(p)
    PROVE  WindowInv'
<1> USE DEF Goto
<1> SUFFICES ASSUME NEW q \in Processes
             PROVE  Window(q)'
  BY DEF WindowInv
<1>0. Window(q)
  BY DEF WindowInv
<1>1. CASE Start(p)
  BY <1>0, <1>1 DEF Window, TypeOK, Measuring, Counts, Start, pmuVars, counting
<1>2. CASE SetAffinity(p)
  BY <1>0, <1>2 DEF Window, TypeOK, Measuring, Counts, SetAffinity, pmuVars, counting
<1>3. CASE SetAffinityFails(p) \/ OpenDevice(p) \/ WritePages(p) \/ TriggerIcIallu(p)
  BY <1>0, <1>3 DEF Window, TypeOK, Measuring, Counts, SetAffinityFails, OpenDevice,
                    WritePages, TriggerIcIallu, pmuVars, counting
<1>4. CASE TimingRead(p)
  BY <1>0, <1>4 DEF Window, TypeOK, Measuring, Counts, TimingRead, pmuVars, counting
<1>5. CASE TimingWrite(p)
  <2>1. PmcrWritten(p, TimingValue(p)) /\ pc[p] = "write" /\ pc'[p] = "flush"
    BY <1>5 DEF TimingWrite, PmcrWritten, TypeOK
  <2>2. CASE q # p
    BY <1>0, <2>1, <2>2, OthersWindow
  <2>3. CASE q = p
    <3>1. Counts(cpu[p])'
      <4>1. TimingValue(p) \cap Stored \in SUBSET Stored /\ "E" \in TimingValue(p) \cap Stored
            /\ "D" \notin TimingValue(p) \cap Stored
        BY DEF TimingValue, Stored, PmcrBits
      <4> QED
        BY <2>1, <4>1 DEF TypeOK, ArmPmuTypeOK, AccessInv, PmcrWritten, PmcrAfter, Counts
    <3> QED
      BY <1>0, <2>1, <2>3, <3>1 DEF Window, Measuring, Counts, PmcrWritten
  <2> QED
    BY <2>2, <2>3
<1>13. CASE PageRead(p)
  <2>1. CASE q = p /\ meddlers[p] = {}
    <3>1. value'[p] = pmcr[cpu[p]] /\ "D" \notin pmcr[cpu[p]]
      BY <1>0, <1>13, <2>1 DEF Window, TypeOK, Measuring, Counts, PageRead
    <3> QED
      BY <1>0, <1>13, <2>1, <3>1 DEF Window, TypeOK, Measuring, Counts, PageRead, pmuVars,
                                     counting
  <2>2. CASE ~(q = p /\ meddlers[p] = {})
    BY <1>0, <1>13, <2>2 DEF Window, TypeOK, Measuring, Counts, PageRead, pmuVars, counting
  <2> QED
    BY <2>1, <2>2
<1>14. CASE PageWrite(p)
  <2>1. PmcrWritten(p, PageValue(p)) /\ pc[p] = "pmcr" /\ pc'[p] = "start"
    BY <1>14 DEF PageWrite, PmcrWritten, TypeOK
  <2>2. CASE q # p
    BY <1>0, <2>1, <2>2, OthersWindow
  <2>3. CASE q = p
    <3>1. meddlers'[p] = meddlers[p]
      BY <2>1 DEF PmcrWritten, MeddledBy
    <3>2. ASSUME meddlers[p] = {} PROVE Counts(cpu[p])'
      <4>1. "D" \notin value[p]
        BY <1>0, <2>1, <2>3, <3>2 DEF Window
      <4>2. "E" \in PageValue(p) \cap Stored /\ "D" \notin PageValue(p) \cap Stored
        BY <4>1 DEF PageValue, Stored, PmcrBits
      <4> QED
        BY <2>1, <4>2 DEF TypeOK, ArmPmuTypeOK, AccessInv, PmcrWritten, PmcrAfter, Counts
    <3> QED
      BY <1>0, <2>1, <2>3, <3>1, <3>2 DEF Window, Measuring, Counts, PmcrWritten
  <2> QED
    BY <2>2, <2>3
<1>6. CASE Trap(p) \/ PageFaults(p) \/ End(p)
  BY <1>0, <1>6 DEF Window, TypeOK, Measuring, Counts, Trap, PageFaults, End, Forget, pmuVars
<1>7. CASE Flush(p) \/ FlushFails(p)
  BY <1>0, <1>7 DEF Window, TypeOK, Measuring, Counts, Flush, FlushFails, pmuVars, counting
<1>8. CASE FlushGone(p)
  BY <1>0, <1>8 DEF Window, TypeOK, Measuring, Counts, FlushGone, Forget, pmuVars, counting
<1>9. CASE StartReading(p)
  BY <1>0, <1>9 DEF Window, TypeOK, Measuring, Counts, StartReading, pmuVars
<1>10. CASE EndReading(p)
  BY <1>0, <1>10 DEF Window, TypeOK, Measuring, Counts, EndReading, pmuVars
<1>11. CASE Returned(p)
  BY <1>0, <1>11 DEF Window, TypeOK, Measuring, Counts, Returned, Forget, pmuVars
<1>12. CASE Migrate(p)
  <2>1. pc[p] \in {"ended", "main"}
    BY <1>12, OnCpu0
  <2> QED
    BY <1>0, <1>12, <2>1 DEF Window, TypeOK, Measuring, Counts, Migrate, pmuVars, counting
<1> QED
  BY <1>1, <1>2, <1>3, <1>4, <1>5, <1>6, <1>7, <1>8, <1>9, <1>10, <1>11, <1>12, <1>13, <1>14
     DEF Process

-----------------------------------------------------------------------------
(* The theorems *)

LEMMA InvInit == Init => Inv
<1> SUFFICES ASSUME Init
             PROVE  Inv
  OBVIOUS
<1>1. TypeOK
  BY TypeInit
<1>2. Pinned /\ FlushInv /\ WindowInv
  BY DEF Init, Pinned, FlushInv, WindowInv, Window, Measuring
<1>3. AccessInv
  BY DEF Init, ArmPmuInit, AccessInv
<1>4. IcInv
  BY DEF Init, IcIalluInit, IcInv, RegisteredBefore
<1> QED
  BY <1>1, <1>2, <1>3, <1>4 DEF Inv

LEMMA InvStep == Inv /\ [Next]_vars => Inv'
<1> SUFFICES ASSUME Inv, [Next]_vars
             PROVE  Inv'
  OBVIOUS
<1>0. TypeOK /\ Pinned /\ AccessInv /\ WindowInv /\ FlushInv /\ IcInv
  BY DEF Inv
<1>1. CASE PmuModule
  <2>1. TypeOK'
    BY <1>0, <1>1, PmuType
  <2>2. AccessInv' /\ WindowInv'
    BY <1>0, <1>1, AccessStep, WindowPmu
  <2>3. UNCHANGED <<icVars, pc, affinity, cpu, fd, value, flushed, stale, first>>
    BY <1>1, ModulesFrame
  <2>4. Pinned' /\ FlushInv' /\ IcInv'
    BY <1>0, <2>3 DEF Pinned, FlushInv, IcInv, icVars
  <2> QED
    BY <2>1, <2>2, <2>4 DEF Inv
<1>2. CASE IcModule
  <2>1. TypeOK'
    BY <1>0, <1>2, IcType
  <2>2. IcInv'
    BY <1>0, <1>2, IcStep
  <2>3. UNCHANGED <<pmuVars, pc, affinity, cpu, value, flushed, stale, counting>>
    BY <1>2, ModulesFrame
  <2>4. Pinned' /\ FlushInv' /\ AccessInv'
    BY <1>0, <2>3 DEF Pinned, FlushInv, AccessInv, pmuVars
  <2>5. WindowInv'
    BY <1>0, <2>3 DEF WindowInv, Window, Measuring, Counts, pmuVars, counting
  <2> QED
    BY <2>1, <2>2, <2>4, <2>5 DEF Inv
<1>3. ASSUME NEW p \in Processes, Process(p)
      PROVE  Inv'
  <2>1. TypeOK'
    BY <1>0, <1>3, ProcessType
  <2>2. Pinned' /\ FlushInv'
    BY <1>0, <1>3, PinnedStep, FlushStep
  <2>3. WindowInv'
    BY <1>0, <1>3, WindowProcess
  <2>4. UNCHANGED <<pmuserenr, pmcnten, arm_pmu, interrupting, icVars>>
    BY <1>3, ProcessLeavesAccess
  <2>5. AccessInv' /\ IcInv'
    BY <1>0, <2>4 DEF AccessInv, IcInv, icVars
  <2> QED
    BY <2>1, <2>2, <2>3, <2>5 DEF Inv
<1>4. CASE UNCHANGED vars
  <2>1. TypeOK' /\ Pinned' /\ FlushInv'
    BY <1>0, <1>4 DEF vars, pmuVars, icVars, procVars, TypeOK, ArmPmuTypeOK,
                      IcIalluTypeOK, Pinned, FlushInv
  <2>2. AccessInv' /\ IcInv'
    BY <1>0, <1>4 DEF vars, pmuVars, icVars, AccessInv, IcInv
  <2>3. WindowInv'
    BY <1>0, <1>4 DEF vars, pmuVars, procVars, WindowInv, Window, Measuring, Counts
  <2> QED
    BY <2>1, <2>2, <2>3 DEF Inv
<1> QED
  BY <1>1, <1>2, <1>3, <1>4 DEF Next

\* The types, the pinning, and what every process may rely on while it measures
\* hold in every state, for all CPUs and processes.
THEOREM Invariance == Spec => []Inv
<1> QED
  BY InvInit, InvStep, PTL DEF Spec

\* A difference that ExecuteCodePage returns was counted by one CPU, in cycles,
\* from the first reading to the second, unless arm_pmu or another process wrote
\* PMCR_EL0 of that CPU since its arm_v8_timing_init.
THEOREM Measurements == Spec => []MeasuresOneCounter
<1>1. Inv => MeasuresOneCounter
  BY DEF Inv, WindowInv, Window, MeasuresOneCounter
<1> QED
  BY <1>1, Invariance, PTL

\* A page whose maintenance succeeded is run from an instruction cache without
\* remains, wherever the scheduler and the loading of modules leave it.
THEOREM Maintenance == Spec => []FlushedWhereRun
<1>1. Inv => FlushedWhereRun
  BY DEF Inv, FlushInv, FlushedWhereRun
<1> QED
  BY <1>1, Invariance, PTL

\* Neither a failing ic_iallu_init nor ic_iallu_exit leaves anything registered.
THEOREM Registration == Spec => []NothingLeftBehind
<1>1. Inv => NothingLeftBehind
  BY DEF Inv, TypeOK, IcIalluTypeOK, IcInv, RegisteredBefore, Registrations,
         NothingLeftBehind, CanOpen
<1> QED
  BY <1>1, Invariance, PTL
=============================================================================
