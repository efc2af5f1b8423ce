------------------------------ MODULE Platform ------------------------------
(***************************************************************************)
(* Processes of Osiris on a machine with several CPUs, and the two kernel  *)
(* modules they measure with, which may be loaded and removed at any time. *)
(*                                                                         *)
(* A process pins itself to CPU 0, opens the device of IcIallu, and then   *)
(* writes code pages and runs them: ExecuteCodePage sets PMCR_EL0 up,      *)
(* invalidates the instruction cache and calls the page, which sets        *)
(* PMCR_EL0 once more and reads the cycle counter twice.  The scheduler    *)
(* moves a process within its affinity between any two steps.  Executor    *)
(* and ExecuteCodePage are about what one process does with the answers;   *)
(* this module is about whether the two readings and the cache belong to   *)
(* the same CPU, and to one measurement.                                   *)
(***************************************************************************)
EXTENDS ArmPmu, IcIallu

CONSTANTS
    Cpu0,           \* the CPU of CPU_SET(0, &set)
    Processes,
    None

ASSUME Cpu0Assumption == Cpu0 \in Cpus
ASSUME NoneAssumption == None \notin Cpus
ASSUME ModuleAssumption == "arm_pmu" \notin Processes

VARIABLES
    pc,             \* what each process does next: see TypeOK
    affinity,       \* the CPUs it may run on
    cpu,            \* the CPU it runs on
    fd,             \* ic_iallu_fd_: "closed", "open", or "gone" with the module
    value,          \* of arm_v8_timing_init, or X27 of the page: what it has read
                    \* from PMCR_EL0 and not yet written
    flushed,        \* the write before the page succeeded
    stale,          \* of each CPU: the processes of whose pages its instruction
                    \* cache may hold what they held before
    first,          \* the CPU of the first reading, None before it
    exact,          \* since the first reading, that CPU's counter has counted
                    \* every cycle
    meddlers        \* who wrote PMCR_EL0 of the process's CPU since its
                    \* arm_v8_timing_init: "arm_pmu" by being loaded, or processes

procVars == <<pc, affinity, cpu, fd, value, flushed, stale, first, exact, meddlers>>
vars     == <<pmuVars, icVars, procVars>>
counting == <<first, exact, meddlers>>

Init ==
    /\ ArmPmuInit
    /\ IcIalluInit
    /\ pc = [p \in Processes |-> "ended"]
    /\ affinity = [p \in Processes |-> Cpus]
    /\ cpu = [p \in Processes |-> Cpu0]
    /\ fd = [p \in Processes |-> "closed"]
    /\ value = [p \in Processes |-> {}]
    /\ flushed = [p \in Processes |-> FALSE]
    /\ stale = [c \in Cpus |-> {}]
    /\ first = [p \in Processes |-> None]
    /\ exact = [p \in Processes |-> FALSE]
    /\ meddlers = [p \in Processes |-> {}]

Goto(p, s) == pc' = [pc EXCEPT ![p] = s]

-----------------------------------------------------------------------------
(* The counters *)

Counts(c) == "E" \in pmcr[c] /\ "D" \notin pmcr[c] /\ pmcnten[c]

\* Writing val to PMCR_EL0 of c spoils a difference that is being measured there.
Spoils(c, val) == "C" \in val \/ val \cap {"E", "D"} # pmcr[c] \cap {"E", "D"}

\* The processes between arm_v8_timing_init and the second reading.
Measuring(p) == pc[p] \in {"flush", "enter", "pmcr", "start", "page"}

\* val is written to PMCR_EL0 of c.
Touched(c, val) == [q \in Processes |-> exact[q] /\ ~(first[q] = c /\ Spoils(c, val))]

\* It is who that writes, for the others that measure there.
MeddledBy(who, c) ==
    [q \in Processes |-> IF q # who /\ Measuring(q) /\ cpu[q] = c
                         THEN meddlers[q] \cup {who} ELSE meddlers[q]]

PmuModule ==
    \/ /\ Insmod \/ Rmmod \/ EachCpuDone
       /\ UNCHANGED <<icVars, procVars>>
    \/ \E c \in Cpus :
          /\ enable_cpu_counters(c)
          /\ exact' = Touched(c, EnableValue(c))
          /\ meddlers' = MeddledBy("arm_pmu", c)
          /\ UNCHANGED <<icVars, pc, affinity, cpu, fd, value, flushed, stale, first>>
    \/ \E c \in Cpus :
          /\ disable_cpu_counters(c)
          /\ exact' = Touched(c, DisableValue(c))
          /\ UNCHANGED <<icVars, pc, affinity, cpu, fd, value, flushed, stale, first, meddlers>>

\* A descriptor outlives the module whose device it is for.
IcModule ==
    /\ \/ IcInsmod \/ Register \/ RegisterFails \/ IcRmmod \/ Unregister \/ IcGone
    /\ fd' = [p \in Processes |->
                IF fd[p] = "open" /\ ic_iallu = "unloading" /\ ic_iallu' = "unloaded"
                THEN "gone" ELSE fd[p]]
    /\ UNCHANGED <<pmuVars, pc, affinity, cpu, value, flushed, stale, counting>>

-----------------------------------------------------------------------------
(* A process of Osiris *)

\* taskset, or nothing, gives it its first affinity.
Start(p) ==
    /\ pc[p] = "ended"
    /\ \E cpus \in SUBSET Cpus : \E c \in cpus :
          /\ affinity' = [affinity EXCEPT ![p] = cpus]
          /\ cpu' = [cpu EXCEPT ![p] = c]
    /\ Goto(p, "main")
    /\ UNCHANGED <<pmuVars, icVars, fd, value, flushed, stale, counting>>

\* Mutant: the affinity is left to taskset.
SetAffinity_Not(p) ==
    /\ pc[p] = "main"
    /\ Goto(p, "executor")
    /\ UNCHANGED <<pmuVars, icVars, affinity, cpu, fd, value, flushed, stale, counting>>

\* sched_setaffinity moves the process at once.  (ParseArguments comes after it.)
SetAffinity(p) ==
    /\ pc[p] = "main"
    /\ affinity' = [affinity EXCEPT ![p] = {Cpu0}]
    /\ cpu' = [cpu EXCEPT ![p] = Cpu0]
    /\ Goto(p, "executor")
    /\ UNCHANGED <<pmuVars, icVars, fd, value, flushed, stale, counting>>

\* CPU 0 is not among the CPUs that the process may be given.
SetAffinityFails(p) ==
    /\ pc[p] = "main"
    /\ Goto(p, "ended")
    /\ UNCHANGED <<pmuVars, icVars, affinity, cpu, fd, value, flushed, stale, counting>>

\* The constructor of Executor: without the device the process exits.
OpenDevice(p) ==
    /\ pc[p] = "executor"
    /\ IF CanOpen THEN fd' = [fd EXCEPT ![p] = "open"] /\ Goto(p, "build")
                  ELSE UNCHANGED fd /\ Goto(p, "ended")
    /\ UNCHANGED <<pmuVars, icVars, affinity, cpu, value, flushed, stale, counting>>

\* A test writes its pages: any CPU may still have the ones before in its cache.
WritePages(p) ==
    /\ pc[p] = "build"
    /\ stale' = [c \in Cpus |-> stale[c] \cup {p}]
    /\ Goto(p, "trigger")
    /\ UNCHANGED <<pmuVars, icVars, affinity, cpu, fd, value, flushed, counting>>

\* ic_iallu_write runs on the CPU of its caller, for all pages.
Invalidated(p) == [stale EXCEPT ![cpu[p]] = {}]

\* trigger_ic_iallu opens the device once more, writes and closes; a failure goes
\* unnoticed.
TriggerIcIallu(p) ==
    /\ pc[p] = "trigger"
    /\ stale' = IF CanOpen THEN Invalidated(p) ELSE stale
    /\ Goto(p, "read")
    /\ UNCHANGED <<pmuVars, icVars, affinity, cpu, fd, value, flushed, counting>>

\* The measurement is over, or given up.
Forget(p) ==
    /\ first' = [first EXCEPT ![p] = None]
    /\ exact' = [exact EXCEPT ![p] = FALSE]
    /\ meddlers' = [meddlers EXCEPT ![p] = {}]
    /\ value' = [value EXCEPT ![p] = {}]
    /\ flushed' = [flushed EXCEPT ![p] = FALSE]

\* Without access every use of the counters raises SIGILL, and the test ends.
Trap(p) ==
    /\ pc[p] \in {"read", "write", "enter", "pmcr", "start", "page"}
    /\ ~pmuserenr[cpu[p]]
    /\ Goto(p, "build")
    /\ Forget(p)
    /\ UNCHANGED <<pmuVars, icVars, affinity, cpu, fd, stale>>

\* arm_v8_timing_init: MRS, ...
TimingRead(p) ==
    /\ pc[p] = "read"
    /\ pmuserenr[cpu[p]]
    /\ value' = [value EXCEPT ![p] = pmcr[cpu[p]]]
    /\ Goto(p, "write")
    /\ UNCHANGED <<pmuVars, icVars, affinity, cpu, fd, flushed, stale, counting>>

\* Mutant: the divider stays as it was found.
TimingValue_KeepsDivider(p) == value[p] \cup {"E", "C", "P"}

TimingValue(p) == (value[p] \cup {"E", "C", "P"}) \ {"D"}

\* ... and MSR, of a value that may be older than an interrupt of arm_pmu.
TimingWrite(p) ==
    /\ pc[p] = "write"
    /\ pmuserenr[cpu[p]]
    /\ pmcr' = PmcrAfter(cpu[p], TimingValue(p))
    /\ exact' = Touched(cpu[p], TimingValue(p))
    /\ meddlers' = MeddledBy(p, cpu[p])
    /\ value' = [value EXCEPT ![p] = {}]
    /\ Goto(p, "flush")
    /\ UNCHANGED <<pmuserenr, pmcnten, arm_pmu, interrupting, icVars,
                   affinity, cpu, fd, flushed, stale, first>>

\* The write of ExecuteCodePage, which logs a failure and goes on.
Flush(p) ==
    /\ pc[p] = "flush"
    /\ fd[p] = "open"
    /\ stale' = Invalidated(p)
    /\ flushed' = [flushed EXCEPT ![p] = TRUE]
    /\ Goto(p, "enter")
    /\ UNCHANGED <<pmuVars, icVars, affinity, cpu, fd, value, counting>>

FlushFails(p) ==
    /\ pc[p] = "flush"
    /\ fd[p] = "open"
    /\ flushed' = [flushed EXCEPT ![p] = FALSE]
    /\ Goto(p, "enter")
    /\ UNCHANGED <<pmuVars, icVars, affinity, cpu, fd, value, stale, counting>>

\* The kernel calls a function that is no longer there.  What happens is
\* undefined: the process dies, or something else has been done.
FlushGone(p) ==
    /\ pc[p] = "flush"
    /\ fd[p] = "gone"
    /\ \/ Goto(p, "ended") /\ fd' = [fd EXCEPT ![p] = "closed"] /\ Forget(p)
       \/ Goto(p, "enter") /\ UNCHANGED <<fd, value, flushed, counting>>
    /\ UNCHANGED <<pmuVars, icVars, affinity, cpu, stale>>

\* The page sets the counter up once more: MRS X27, PMCR_EL0, ...
PageRead(p) ==
    /\ pc[p] = "enter"
    /\ pmuserenr[cpu[p]]
    /\ value' = [value EXCEPT ![p] = pmcr[cpu[p]]]
    /\ Goto(p, "pmcr")
    /\ UNCHANGED <<pmuVars, icVars, affinity, cpu, fd, flushed, stale, counting>>

\* ORR X27, X27, #7: the divider stays as it was read.
PageValue(p) == value[p] \cup {"E", "C", "P"}

\* ... and MSR PMCR_EL0, X27, which zeroes the counter of whoever measures there.
PageWrite(p) ==
    /\ pc[p] = "pmcr"
    /\ pmuserenr[cpu[p]]
    /\ pmcr' = PmcrAfter(cpu[p], PageValue(p))
    /\ exact' = Touched(cpu[p], PageValue(p))
    /\ meddlers' = MeddledBy(p, cpu[p])
    /\ value' = [value EXCEPT ![p] = {}]
    /\ Goto(p, "start")
    /\ UNCHANGED <<pmuserenr, pmcnten, arm_pmu, interrupting, icVars,
                   affinity, cpu, fd, flushed, stale, first>>

StartReading(p) ==
    /\ pc[p] = "start"
    /\ pmuserenr[cpu[p]]
    /\ first' = [first EXCEPT ![p] = cpu[p]]
    /\ exact' = [exact EXCEPT ![p] = Counts(cpu[p])]
    /\ Goto(p, "page")
    /\ UNCHANGED <<pmuVars, icVars, affinity, cpu, fd, value, flushed, stale, meddlers>>

\* The sequences under test are not reached, or raise a signal.
PageFaults(p) ==
    /\ pc[p] \in {"enter", "pmcr", "start", "page"}
    /\ Goto(p, "build")
    /\ Forget(p)
    /\ UNCHANGED <<pmuVars, icVars, affinity, cpu, fd, stale>>

\* The second reading: the page returns a difference, which is that of one
\* counter when it was read on the CPU of the first.
EndReading(p) ==
    /\ pc[p] = "page"
    /\ pmuserenr[cpu[p]]
    /\ Goto(p, "returned")
    /\ exact' = [exact EXCEPT ![p] = @ /\ first[p] = cpu[p]]
    /\ first' = [first EXCEPT ![p] = None]
    /\ UNCHANGED <<pmuVars, icVars, affinity, cpu, fd, value, flushed, stale, meddlers>>

\* After one more write ExecuteCodePage returns; the test runs on, or is over.
Returned(p) ==
    /\ pc[p] = "returned"
    /\ \/ Goto(p, "read") \/ Goto(p, "build")
    /\ stale' \in (IF fd[p] = "open" THEN {stale, Invalidated(p)} ELSE {stale})
    /\ Forget(p)
    /\ UNCHANGED <<pmuVars, icVars, affinity, cpu, fd>>

\* The last test, or a signal that nobody handles.
End(p) ==
    /\ pc[p] \notin {"ended", "main", "executor"}
    /\ Goto(p, "ended")
    /\ fd' = [fd EXCEPT ![p] = "closed"]
    /\ Forget(p)
    /\ UNCHANGED <<pmuVars, icVars, affinity, cpu, stale>>

\* The scheduler.
Migrate(p) ==
    /\ pc[p] # "ended"
    /\ \E c \in affinity[p] \ {cpu[p]} : cpu' = [cpu EXCEPT ![p] = c]
    /\ UNCHANGED <<pmuVars, icVars, pc, affinity, fd, value, flushed, stale, counting>>

Process(p) ==
    \/ Start(p) \/ SetAffinity(p) \/ SetAffinityFails(p) \/ OpenDevice(p)
    \/ WritePages(p) \/ TriggerIcIallu(p)
    \/ TimingRead(p) \/ TimingWrite(p) \/ Trap(p)
    \/ Flush(p) \/ FlushFails(p) \/ FlushGone(p)
    \/ PageRead(p) \/ PageWrite(p) \/ StartReading(p) \/ EndReading(p)
    \/ PageFaults(p) \/ Returned(p)
    \/ End(p) \/ Migrate(p)

Next == PmuModule \/ IcModule \/ \E p \in Processes : Process(p)

Spec == Init /\ [][Next]_vars

-----------------------------------------------------------------------------
(* Properties *)

TypeOK ==
    /\ ArmPmuTypeOK
    /\ IcIalluTypeOK
    /\ pc \in [Processes -> {"ended", "main", "executor", "build", "trigger", "read",
                             "write", "flush", "enter", "pmcr", "start", "page", "returned"}]
    /\ affinity \in [Processes -> SUBSET Cpus]
    /\ cpu \in [Processes -> Cpus]
    /\ \A p \in Processes : cpu[p] \in affinity[p]
    /\ fd \in [Processes -> {"closed", "open", "gone"}]
    /\ value \in [Processes -> SUBSET Stored]
    /\ flushed \in [Processes -> BOOLEAN]
    /\ stale \in [Cpus -> SUBSET Processes]
    /\ first \in [Processes -> Cpus \cup {None}]
    /\ exact \in [Processes -> BOOLEAN]
    /\ meddlers \in [Processes -> SUBSET (Processes \cup {"arm_pmu"})]

\* A difference that a page returns is the number of cycles that one CPU counted
\* between the two readings: not of two CPUs, not divided by 64 although a
\* removed arm_pmu leaves the divider set (arm_pmu.c:78), not of a counter that
\* stands still or was zeroed in between.  Only two things go unnoticed: that
\* arm_pmu was removed and loaded again since arm_v8_timing_init, and that
\* another process of Osiris, which is on the same CPU whatever taskset said,
\* wrote PMCR_EL0: in its own arm_v8_timing_init, or at the start of a page.
MeasuresOneCounter ==
    \A p \in Processes : pc[p] = "returned" => exact[p] \/ meddlers[p] # {}

\* A page whose instruction-cache maintenance succeeded runs on a CPU that has
\* nothing of what the page held before in its cache, wherever taskset and the
\* scheduler put the process (ic iallu reaches one CPU only).
FlushedWhereRun ==
    \A p \in Processes :
        pc[p] \in {"pmcr", "start", "page"} /\ flushed[p] => p \notin stale[cpu[p]]

\* Whichever call of ic_iallu_init fails, and after every removal, nothing of
\* the module stays registered (a class or a region that did would make every
\* later load fail), and the device can be opened only while the module is there.
NothingLeftBehind ==
    /\ ic_iallu = "unloaded" => registered = {}
    /\ CanOpen => ic_iallu \in {"loaded", "unloading"}

-----------------------------------------------------------------------------
(* The inductive invariant behind them *)

Pinned == \A p \in Processes : pc[p] \notin {"ended", "main"} => affinity[p] = {Cpu0}

\* A program that may read the cycle counter finds it enabled.
AccessInv == \A c \in Cpus : pmuserenr[c] => pmcnten[c]

\* Since its arm_v8_timing_init, a process that nobody meddled with and that
\* still has access finds the counter as it left it, and its page writes no
\* divider back.
Window(p) ==
    /\ pc[p] = "pmcr" /\ meddlers[p] = {} => "D" \notin value[p]
    /\ Measuring(p) /\ meddlers[p] = {} /\ pmuserenr[cpu[p]] =>
          Counts(cpu[p]) /\ (pc[p] = "page" => exact[p])
    /\ pc[p] = "page" => first[p] = cpu[p]
    /\ pc[p] = "returned" => first[p] = None /\ (exact[p] \/ meddlers[p] # {})

WindowInv == \A p \in Processes : Window(p)

FlushInv ==
    \A p \in Processes :
        /\ flushed[p] => pc[p] \in {"enter", "pmcr", "start", "page", "returned"}
        /\ pc[p] \in {"enter", "pmcr", "start", "page"} /\ flushed[p]
              => p \notin stale[cpu[p]]

\* What is registered at each point of ic_iallu_init and ic_iallu_exit.
RegisteredBefore ==
    [unloaded |-> {}, region |-> {}, class |-> {"region"}, device |-> {"region", "class"},
     cdev |-> {"region", "class", "device"}, loaded |-> Registrations]

IcInv ==
    IF ic_iallu = "unloading"
    THEN registered \in {{}, {"region"}, {"region", "class"},
                         {"region", "class", "device"}, Registrations}
    ELSE registered = RegisteredBefore[ic_iallu]

Inv == TypeOK /\ Pinned /\ AccessInv /\ WindowInv /\ FlushInv /\ IcInv
=============================================================================
