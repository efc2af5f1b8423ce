------------------------------- MODULE ArmPmu -------------------------------
(***************************************************************************)
(* The kernel module of src/kernel_moudle/arm_pmu_module/arm_pmu.c, which  *)
(* opens the cycle counter of every CPU to programs, and the registers it  *)
(* shares with them.                                                       *)
(*                                                                         *)
(* PMCR_EL0 is the set of its bits that are one.  P and C are no state:    *)
(* they read as zero, and a one written to C zeroes the cycle counter.     *)
(* Event counters, which P resets, and interrupts, which pmintenset_el1    *)
(* enables, are used by nothing here; writing zeroes to that register, as  *)
(* enable_cpu_counters does, changes nothing.                              *)
(***************************************************************************)
EXTENDS Naturals, FiniteSets

CONSTANTS
    Cpus,
    FirstPmcr       \* PMCR_EL0 of the CPUs when the machine has started

PmcrBits == {"E", "P", "C", "D", "X", "DP", "LC"}
Stored   == PmcrBits \ {"P", "C"}

ASSUME FirstPmcrAssumption == FirstPmcr \subseteq SUBSET Stored

VARIABLES
    pmcr,           \* PMCR_EL0 of each CPU
    pmuserenr,      \* PMUSERENR_EL0 of each CPU: do programs have access
    pmcnten,        \* PMCNTENSET_EL0 of each CPU: is the cycle counter enabled
    arm_pmu,        \* the module: see ArmPmuTypeOK
    interrupting    \* CPUs on which the function of on_each_cpu has yet to run

pmuVars == <<pmcr, pmuserenr, pmcnten, arm_pmu, interrupting>>

ArmPmuInit ==
    /\ \E bits \in FirstPmcr : pmcr = [c \in Cpus |-> bits]
    /\ pmuserenr = [c \in Cpus |-> FALSE]
    /\ pmcnten = [c \in Cpus |-> FALSE]
    /\ arm_pmu = "unloaded"
    /\ interrupting = {}

\* ARMV8_PMCR_MASK has bits 0 to 5: LC is never written as one.
ARMV8_PMCR_MASK == PmcrBits \ {"LC"}

PmcrAfter(c, val) == [pmcr EXCEPT ![c] = val \cap Stored]

-----------------------------------------------------------------------------
(* Loading and unloading *)

\* on_each_cpu interrupts every CPU, in no order, and waits for all of them.
Insmod ==
    /\ arm_pmu = "unloaded"
    /\ arm_pmu' = "loading"
    /\ interrupting' = Cpus
    /\ UNCHANGED <<pmcr, pmuserenr, pmcnten>>

\* `read | E | LC & ~D` is `read | E | LC`, and the mask takes LC out again.
EnableValue(c) == (pmcr[c] \cup {"E", "LC"}) \cap ARMV8_PMCR_MASK

enable_cpu_counters(c) ==
    /\ arm_pmu = "loading"
    /\ c \in interrupting
    /\ pmuserenr' = [pmuserenr EXCEPT ![c] = TRUE]
    /\ pmcnten' = [pmcnten EXCEPT ![c] = TRUE]
    /\ pmcr' = PmcrAfter(c, EnableValue(c))
    /\ interrupting' = interrupting \ {c}
    /\ UNCHANGED arm_pmu

Rmmod ==
    /\ arm_pmu = "loaded"
    /\ arm_pmu' = "unloading"
    /\ interrupting' = Cpus
    /\ UNCHANGED <<pmcr, pmuserenr, pmcnten>>

\* `read | ~E`: every bit but E is set, and E stays what it was.
DisableValue(c) == (pmcr[c] \cup (PmcrBits \ {"E"})) \cap ARMV8_PMCR_MASK

\* Mutant: programs keep their access.
disable_cpu_counters_KeepsAccess(c) ==
    /\ arm_pmu = "unloading"
    /\ c \in interrupting
    /\ pmcr' = PmcrAfter(c, DisableValue(c))
    /\ interrupting' = interrupting \ {c}
    /\ UNCHANGED <<pmuserenr, pmcnten, arm_pmu>>

disable_cpu_counters(c) ==
    /\ arm_pmu = "unloading"
    /\ c \in interrupting
    /\ pmcr' = PmcrAfter(c, DisableValue(c))
    /\ pmuserenr' = [pmuserenr EXCEPT ![c] = FALSE]
    /\ interrupting' = interrupting \ {c}
    /\ UNCHANGED <<pmcnten, arm_pmu>>

\* Mutant: on_each_cpu does not wait.
EachCpuDone_NoWait ==
    /\ arm_pmu \in {"loading", "unloading"}
    /\ arm_pmu' = IF arm_pmu = "loading" THEN "loaded" ELSE "unloaded"
    /\ UNCHANGED <<pmcr, pmuserenr, pmcnten, interrupting>>

\* on_each_cpu returns, and with it init or fini.
EachCpuDone ==
    /\ arm_pmu \in {"loading", "unloading"}
    /\ interrupting = {}
    /\ arm_pmu' = IF arm_pmu = "loading" THEN "loaded" ELSE "unloaded"
    /\ UNCHANGED <<pmcr, pmuserenr, pmcnten, interrupting>>

ArmPmuTypeOK ==
    /\ pmcr \in [Cpus -> SUBSET Stored]
    /\ pmuserenr \in [Cpus -> BOOLEAN]
    /\ pmcnten \in [Cpus -> BOOLEAN]
    /\ arm_pmu \in {"unloaded", "loading", "loaded", "unloading"}
    /\ interrupting \subseteq Cpus
    /\ arm_pmu \in {"unloaded", "loaded"} => interrupting = {}
=============================================================================
