------------------------------ MODULE Executor ------------------------------
(***************************************************************************)
(* The timing tests of src/src/executor.cc: TestTriggerSequence,           *)
(* TestResetSequence and TestSequenceTriple.  A test writes two pages of   *)
(* code, runs each NumRuns times and reduces the cycle counts to one       *)
(* difference.                                                             *)
(*                                                                         *)
(* One run is a SandboxedCall, which ExecuteCodePage is shown to implement.*)
(* The pages are written as data and fetched as instructions, so the model *)
(* keeps the three copies a page has on ARM: what was written, what an     *)
(* instruction fetch that misses reads, and what the instruction cache     *)
(* holds.  The only maintenance the code does is the "ic iallu" of the     *)
(* /dev/ic_iallu driver, whose failure it logs and ignores.                *)
(***************************************************************************)
EXTENDS Integers, Sequences, FiniteSets, Median

CONSTANTS
    Tests,          \* the calls made, see TestShape
    NumRuns,        \* no_testruns
    ResetAmount,    \* reset_executions_amount
    Cycles,         \* cycle counts a page can return
    CutOff,         \* 5000: TestTriggerSequence drops what is slower
    CaughtSignals,  \* signals Executor catches that the pages raise
    OtherSignals,   \* signals it does not catch that the pages raise
    MaxTests        \* bound: number of tests

VARIABLES
    st, last, faults, cause,    \* the sandbox, see SandboxedCall
    idc,        \* hardware: fetches see the data cache (CTR_EL0.IDC)
    mem,        \* each code page as last written
    pou,        \* each code page as a fetch that misses reads it
    icache,     \* each code page in the instruction cache, or Empty
    data,       \* the data pages: "zero", or "dirty" with a page's stores
    phase,      \* "none", "testing": a test is in progress, "done"
    test,       \* the last test begun
    flushed,    \* the ic iallu before the current run was executed
    runs,       \* the runs of this test so far
    samples,    \* the result vectors of each page
    outcome,    \* return value and *cycles_difference of the last test
    tests       \* number of tests begun

sandbox == <<st, last, faults, cause>>
vars == <<st, last, faults, cause, idc, mem, pou, icache, data, phase, test, flushed,
          runs, samples, outcome, tests>>

Sandbox == INSTANCE SandboxedCall

Pages == {0, 1}
Kinds == {"trigger", "reset", "triple"}

\* A call: which Test...Sequence, and its operands.  Operands are opaque.
TestShape(t) ==
    /\ DOMAIN t = {"kind", "trigger", "measure", "reset", "transient"}
    /\ t.kind \in Kinds
    /\ t.transient \in BOOLEAN
    /\ t.transient => t.kind = "trigger"

ASSUME TestsAssumption  == \A t \in Tests : TestShape(t)
ASSUME NumRunsAssumption == NumRuns \in Nat \ {0}
ASSUME ExecutorAssumption ==
    /\ ResetAmount \in 0..100
    /\ Cycles \subseteq Nat
    /\ CutOff \in Nat
    /\ CaughtSignals \subseteq Sandbox!Handled
    /\ OtherSignals \cap Sandbox!Handled = {}
    /\ MaxTests \in Nat

NoTest == [kind |-> "none"]
NoOutcome == [error |-> 0, difference |-> 0]
Empty  == [steps |-> <<>>, transient |-> FALSE, measure |-> "empty"]
Blank  == [steps |-> <<>>, transient |-> FALSE, measure |-> "blank"]
Nop    == "nop"

-----------------------------------------------------------------------------
(* The code of a page: each sequence with the number of times it runs, then *)
(* the timed measurement.                                                   *)

CreateTestrunCode(first, second, measure, amount) ==
    [steps |-> <<<<first, amount>>, <<second, 1>>>>,
     transient |-> FALSE, measure |-> measure]

CreateResetTestrunCode(trigger, measure, reset, amount) ==
    [steps |-> <<<<trigger, 1>>, <<reset, amount>>>>,
     transient |-> FALSE, measure |-> measure]

CreateSpeculativeTriggerTestrunCode(measure, trigger, reset, amount) ==
    [steps |-> <<<<reset, amount>>, <<trigger, 1>>>>,
     transient |-> TRUE, measure |-> measure]

\* What the test writes to page p.
Code(t, p) ==
    LET trigger == IF p = 0 THEN t.trigger ELSE Nop
    IN  CASE t.kind = "reset" ->
                CreateResetTestrunCode(IF p = 0 THEN Nop ELSE t.trigger,
                                       t.measure, t.reset, ResetAmount)
          [] t.kind = "triple" ->
                IF p = 0 THEN CreateTestrunCode(t.trigger, t.reset, t.measure, 1)
                         ELSE CreateTestrunCode(t.reset, t.trigger, t.measure, 1)
          [] t.transient ->
                CreateSpeculativeTriggerTestrunCode(t.measure, trigger, t.reset,
                                                    ResetAmount)
          [] OTHER ->
                CreateTestrunCode(t.reset, trigger, t.measure, ResetAmount)

-----------------------------------------------------------------------------
(* Memory *)

Fetch(p) == IF icache[p] # Empty THEN icache[p]
            ELSE IF idc THEN mem[p] ELSE pou[p]

Invalidated == [p \in Pages |-> Empty]

\* A write to /dev/ic_iallu: it runs ic iallu, or fails and is only logged.
Flush == icache' = Invalidated
FlushFails == icache' = icache

\* What a page can hold.
Contents == {Code(t, p) : t \in Tests, p \in Pages} \cup {Blank}

\* The processor may fetch a page ahead of time, and may clean the data cache
\* to where fetches read (which nothing sees when idc), whenever it likes.
Prefetch(p) ==
    /\ icache' = [icache EXCEPT ![p] = Fetch(p)]
    /\ UNCHANGED <<sandbox, idc, mem, pou, data, phase, test, flushed, runs, samples,
                   outcome, tests>>

WriteBack(p) ==
    /\ ~idc
    /\ pou' = [pou EXCEPT ![p] = mem[p]]
    /\ UNCHANGED <<sandbox, idc, mem, icache, data, phase, test, flushed, runs,
                   samples, outcome, tests>>

-----------------------------------------------------------------------------
(* The tests *)

Init ==
    /\ Sandbox!Init
    /\ idc \in BOOLEAN
    /\ mem = [p \in Pages |-> Blank]
    /\ pou = [p \in Pages |-> Blank]
    /\ icache = Invalidated
    /\ data = "zero"
    /\ phase = "none"
    /\ test = NoTest
    /\ flushed = FALSE
    /\ runs = <<>>
    /\ samples = [p \in Pages |-> <<>>]
    /\ outcome = NoOutcome
    /\ tests = 0

Construct ==
    /\ Sandbox!Start
    /\ UNCHANGED <<idc, mem, pou, icache, data, phase, test, flushed, runs, samples,
                   outcome, tests>>

\* Mutant: the vectors, which are members of Executor, keep their content.
BeginTest_KeepsResults(t) ==
    /\ st = "idle"
    /\ phase # "testing"
    /\ tests < MaxTests
    /\ tests' = tests + 1
    /\ phase' = "testing"
    /\ test' = t
    /\ mem' = [p \in Pages |-> Code(t, p)]
    /\ data' = "zero"
    /\ runs' = <<>>
    /\ FlushFails \/ (t.kind = "trigger" /\ Flush)
    /\ outcome' = NoOutcome
    /\ UNCHANGED <<sandbox, idc, pou, flushed, samples>>

\* Mutant: the data pages are only cleared when the program starts.
BeginTest_KeepsData(t) ==
    /\ st = "idle"
    /\ phase # "testing"
    /\ tests < MaxTests
    /\ tests' = tests + 1
    /\ phase' = "testing"
    /\ test' = t
    /\ mem' = [p \in Pages |-> Code(t, p)]
    /\ runs' = <<>>
    /\ samples' = [p \in Pages |-> <<>>]
    /\ FlushFails \/ (t.kind = "trigger" /\ Flush)
    /\ outcome' = NoOutcome
    /\ UNCHANGED <<sandbox, idc, pou, data, flushed>>

\* Mutant: the second page is written over the first.
BeginTest_OnePage(t) ==
    /\ st = "idle"
    /\ phase # "testing"
    /\ tests < MaxTests
    /\ tests' = tests + 1
    /\ phase' = "testing"
    /\ test' = t
    /\ mem' = [mem EXCEPT ![0] = Code(t, 1)]
    /\ data' = "zero"
    /\ runs' = <<>>
    /\ samples' = [p \in Pages |-> <<>>]
    /\ FlushFails \/ (t.kind = "trigger" /\ Flush)
    /\ outcome' = NoOutcome
    /\ UNCHANGED <<sandbox, idc, pou, flushed>>

\* A test begins: both pages are written (a sequence that does not fit ends the
\* process, see CodePage), the data pages cleared, the vectors emptied.
\* TestTriggerSequence also flushes, twice; either may fail.
BeginTest(t) ==
    /\ st = "idle"
    /\ phase # "testing"
    /\ tests < MaxTests
    /\ tests' = tests + 1
    /\ phase' = "testing"
    /\ test' = t
    /\ mem' = [p \in Pages |-> Code(t, p)]
    /\ data' = "zero"
    /\ runs' = <<>>
    /\ samples' = [p \in Pages |-> <<>>]
    /\ FlushFails \/ (t.kind = "trigger" /\ Flush)
    /\ outcome' = NoOutcome
    /\ UNCHANGED <<sandbox, idc, pou, flushed>>

\* The page of the next run: TestSequenceTriple alternates, the others run
\* page 0 NumRuns times, then page 1.
RunPage ==
    IF test.kind = "triple" THEN Len(runs) % 2
    ELSE IF Len(runs) < NumRuns THEN 0 ELSE 1

\* Mutant: ExecuteCodePage relies on the ic iallu after the run before.
BeginRun_NoFlush ==
    /\ phase = "testing"
    /\ Len(runs) < 2 * NumRuns
    /\ Sandbox!Begin
    /\ FlushFails
    /\ flushed' = TRUE
    /\ UNCHANGED <<idc, mem, pou, data, phase, test, runs, samples, outcome, tests>>

\* ExecuteTestrun, up to the jump into the page.
BeginRun ==
    /\ phase = "testing"
    /\ Len(runs) < 2 * NumRuns
    /\ Sandbox!Begin
    /\ \/ Flush /\ flushed' = TRUE
       \/ FlushFails /\ flushed' = FALSE
    /\ UNCHANGED <<idc, mem, pou, data, phase, test, runs, samples, outcome, tests>>

Ran(cycles) == [page |-> RunPage, cycles |-> cycles]

\* What a run adds to the vectors: TestTriggerSequence drops slow runs,
\* TestSequenceTriple keeps the difference of two consecutive runs.
Collect(c) ==
    LET p == RunPage
    IN  CASE test.kind = "trigger" /\ c > CutOff -> samples
          [] test.kind = "triple" /\ p = 0 -> samples
          [] test.kind = "triple" /\ p = 1 ->
                [samples EXCEPT ![0] = Append(@, runs[Len(runs)].cycles - c)]
          [] OTHER -> [samples EXCEPT ![p] = Append(@, c)]

\* Mutant: a run that is dropped does not count, and is made again.
RunReturns_RepeatsDropped(c) ==
    /\ phase = "testing"
    /\ Sandbox!Succeed(c)
    /\ ~Fetch(RunPage).transient
    /\ runs' = IF c > CutOff THEN runs ELSE Append(runs, Ran(c))
    /\ samples' = Collect(c)
    /\ data' \in {data, "dirty"}
    /\ \/ Flush
       \/ icache' = [icache EXCEPT ![RunPage] = Fetch(RunPage)]
    /\ UNCHANGED <<idc, mem, pou, phase, test, flushed, outcome, tests>>

\* The page returns c; it may have stored to the data pages.  A page with an
\* x86 call where the transient trigger should start never gets that far.
RunReturns(c) ==
    /\ phase = "testing"
    /\ Sandbox!Succeed(c)
    /\ ~Fetch(RunPage).transient
    /\ runs' = Append(runs, Ran(c))
    /\ samples' = Collect(c)
    /\ data' \in {data, "dirty"}
    /\ \/ Flush
       \/ icache' = [icache EXCEPT ![RunPage] = Fetch(RunPage)]
    /\ UNCHANGED <<idc, mem, pou, phase, test, flushed, outcome, tests>>

\* Mutant: the caller does not look at the return value of ExecuteTestrun.
RunFaults_Ignored(s) ==
    /\ phase = "testing"
    /\ Sandbox!Fail(s)
    /\ runs' = Append(runs, Ran(-1))
    /\ data' \in {data, "dirty"}
    /\ icache' \in {icache, [icache EXCEPT ![RunPage] = Fetch(RunPage)]}
    /\ UNCHANGED <<idc, mem, pou, phase, test, flushed, samples, outcome, tests>>

\* The page, or the timer set-up before it, faults: the test stops there.
RunFaults(s) ==
    /\ phase = "testing"
    /\ Sandbox!Fail(s)
    /\ runs' = Append(runs, Ran(-1))
    /\ data' \in {data, "dirty"}
    /\ icache' \in {icache, [icache EXCEPT ![RunPage] = Fetch(RunPage)]}
    /\ outcome' = [error |-> 1, difference |-> -1]
    /\ phase' = "done"
    /\ UNCHANGED <<idc, mem, pou, test, flushed, samples, tests>>

\* The page raises a signal nobody catches, or nobody can.
RunKills(s) ==
    /\ phase = "testing"
    /\ Sandbox!Die(s)
    /\ UNCHANGED <<idc, mem, pou, icache, data, phase, test, flushed, runs, samples,
                   outcome, tests>>

\* The difference each test reports.
Difference ==
    CASE test.kind = "trigger" ->
            TruncateHalf(TwiceMedian(samples[1]) - TwiceMedian(samples[0]))
      [] test.kind = "reset" ->
            TruncateHalf(TwiceMedian(samples[0]) - TwiceMedian(samples[1]))
      [] OTHER -> TruncateHalf(TwiceMedian(samples[0]))

FinishTest ==
    /\ st = "idle"
    /\ phase = "testing"
    /\ Len(runs) = 2 * NumRuns
    /\ outcome' = [error |-> 0, difference |-> Difference]
    /\ phase' = "done"
    /\ UNCHANGED <<sandbox, idc, mem, pou, icache, data, test, flushed, runs,
                   samples, tests>>

\* The process has ended, or the caller has no more tests to make.
Finished ==
    /\ st = "dead" \/ (phase # "testing" /\ tests = MaxTests)
    /\ UNCHANGED vars

EndRun ==
    \/ \E c \in Cycles : RunReturns(c)
    \/ \E s \in CaughtSignals : RunFaults(s)
    \/ \E s \in Sandbox!Fatal : RunKills(s)

Next ==
    \/ Construct
    \/ \E t \in Tests : BeginTest(t)
    \/ BeginRun \/ EndRun \/ FinishTest
    \/ \E p \in Pages : Prefetch(p) \/ WriteBack(p)
    \/ Finished

Spec == Init /\ [][Next]_vars

\* A test in progress goes on; pages end (see ExecuteCodePage!Fairness).
FairSpec == Spec /\ WF_vars(BeginRun) /\ WF_vars(EndRun) /\ WF_vars(FinishTest)
-----------------------------------------------------------------------------
(* Properties *)

TypeOK ==
    /\ Sandbox!TypeOK
    /\ idc \in BOOLEAN
    /\ mem \in [Pages -> Contents]
    /\ pou \in [Pages -> Contents]
    /\ icache \in [Pages -> Contents \cup {Empty}]
    /\ data \in {"zero", "dirty"}
    /\ phase \in {"none", "testing", "done"}
    /\ test \in Tests \cup {NoTest}
    /\ flushed \in BOOLEAN
    /\ runs \in Seq([page : Pages, cycles : Cycles \cup {-1}])
    /\ samples \in [Pages -> Seq(Int)]
    /\ outcome.error \in {0, 1}
    /\ tests \in 0..MaxTests

\* A run that follows a successful ic iallu executes the code its test wrote,
\* never a page of an earlier test that the instruction cache still held, where
\* fetches see the data cache (executor.cc:1735).
RunsOwnCode ==
    st = "busy" /\ idc /\ flushed => Fetch(RunPage) = Code(test, RunPage)

\* What the runs of page p add to a median, by the position of the run: what they
\* took, without the slow ones in TestTriggerSequence; in TestSequenceTriple the
\* differences of two consecutive runs, which are all filed under page 0.
Kept(p) ==
    IF test.kind = "triple"
    THEN [i \in {j \in DOMAIN runs : p = 0 /\ j % 2 = 1 /\ j + 1 \in DOMAIN runs} |->
             runs[i].cycles - runs[i + 1].cycles]
    ELSE [i \in {j \in DOMAIN runs :
                    /\ runs[j].page = p
                    /\ test.kind = "trigger" => runs[j].cycles <= CutOff} |->
             runs[i].cycles]

\* Twice the difference of the medians, from the runs alone.
Expected ==
    CASE test.kind = "trigger" -> TwiceMedianByRank(Kept(1)) - TwiceMedianByRank(Kept(0))
      [] test.kind = "reset"   -> TwiceMedianByRank(Kept(0)) - TwiceMedianByRank(Kept(1))
      [] OTHER                 -> TwiceMedianByRank(Kept(0))

Faulted(r) == r.cycles = -1

\* A test that succeeds reports the difference of the medians of its own runs:
\* no result of an earlier test, none dropped but the slow ones of
\* TestTriggerSequence, the operands in the order the callers rely on.
DifferenceIsExact ==
    phase = "done" /\ outcome.error = 0 => IsHalf(outcome.difference, Expected)

\* A test reports an error exactly when a run faulted, runs nothing after the
\* fault, and reports -1; otherwise each page ran NumRuns times.
OutcomeMatchesRuns ==
    phase = "done" =>
        IF \E i \in DOMAIN runs : Faulted(runs[i])
        THEN /\ outcome = [error |-> 1, difference |-> -1]
             /\ \A i \in DOMAIN runs : Faulted(runs[i]) => i = Len(runs)
        ELSE /\ outcome.error = 0
             /\ \A p \in Pages :
                   Cardinality({i \in DOMAIN runs : runs[i].page = p}) = NumRuns

\* Every test comes back, or the process ends.
TestReturns == phase = "testing" ~> (phase = "done" \/ st = "dead")

-----------------------------------------------------------------------------
(* The inductive invariant, which is behind RunsOwnCode *)

\* From the start of a test until the next, the pages hold its code.
PagesInv == phase # "none" => test \in Tests /\ \A p \in Pages : mem[p] = Code(test, p)

BusyInv == st = "busy" => phase = "testing" /\ Len(runs) < 2 * NumRuns

\* After the ic iallu of a run the instruction cache holds nothing else.
CoherenceInv ==
    st = "busy" /\ idc /\ flushed => \A p \in Pages : icache[p] \in {Empty, mem[p]}

\* The first run of a test finds the data pages zeroed, whatever the code of
\* the test before stored there (executor.cc:1320).
DataInv == phase = "testing" /\ runs = <<>> => data = "zero"

\* What a test finds, step by step: pages and data of its own.
Inv == TypeOK /\ PagesInv /\ BusyInv /\ CoherenceInv /\ DataInv
=============================================================================
