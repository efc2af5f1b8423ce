# Osiris for ARM: verification project

Osiris looks for timing side channels by running generated instruction
sequences. A *result* is a triple of instructions: a **measurement** whose time
depends on whether a **trigger** ran before it, and a **reset** that puts the
microarchitecture back. The fuzzer writes pages of machine code, calls them
inside its own process, survives the faults they raise, and reduces the cycle
counts to one number for each triple.

Paths below are relative to the repository (`src/executor.cc` is
`src/src/executor.cc` in `PROJECT.json`, where `src/` is the repository root).

- [1. The system](#1-the-system)
- [2. The modules](#2-the-modules)
- [3. The runs](#3-the-runs)
- [4. The proofs](#4-the-proofs)
- [5. Disagreements found](#5-disagreements-found)
- [6. What is not modelled](#6-what-is-not-modelled)
- [7. Plan](#7-plan)

## 1. The system

| part | code | state it keeps | operations | used by |
|---|---|---|---|---|
| fault-handled call | `executor.cc` 855-930, 1644-1794 | `fault_handler_jump_buf`, four fault counters, signal dispositions and mask, the mapped data pages | constructor, destructor, `ExecuteCodePage`, `FaultHandler` | timing tests |
| code page builder | `executor.cc` 1145-1309, 1331-1619 | two code pages and their write index | `Create...Code`, `Add...ToCodePage`, `InitializeCodePage` | timing tests |
| timing tests | `executor.cc` 941-1143, 1311-1324 | result vectors, data pages | `TestTriggerSequence`, `TestResetSequence`, `TestSequenceTriple` | Core, confirmation |
| Core | `core.cc` | output files and folders, index of the combination | cleanup, search with and without the assumption trigger = measurement, formatting | `main` |
| ResultFilter | `filter.cc` | active filters, map of best lines of each kind | `EnableFilter`, `DisableFilter`, `ClearAllFilters`, `ApplyFiltersOnFile` | `main` |
| confirmation | `osiris.cc` 66-165 | two output files | `ConfirmResultsOfFuzzer` | `main` |
| CodeGenerator | `code_generator.cc` | instruction list, hash of its file | instruction by index or by UID | Core, confirmation |
| pipeline | `run.sh`, `osiris.cc` main | the files the stages hand on | cleanup, search, filter, confirm twice, filter | the user |
| command line | `osiris.cc` 171-300, 317-401 | the options given, the affinity of the process | `ParseArguments`, the choice of a job in `main` | `run.sh` |
| arm_pmu driver | `kernel_moudle/arm_pmu_module/` | on each CPU: PMCR, PMUSERENR, PMCNTENSET | load, unload, an interrupt on each CPU | `ExecuteCodePage` |
| ic_iallu driver | `kernel_moudle/ic-moudle/` | device number, class, device node, cdev | load, unload, open, write | `ExecuteCodePage`, timing tests |
| instruction generators | `arm-Instructions/xmlToBytes_arm.py`, `x86-instructions/xmlToBytes.py` | two queues, a pool of processes | assemble, collect | by hand |
| utilities, logger | `utils.cc`, `logger.cc` | log level | `median`, `base64_encode`, `base64_decode`, conversions | all |

How they interact. `main` runs one job for each process, and processes
communicate through files only. Core asks the CodeGenerator for instructions
and calls the executor, which writes two code pages and calls each many times
with `ExecuteCodePage`. That function, the generated page and `FaultHandler`
share the thread, its signal mask and the jump buffer; the kernel runs the
handler *inside* the page's execution. The page reads performance counters that
the arm_pmu driver has to open to user space. Pages are written as data and
fetched as instructions: their coherence is kept, if at all, by writes to the
ic_iallu device. Counters and instruction caches belong to a CPU: that a test
reads one counter and flushes the cache it runs from rests on `main` pinning its
process to CPU 0, where every other process of Osiris then runs as well.

What is hard here:

- control that leaves a signal handler by `longjmp`, with a mask the kernel
  changed and `longjmp` does not restore;
- state that outlives a test: mask, dispositions, instruction cache, data pages,
  result vectors, best-line maps, output streams;
- kernel modules that are loaded and removed at any time, one CPU after the
  other, while processes measure and hold descriptors;
- several processes that share CPU 0, its counter, which every page sets back to
  zero, and its instruction cache;
- a sequence under test may overwrite any register the harness keeps values in;
- errors reported in-band: -1 is also a possible difference; a fault of the
  harness's own timer set-up is indistinguishable from one of the instruction;
- a search of several days whose process may end at any test, and a script that
  looks at no exit status and goes on with whatever files it finds, of this or
  of earlier invocations;
- result files that name instructions by their index in another file, which the
  next invocation makes anew;
- a pool of processes that share two queues, may die with an instruction in
  hand, and are terminated while the queues are full.

What makes each part correct: a call survives every handled fault and says so
exactly once (fault-handled call); a page never loses its guard RET, restores
its caller and returns the time of the measurement only (code page builder); a
test runs the code it wrote and reports the exact difference of its own runs
(timing tests); files hold exactly the hits (Core); the strongest line of each
kind survives the filters (ResultFilter); an index is looked up in the list it
was made from or the process ends (CodeGenerator, confirmation); what is reported
was found by one search and confirmed twice, by this invocation unless one of its
processes never got to open its output (pipeline); the job done is the one the words
ask for (command line); both readings are of one counter that counts every cycle,
and a page runs on the CPU whose cache was invalidated (drivers); a name made of an
encoding gives the encoding back (utilities); every instruction gets one answer
and `main` ends (instruction generators). The `hazards` of `PROJECT.json` list
all of this line by line, with the property that covers each, or why none does.

## 2. The modules

```
  SandboxedCall  <--implements--  ExecuteCodePage      MCExecuteCodePage
       ^ INSTANCE                                      ExecuteCodePage_proofs
    Executor  --EXTENDS-->  Median                     MCExecutor, Executor_proofs
    CodePage                                           MCCodePage, CodePage_proofs
    Core  --EXTENDS-->  Utils, CommandLine             MCCore, Core_proofs
    ResultFilter                                       MCResultFilter, ResultFilter_proofs
    Pipeline  --EXTENDS-->  CodeGenerator              MCPipeline, Pipeline_proofs
    Platform  --EXTENDS-->  ArmPmu, IcIallu            MCPlatform, Platform_proofs
    WorkerPool                                         MCWorkerPool, WorkerPool_proofs
```

Pipeline does not instantiate Core and ResultFilter: it keeps of them only which
lines a file may hold, and allows more than they do.

Definitions have the names of the functions they translate; `map` in
`PROJECT.json` gives the lines. An operator named `X_Something` before `X` is a
mutant of `X`: a plausible bug, used to show that a property can fail.

### SandboxedCall (abstract) and ExecuteCodePage

`SandboxedCall` says what a caller of `ExecuteTestrun` may rely on: a call ends
with a cycle count, or with an error and *exactly one* more fault on the counter
of the signal raised; only a signal that is not handled, or one raised by a page that
has left no stack to run a handler on, can end the process from inside a page. `ExecuteCodePage` is the code: one action for each point where
control can be (`pc`): the call, `setjmp`, `arm_v8_timing_init`, the page, the
handler, the path after `longjmp`. Besides the C++ state it has the kernel's:
dispositions, the mask, whether the PMU is open. `debugmode` selects the build:
with `DEBUGMODE` 1 handlers are registered around each call, with 0 (the value
in the repository) for the Executor's life. A signal raised while blocked, or
with the default disposition, kills. So does any signal of a page that has moved `sp`
away from its stack (`PageLosesStack`): the handlers are registered with `signal`,
without an alternate stack. `longjmp` into a frame that has returned
makes the process `"undefined"`. A fault of the harness between calls
(`HarnessFault`) and the loading of arm_pmu (`TogglePmu`) may happen at any
time. The refinement maps `jmp = "live"` to "a page is running" and takes a
fault that is counted but not yet reported back out of the counter (`Settled`).

### Executor and Median

A test begins with both pages written (`BeginTest`), then runs are begun and end
one at a time (`BeginRun`; `RunReturns`, `RunFaults`, `RunKills`, each a step of
`SandboxedCall`), and `FinishTest` reduces the vectors. The sequences are opaque
names; `Code` is what each page holds. Each page has three copies: `mem` as
written, `pou` as a fetch that misses reads it, `icache`. With `idc` fetches see
writes; without it they see what was cleaned (`WriteBack`, at the hardware's
whim). The processor prefetches when it likes (`Prefetch`). `Flush` is the
driver's `ic iallu`; `FlushFails` is the write that fails and is logged.
`ExecuteTestrun` flushes on every run, `TestTriggerSequence` once more.
The medians are kept doubled, to stay in the integers; `DifferenceIsExact`
compares them with `TwiceMedianByRank`, which does not sort. The data pages are
zeroed at the start of a test and not between its runs (`DataInv`): only the first
run is sure of what its loads find.

### CodePage

A page is built by appending the records `Program` lists, one
`AddInstructionToCodePage` at a time, and then executed on a state of registers
that remember *where their value comes from* (`"caller"`, `"t0"`, `"junk"`...).
A sequence under test is opaque: a length, and the registers it overwrites. It
does not branch, change the stack pointer or the saved registers in memory:
those pages are the `PageFaults` and `PageLosesStack` of ExecuteCodePage or its
hanging pages.

### Core

One process: the list of instructions, the words of its command line, and an
answer of the executor for each combination (chosen initially, since a combination
is tested once). `Main` makes the job of the words, with `CommandLine`. The loops are one action for each thing the loop body can do. `Killed` ends the
process at any test and between any two writes. A file is what it holds once it is
flushed: lines are, one by one. The cleanup job opens, and empties, its file only after the last
test (`OpenCleaned`) and then writes header and lines (`WriteHeader`, `WriteLine`),
so that one that dies there leaves an empty or a partial list.
`CleanedHoldsSurvivors` says what such a list may hold: the first of the
survivors, and no faulting instruction. The next process takes it for complete. An instruction has the bytes of its encoding, and the name of
a file is the base64 text that `Utils` makes of them, with the slash it may have;
the cleanup job writes the texts and `CleanedHoldsSurvivors` reads them back with
`Base64Decode`, as the next process does.

### CommandLine and Utils

`NextWord` is one step of `getopt_long`: a word that is the argument of `--filter`
is taken whatever it looks like, a word that is no option is set aside, `--` ends
the options, and one that is not in the table ends the process. `Job` is the
order in which `main` looks at what was set. That the file names are not empty
(`osiris.cc:301-302`, `315`) is asserted, which the default build type, Release,
compiles out: the job goes on with an empty name, and finds no file. `Asked` says the same by position in
the sequence of words, without a loop; `JobAsAsked` compares the two. `Utils` has
`Base64Encode` and `Base64Decode` position by position: the loops of the code
become functions on positions, their shifts and masks quotients and remainders.

### ResultFilter

A caller with a list of calls; each application reads what the one before
wrote, as the filter stage of `main` (`FilterStage`) does. Both passes go line by
line. A name is a sequence of pieces, so that concatenating names is
concatenating sequences. Output files start with a line of an earlier
invocation (`Stale`), so that a missing truncation would show. The code tells a pair of
extensions by the concatenation of its names; `StrongestOfEachPair` speaks of the pairs
themselves (`ExtensionsOf`). `Apart` is the condition under which it can be
true: no result of the pair shares a key, of either map, with a result of another pair.
The files of the run have pairs that do and pairs that do not.

### Pipeline and CodeGenerator

`Pipeline` is `run.sh`: `stage` is the process that runs or is to be started, and
each process is an action (`Cleanup`, `Search`, `Prefilter`, `Filter`), except
the confirmation, which is modelled line by line: `OpenConfirm`, then for each
line of the input, in any order, `ConfirmLine`, `SkipLine` or `ConfirmExits`,
and `EndConfirm` when all are tested or a page kills the process. Every process may
end before it opens anything: `taskset` finds no CPU of the number given, `main` cannot set its
affinity (`osiris.cc:271-274`), or somebody kills it. Its files then stay as an earlier
invocation left them, and the next process takes them. `OpenConfirm` may also end
between the opening of its two outputs, and before the header line of either. `Interrupt` is
Ctrl-C, which ends the script too; `GenerateInstructions` replaces the
instruction file between invocations. The files stay from one invocation to the
next, separately for `measure_trigger_pairs` and `triggerpairs`.

A file is missing, without a header line, or a set of lines. A search writes any set of up to
`MaxHits` combinations and a filter keeps any subset: both allow every outcome of
Core and ResultFilter, those of a process that was killed included.
`TestTriggerSequence` may answer anything in `Differences` to a confirmation, and
-1. (With the transient page as it is, see section 5, every confirmation would
answer -1 on ARM; the properties do not depend on that.)

A line holds the UID and the text of its three instructions. `CodeGenerator`
has the UIDs: 16 bits of the hash of the instruction file and the index, and the
look-up with its ways to fail (the file is another one, the index is too
large, the index is one past the end and reads undefined memory).
`TailsAssumption` is that the files in use differ in those 16 bits; nothing in
the code makes it so, and without it `TestedAsNamed` fails.

`transient`, the field `opened` of a file (the invocation that emptied it last) and the
fields `run` and `passed` of a line (the invocation whose search found it, and those
whose first and second confirmation it passed) are history: the program does not have
them, no guard reads them.

With them `ConfirmedTwice` and `ReportsOneSearch` say what the report of an invocation is
worth, whose processes may have left older files alone. Every reported line passed one first and
one second confirmation, in this order, the same two for all lines, and was found
by the same search as the others. The confirmations are those of this
invocation if it got to open both cleaned outputs and the report, and the search is the one
that opened the CSV file last if it got to open every file in between. Without these
conditions both are false: an invocation whose confirmation does not start
reports what an earlier one confirmed.

### Platform, ArmPmu and IcIallu

`ArmPmu` is the kernel module that opens the counters: `Insmod` and `Rmmod` send an
interrupt to every CPU, and `enable_cpu_counters(c)` and `disable_cpu_counters(c)`
run on each when they run. Registers are sets of the bits that are one. The value
that removal writes is the one the code computes, with the complement of E: counters
stay enabled, and the divider D is set. `IcIallu` is the other one: `ic_iallu_init`
call by call with the failure of each, `ic_iallu_exit` in its order, and when a
process can open the device. Nothing keeps it from being removed while a descriptor
is open.

`Platform` puts processes on CPUs. `pc` is what the process does next, from
`SetAffinity` in `main` through the two halves of `arm_v8_timing_init` (`TimingRead`,
`TimingWrite`, between which an interrupt may come), the flush, and the page: before its first
reading it sets the counter up once more, with a read and a write of PMCR_EL0
(`PageRead`, `PageWrite`) that another process may come between, and that zeroes the
counter for whoever measures on that CPU. Then come the two readings. `Migrate` is the scheduler. A process that closes access gets a trap
(`Trap`), which is a fault of the page. The module leaves out what ExecuteCodePage and Executor
have: dispositions, numbers, results. `first`, `exact` and `meddlers` are history:
where the first reading was, whether that counter has counted every cycle since, and
who else wrote to it, by `arm_v8_timing_init` or by a page, since the process's own
`arm_v8_timing_init`.

### WorkerPool

`main` of the instruction generators: the nodes are parsed one by one into
instructions (`ParseNode`, with `Combinations` for `product(*operands)`), put
into the queue, then the workers are started and the answers collected.
`input_queue` is two sets, what `main` has put (`buffer`) and what the queue's
thread has written into the pipe of bounded capacity (`pipe`); answers wait with
the worker that gave them. What becomes of an instruction (`kind`) is chosen when
it is parsed. A worker dies of an exception other than `PwnlibException`. The
`finally` clause is `Terminate`. `Exit` is the end of a Python process, which
waits for its children and for the queue's thread to write out its buffer.
`Generators` lets one module stand for both scripts: the one for ARM has no
progress display and no pseudo instructions; that for x86 has both, and
divides by zero with few instructions (`Progress`). Ctrl-C may come anywhere (`Interrupt`),
also after a line is written and before it is counted (`InterruptUncounted`,
`InterruptPseudo`).

## 3. The runs

| run | checks | bounds | states |
|---|---|---|---|
| `execute_code_page` | `Inv`, `KilledOnlyByUncaught`, `DebugFaultsStayVisible`, `CallReturns`, `Refinement` | two cycle counts, one uncaught signal, counters to 2 | 8 480 |
| `executor` | `Inv`, `RunsOwnCode`, `DifferenceIsExact`, `OutcomeMatchesRuns`, `TestReturns` | two tests out of four, two runs of each page, cycle counts at and above the cut-off | 610 442 |
| `code_page` | `TypeOK`, `GuardRetIntact`, `ReturnsRestored`, `ReturnsElapsedTime`, `TimerCoversMeasurement` | page of 512 bytes, three lengths, four sets of overwritten registers | 68 000 |
| `result_filter` | `TypeOK`, `StrongestOfEachPair`, `AssertionsHold`, `CopiesInOrder`, `NeverTwoOfAKind` | all files of up to four of seven lines, with pairs whose names run into one another and pairs whose names do not, three callers | 200 529 |
| `core` | `TypeOK`, `CsvHoldsTheHits`, `FolderHoldsTheHits`, `FormattedKeepsEveryFile`, `CleanedHoldsSurvivors`, `JobAsAsked` | up to three instructions, answers at each threshold; all command lines of up to four of eight words | 82 138 |
| `pipeline` | `TypeOK`, `TestedAsNamed`, `ConfirmedTwice`, `ReportsOneSearch`, `ConfirmKeepsEveryLine` | two invocations, two sets of arguments, lists of up to two instructions, one a sleep, two hits, answers 60 and -1 | 5 805 281 |
| `platform` | `Inv`, `MeasuresOneCounter`, `FlushedWhereRun`, `NothingLeftBehind` | two CPUs, two processes up to symmetry, counters stopped or divided at first | 2 962 229 |
| `worker_pool` | `TypeOK`, `InOnePlace`, `FileMatches`, `MainEnds`, `StopsUnlessFull` | two workers, three instructions from two nodes, all fates of each, a pipe of one, three scripts | 103 610 |
| `code_page_speculative`, `core_folder`, `pipeline_transient`, `worker_pool_enum` | one claim of a comment or of the documentation each | as above | violated, see section 5 |

Why the bounds are enough:

- *execute_code_page*: what a second fault of the same kind meets (mask,
  dispositions, jump buffer) is what every later one meets; counters to 2 also
  let two different signals alternate. No call starts beyond the bound, so the
  model stops there instead of wrapping.
- *executor*: the second test sees all the state the first leaves: cache, data
  pages, vectors. Two runs of each page give vectors of length 0, 1 and 2, so
  medians of none, odd and even, and an alternation of the two pages in a triple.
- *code_page*: with 512 bytes the fixed parts fill most of the page and the
  lengths put its end before, at and after the guard word. All its properties are
  proved for all sizes.
- *result_filter*: a chain of three files, in which line numbers shift when
  lines are taken out, needs two lines of a kind, one of another and one that is
  removed: four lines.
- *core*: three nested loops show their order and their skips with two or three
  instructions, one a sleep; answers sit on both sides of -50, 50, -20 and 20. A
  command line of four words has `--filter` as the last word, before an option and
  before another `--filter`, an option after `--`, and two names around an option.
- *pipeline*: what the third invocation finds in the directory, the second can
  find: files of an earlier one, whole, cut short or not opened, with other arguments and
  another instruction list. Two hits give a confirmation one line that is done
  and one that is not. Its properties are
  proved for any number of both.
- *platform*: a second process is all that one can be disturbed by at once, and
  what a third would do to the counter and the caches of a CPU the second can do.
  With two CPUs there is one that a process must not be on. The invariants are proved
  for any number of both.
- *worker_pool*: two workers suffice for one to take, die or answer before or
  after the other; three instructions and a pipe of one let the buffer, the
  pipe and both workers hold one at a time, and leave the pipe full at an end.

Fairness. `ExecuteCodePage!Fairness` is weak fairness of the steps of a call:
the thread runs, and a page ends by RET or by a signal. The second half is an
assumption on the generated code, which nothing in the program enforces: a page
that loops hangs the fuzzer (a hazard without a property). `Executor!FairSpec`
asks the same of beginning a run, ending it, and finishing a test. Neither asks
anything of the drivers, the hardware or the caller: flushes may fail for ever
and a test need never be begun. `WorkerPool!Fairness` is weak fairness of `main`, of the
queue's thread, and of the two steps of each worker: they are processes and
threads that the operating system schedules, and a blocking `get` returns when
there is something to get. (Another worker may take it first; then there is
one instruction less to wait for.) Nobody has to interrupt. `Platform` assumes no
fairness: users need not load a module, nor does the scheduler owe anything. `MainEnds` excepts an instruction of which a worker dies, and
`StopsUnlessFull` a full pipe: in these cases the program does hang. The other
modules state safety only.

Deadlock is checked in every run but those of WorkerPool: ends are explicit
stuttering steps (`Gone`, `Finished`, `Done`, `Ended`) or, in Pipeline, followed
by what the user may do next, so that a state in which the program could neither
go on nor is over would be reported. In WorkerPool `main` really waits for ever
when an answer was lost or the pipe is full; `MainEnds` and `StopsUnlessFull` say
that nothing else stops it, which is more than the absence of deadlock.

## 4. The proofs

All theorems are checked by TLAPS for every value of the constants that the
named assumptions admit.

| theorem | states |
|---|---|
| `ExecuteCodePage_proofs!Invariance` | `Spec => []Inv` |
| `ExecuteCodePage_proofs!HandledFaultsSurvive` | `Spec => []KilledOnlyByUncaught` |
| `ExecuteCodePage_proofs!DebugFaultsVisible` | `Spec => []DebugFaultsStayVisible` |
| `ExecuteCodePage_proofs!ImplementsSandboxedCall` | `Spec => Refinement` |
| `Executor_proofs!Invariance` | `Spec => []Inv` |
| `Executor_proofs!OwnCodeRuns` | `Spec => []RunsOwnCode` |
| `Executor_proofs!OutcomesMatchRuns` | `Spec => []OutcomeMatchesRuns` |
| `Executor_proofs!DifferencesAreExact` | `Spec => []DifferenceIsExact` |
| `CodePage_proofs!GuardRetSurvives` | `Spec => []GuardRetIntact` |
| `CodePage_proofs!TypesOK` | `Spec => []TypeOK` |
| `CodePage_proofs!CallerIsRestored` | `Spec => []ReturnsRestored` |
| `CodePage_proofs!ElapsedTimeReturned` | `Spec => []ReturnsElapsedTime` |
| `CodePage_proofs!OnlyMeasurementTimed` | `Spec => TimerCoversMeasurement` |
| `Core_proofs!TypesOK` | `Spec => []TypeOK` |
| `Core_proofs!CsvIsComplete` | `Spec => []CsvHoldsTheHits` |
| `Core_proofs!FolderIsComplete` | `Spec => []FolderHoldsTheHits` |
| `Core_proofs!FormattedIsComplete` | `Spec => []FormattedKeepsEveryFile` |
| `Core_proofs!CleanedIsComplete` | `Spec => []CleanedHoldsSurvivors` |
| `Core_proofs!JobIsAsked` | `Spec => []JobAsAsked` |
| `Core_proofs!Base64RoundTrip` | decoding an encoding gives the bytes back |
| `ResultFilter_proofs!Invariance` | `Spec => []Inv` |
| `ResultFilter_proofs!AssertionsNeverFail` | `Spec => []AssertionsHold` |
| `ResultFilter_proofs!NoTwoOfAKind` | `Spec => NeverTwoOfAKind` |
| `ResultFilter_proofs!TypesOK` | `Spec => []TypeOK` |
| `ResultFilter_proofs!CopiesKeepOrder` | `Spec => []CopiesInOrder` |
| `ResultFilter_proofs!StrongestKept` | `Spec => []StrongestOfEachPair` |
| `Pipeline_proofs!TypesOK` | `Spec => []TypeOK` |
| `Pipeline_proofs!UidRoundTrip` | a UID gives back the tail and the index it was made from |
| `Pipeline_proofs!ConfirmationTestsAsNamed` | `Spec => []TestedAsNamed` |
| `Pipeline_proofs!ReportedWasConfirmedTwice` | `Spec => []ConfirmedTwice` |
| `Pipeline_proofs!ReportedIsOfOneSearch` | `Spec => []ReportsOneSearch` |
| `Pipeline_proofs!ConfirmationKeepsLines` | `Spec => []ConfirmKeepsEveryLine` |
| `Platform_proofs!Invariance` | `Spec => []Inv` |
| `Platform_proofs!Measurements` | `Spec => []MeasuresOneCounter` |
| `Platform_proofs!Maintenance` | `Spec => []FlushedWhereRun` |
| `Platform_proofs!Registration` | `Spec => []NothingLeftBehind` |
| `WorkerPool_proofs!TypesOK` | `Spec => []TypeOK` |
| `WorkerPool_proofs!EachInOnePlace` | `Spec => []InOnePlace` |
| `WorkerPool_proofs!FileIsComplete` | `Spec => []FileMatches` |

*ExecuteCodePage.* `KilledOnlyByUncaught` is not inductive: a state with a
handled signal still blocked while idle satisfies it and its successors do not.
`Inv` adds when handlers are registered (`DispInv`: for each build, exactly
during a call or during the Executor's life), that nothing is blocked except
between the delivery of a signal and `ReturnFault` (`MaskInv`), when the jump
buffer is live (`JmpInv`), that a signal in the handler is a handled one
(`SigInv`), and that a fault being reported has been counted (`CountInv`), which
keeps `Settled` a natural number in the refinement. The refinement maps each
step to one of `SandboxedCall` or to a stutter: the call begins where the jump
buffer becomes live, and the abstract `Fail` is `ReturnFault`, not the handler.
Assumptions: cycle counts are naturals, the uncaught signals are not handled
ones, the bound is a natural.

*Executor.* `RunsOwnCode` follows from `CoherenceInv` (after the flush of a run
the cache holds, for each page, nothing or what memory holds) and `PagesInv`
(memory holds the code of the test). `CoherenceInv` is kept because no action
writes a page while a run is in progress (`BusyInv`), and a prefetch with `idc`
reads memory. It says nothing where fetches do not see the data cache: there
`ic iallu` alone is not enough, and the run is free to execute old code. `DataInv`
says of the state between the zeroing of the data pages and the first run that
nothing has been stored there, although prefetches and flushes may come between.
`OutcomesMatchRuns` rests on `RunsInv`: each run was of the page whose turn it was
(`PageAt`) and only the last of a test can have faulted. That a finished test made
`NumRuns` runs of each page is then a count: the positions of a page are in bijection
with `1..NumRuns`, for the alternating order and for one page after the other
(`EachPageRuns`).

*Executor, medians.* `DifferenceIsExact` rests on `SamplesInv`: each of the two vectors lists, in
some order, the values that the runs of this test added to it, one position for
each run. A test that kept samples of the test before would break it, and does in the
mutant `BeginTest_KeepsResults`. `TwiceMedian` sorts, where `Sorted` chooses an ascending order of
the positions; that there is one (`CanBeSorted`) needs no induction, since the order is
the inverse of the function that counts, for an element, those that come before it. In a
sorted list as many elements are below the k-th, or not above it, as `Ranked` asks
(`RankOfSorted`), and that does not depend on the order of the list: `MedianByRank` says it of any
listing of any finite family. `TruncatedIsHalf` is the cast.

*CodePage, building.* `IndexInv` says that the write index stays below the page size, a
multiple of four, and that what is still to be added has word lengths; the
bound check on the *end* of an instruction then leaves the last word alone. The
x86 bytes of the transient builder are not whole words, which is why the
property excludes it.

*CodePage, running.* A page is its prolog, a middle part of any length and a timed
part of 39 instructions (`ProgramParts`, `Layout`), so that the operation of an
instruction says where it stands, counted from the start or from the end of the
middle part (`Positions`): `push` among the first fourteen, `start` five after the
middle, the sequences inside of it. The invariant speaks of positions. `CodeInv`: what is
written and what is left to write make up the page. `StackInv`: the stack is the saves so
far (`Frames`), then the same with the stack space on top, and after `leave`
the saves that are still to be taken off, while the registers that were taken off are
the caller's again; x29 holds the frame as long as no sequence before the
instruction at hand overwrites it (`Clean`). `TimerInv`: which of x27, x26, x15 and x0
has the reading or the difference, from instruction to instruction of the timed part.
`CleanPage` then equates `Clean` at the end of the page with the condition of
`ReturnsRestored`, which needs that a page runs its trigger, its measurement
and, if `amount` is not zero, its reset. `ReturnsRestored` by itself is not
inductive, as it says nothing of a running page. Assumptions: a page size of whole
words; lengths of whole words, overwritten registers among those modelled, at
most 100 reset executions.

*Core.* `Position` and `ModeInv` tie the loop counters to the job. What a search
has written is compared with what it has passed: `CsvInv` says that the CSV file is, in
the order of the loops (`Precedes`), the hits before the combination at hand.
`PassedReset` and `PassedTrigger` say what one turn of the inner loop and one of the loop
around it pass; the second has to skip combinations that were never tested, those of a
sleep and those whose first answer was no hit. `FolderInv` says the same of each
file of the folder, and that the stream holds the lines of the trigger
at hand (`OwnFiles`): that triggers do not share a file rests on `Base64RoundTrip`,
by which different encodings have different names. `FormattedInv` numbers the formatted
files by a bijection. `SurvivorsInv` does for the cleanup what `CsvInv` does
for the search, and `CleanedInv` follows the file from its opening, line by line: what is
in it is always the first of the survivors. `CsvHoldsTheHits` is about the two searches: a formatting or a
confirmation writes no such file. `Base64RoundTrip` needs no induction, since both
functions are given by position. The encoding of n bytes has `Unpadded(n)` characters
before its padding (`DataOfEncoded`), from which the decoder computes n back
(`Lengths`); each byte is then put together of the two characters it was split into
(`Joined`). Assumptions: what a list, an answer and an earlier file are made of.

*Core, the command line.* `JobAsAsked` compares a loop over the words (`After`,
`NextWord`) with a definition by position (`Asked`). `Reads` is the invariant of the loop: after n
words the options are the words at the positions `OptionsBy`, the names are the words at
the positions `FilesBy` in their order, and the name to filter is the last value of a `--filter` so far.
The values themselves are chosen as a set with a property that refers to
the set again, so that one has to exist (`ValuesExist`), and the loop is a recursive function, so
that it has to be one (`AfterWord`). All three are inductions over a number of words. The
library's theorem for that takes an operator as a parameter, which the provers cannot instantiate;
`Reached` does it for one set at a time: were a number left out, there would be a least one
left out, and a finite set of numbers has a least element because ranks in
it are counted from one (`RankOnto`). The attempt corrected the model: `NextWord`
and `Job` were CASEs whose arms overlapped, for the value of a `--filter` and for two
options at once, and TLA+ leaves open which arm such a CASE takes. They are now IF-chains
in the order of the code.

*Pipeline, what is tested.* `TestedAsNamed` speaks of the lines being tested, and
those come from files that another process wrote, perhaps invocations ago.
`LinesMade` says of every line of every file that it was made from one of the
lists: each UID from the list's tail and an index, each text from the same index.
A search makes such lines, and the other stages copy them; that they do is one
lemma (`WrittenMade`) for all. With `UidRoundTrip` and distinct tails a look-up in
the loaded list then finds the text, or a tail that differs and ends the process.
The arithmetic of `UidRoundTrip` needs a list shorter than 2^16, which
`ListsAssumption` states: the longest instruction file of the repository has 14016
lines. The code only asserts it (`code_generator.cc:97`), in builds other than
Release.

*Pipeline, what is reported.* `ConfirmedTwice` and `ReportsOneSearch` hold at the
last stage only. `ReportInv` says for every stage what the next one may find, and takes into
account that it may find a file of any earlier invocation. `LinesInv` is about one
base name and needs no stage: the lines of every file that is handed on are
alike, those of a cleaned output passed the confirmation that opened that output, and
no confirmation is older than the one before it. A process that leaves its output alone keeps
this, and so does one that empties its output and then writes lines of its input, of
whatever age. `ChainInv` is about this invocation: where it opened a file and those it is
made from, the file's lines are of the search that opened the CSV file last, or passed
its first confirmation. That holds because each stage opens its output after the
stages before it: `Later` are the files that no process of this invocation has
opened yet, so that the condition is false of them, and `ConfirmingInv` ties the
lines a confirmation has written to its input, which does not change
meanwhile. Outputs that were opened for appending break it, as the mutants `OpenConfirm_Appends`
and `Search_Appends` show. `ConfirmKeepsEveryLine` is inductive together with
`LinesMade`: since every UID finds the text it was made for, a line is passed over
exactly when the line itself names a sleep (`SkippedByName`).

*ResultFilter.* Nothing ever clears the maps of best lines, and their line numbers
are those of a file read earlier. `MapInv` gives the reason why this does no harm:
for each of the two filters the map is empty, or made of the lines read so far in
this pass (`MadeOf`), or the file being read is what the same filter left of an earlier
one (`Settled`): every line has the timing its kind has in the map, the comparison in
the first pass never succeeds, and the map stays as it is. A file that a settled or
active filter let through is settled again (`OutputInv`, `CloseFilesInv`), also when the
filter was disabled in between. The assertion is reached only for a line at the number the map has,
whose timing is then the map's, and a line that is copied is the best of its kind for
each active filter (`LineCopied`), so that an earlier copy of the kind would have the same
number. In a settled pass that number may be of another file: the filter may then
take out lines it should keep, but never keep two.
`CopiesInOrder` needs no map: `OrderInv` says that the output so far is the input at an
increasing set of positions, all before the line at hand, and one more line extends
that set at its end (`AtExtended`).
`StrongestOfEachPair` is about a whole chain of three applications. `StageInv` follows
the program: before its k-th application the first k files are what the stage has
made (`PlaceInv`), and the filter maps hold, of the file that is being read, the first of the
strongest lines of each kind (`BestInv`), so that what is copied is a choice of
positions (`ChoiceInv`). The end is then a statement about two choices: the
strongest of each pair among the strongest of each tuple are the strongest of each
pair (`BestOfBest`). That is true only of a pair that shares no key with another
(`Apart`), and the code does
not guarantee it, as it runs names into one another (`src/filter.cc:119`): categories,
extensions and ISA sets A, B, C and AB, C, none give one tuple and two pairs. The theorem
has no hypothesis about that: it says of every file that the pairs that are
apart keep their strongest result, whatever becomes of the others, since what is chosen
among lines apart does not depend on the rest (`BestApart`).
Assumptions: what a line and a file are made of, and that programs are lists of the
calls of the class.

*Platform.* All rests on `Pinned`: past `main` a process may run on `Cpu0` only, so
that its CPU does not change where it matters and a migration is a step of the
processes in `main` alone (lemma `OnCpu0`). `WindowInv` is about each process between
`arm_v8_timing_init` and the second reading: unless somebody meddled, the counter of
its CPU counts every cycle, *provided that* the process still has access, and the value its page
is about to write back has no divider in it. The condition is what
makes it inductive under removal of arm_pmu, which changes the counter's
configuration and takes access away in the same interrupt; a later load of it
gives access back and is a meddler, and so is a process that
writes PMCR_EL0 in its own set-up or page. `AccessInv` (who has access finds the counter
enabled) serves the first reading. `FlushInv` follows the flush to the page:
another process may only add itself to the CPU's stale pages. `IcInv` lists what is
registered at each point of loading and unloading, and `NothingLeftBehind` reads it off.
Assumptions: `Cpu0` is a CPU, `None` is not, and the PMCR values at first have no bit
outside the register.

*WorkerPool.* `main` counts answers; nothing tells it which. `CountInv` says that it has
counted as many as there are instructions that left the pool with an answer
(`Answered`), so that when it has N of them all have (`AllWritten`). That the count can
be compared with a set rests on `Apart` (no instruction is in two places: queue,
pipe, a worker's hand, its answers, the file, each at one position) and `NoneLost` (one that is nowhere was rejected, or its worker died).
`FileInv` follows the lines: assembled instructions first, pseudo instructions last, and
a count that lags by one line at most. Interrupts between the writing of a line and its
count, and while pseudo instructions are written, are steps of their own; a second
one during the handling of the first is left out. Assumptions (`PoolAssumption`): what a
node is made of, a pipe of at least one place, finitely many workers, pseudo instructions
that are of no node.

*Types.* The type invariants are inductive with the invariants above. That of
Pipeline needs that a stage other than `idle` belongs to an invocation (`Invoked`), and
that of ResultFilter that the line number stays within a file that is being read (`StepInv`):
an application never changes the file it reads.

Every invariant and every safety property of the passing runs is stated by one of these
theorems. Only model-checked: liveness (`CallReturns`, `TestReturns`, `MainEnds`,
`StopsUnlessFull`) and everything under fairness or ENABLED, which are out of the
prover's reach. No module uses a RECURSIVE operator.

## 5. Disagreements found

| run | code | claim |
|---|---|---|
| `code_page_speculative` | the page for a transient trigger is made of x86 bytes; the first is an undefined A64 instruction, so every such test faults | `src/executor.h:141` "a transient execution of the trigger sequence and followed by a timed measurement sequence" |
| `core_folder` | results of a trigger whose base64 text has a slash, or whose encoding was seen before, lose their file | `src/core.cc:198` "write all results for the trigger sequence to a file" |
| `pipeline_transient` | the confirmation always asks for transient execution of the trigger, `src/osiris.cc:147` | `README.md:96-97` "will execute the trigger sequence architecturally" |
| `worker_pool_enum` | an enum operand without `Optional="amount"` gives no value, and its instruction is dropped: 16 nodes of `instructions_arm.xml` | `arm-Instructions/xmlToBytes_arm.py:72-73`, that the combinations of all enum values are generated |

Seen while reading, without a run of their own:

- the search without assumptions measures sleeps, although the comment at
  `src/core.cc:75` calls them "only valid reset sequences" (the confirmation drops
  these results, `IsSkipped`);
- the "number of results after filtering" that `run.sh:115-123` prints is that of the
  lines before the last filter stage;
- extension names are concatenated without a separator (`src/filter.cc:119`), so that
  XSAVE with SSSE3 and XSAVES with SSE3 of the x86 list are one kind, and one of them loses
  its only result, where `README.md:150` has "1 instance per unique pair";
  `StrongestOfEachPair` therefore speaks of pairs that share no key with another, and the files of
  `result_filter` have lines of both sorts;
- an invocation whose processes do not start (`taskset` with a CPU that does not exist) ends
  by filtering and counting the files of an earlier one, without a message of its own
  (`run.sh:106-123`; `ConfirmedTwice` says what is left);
- `run.sh` starts `./osiris`, where `CMakeLists.txt` builds `osiris_arm`;
- `README.md:91-92` and `run.sh:84` choose a core with `CPUCORE`, but the process moves
  itself to CPU 0 (`src/osiris.cc:270-271`, `SetAffinity`);
- `PrintHelp` (`src/osiris.cc:174-175`) describes `--confirm-results` and `--help`, which the
  option table lacks: both end in the help text and exit status 0 (`OtherOptions`);
- `disable_cpu_counters` leaves the counters enabled (comment `arm_pmu.c:77`), and the
  LC that the comments at `arm_pmu.c:58` and `66` announce is masked out;
- `FormatTriggerPairOutput` disassembles A64 code with `CS_ARCH_ARM` and `CS_MODE_ARM`
  (`src/core.cc:220`);
- `CreateSequenceOfNOPs`, "a sequence of NOP instructions" (`src/executor.h:208`), stores
  D5 03 20 1F (`src/executor.cc:1625-1638`), which is not the order in which a
  little-endian processor reads D503201F;
- the inline call of `trigger_ic_iallu` does not declare x30 (`src/executor.cc:1065`);
- the filters for cache instructions look for x86 mnemonics (`src/filter.cc:150`).

## 6. What is not modelled

- **Argument parsing of `run.sh`**: an invocation is its three flags.
- **`SplitString`, `CreateBytearray`, `BytearrayToString`, `NumberToBytesLE`**: each is
  one loop without a state, and a definition would say no more than the code.
  SHA-256 only numbers files.
- **CPUs that go away**: a CPU taken offline, or idle so deeply that it loses its PMU
  registers. The drivers have no code for either. Event counters and overflow
  interrupts of the PMU are used by nothing.
- **Contents of sequences**: lengths, overwritten registers and the signals
  raised stand for them. What an instruction does to the microarchitecture, the
  object of the fuzzing, is any cycle count.
- **Memory order between the barriers** of the harness: there is one thread.
- **Logger, build scripts, generated CMake files, instruction lists**: no state.
- **Commented-out x86 code** at the head of `executor.cc`.

## 7. Plan

Done: ExecuteCodePage with SandboxedCall, Executor, CodePage, Core with CommandLine
and Utils, ResultFilter, CodeGenerator, Pipeline, Platform with ArmPmu and IcIallu,
and WorkerPool; proofs of all of them, for all safety properties of the passing runs.

Left: a refinement between Pipeline and Core or ResultFilter, instead of the
over-approximation: a stage of the pipeline is what a run of the component may
leave behind.
