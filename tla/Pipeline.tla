------------------------------ MODULE Pipeline ------------------------------
(***************************************************************************)
(* The processes that src/run.sh starts one after the other, and the files *)
(* they leave for each other and for the next invocation of the script.    *)
(*                                                                         *)
(* The script looks at no exit status: whatever a process did, the next    *)
(* one reads the files that are there.  A process may not start at all     *)
(* (taskset finds no such CPU, main cannot set its affinity), end on an    *)
(* error, be killed, by a page it runs or by the user, at any moment, or   *)
(* be interrupted together with the script.  What it did not get to open   *)
(* stays as an earlier invocation left it.                                 *)
(*                                                                         *)
(* Core and ResultFilter model what a search and a filter stage write; of  *)
(* it this module keeps which lines a file may hold.  The confirmation     *)
(* (ConfirmResultsOfFuzzer of src/src/osiris.cc) is modelled line by line. *)
(* A file is the set of its lines: the search writes a combination once,   *)
(* and the confirmation shuffles the lines.                                *)
(***************************************************************************)
EXTENDS CodeGenerator, Integers, FiniteSets

CONSTANTS
    Lists,          \* the lists of instructions a file may hold
    SourceLists,    \* those that the instruction generators produce
    Tail16,         \* the last two bytes of the hash of the file with a list
    Arguments,      \* the arguments that the script may be given
    Sleeps,         \* the names of the sleeps
    Differences,    \* what TestTriggerSequence may answer
    MaxHits,        \* bound: lines that a search writes
    MaxInvocations  \* bound

\* Hashes of the files in use differ in their last two bytes; an index fits into
\* two bytes, as in the instruction files of the repository, of which the longest
\* has 14016 lines.
ASSUME ListsAssumption ==
    /\ SourceLists \subseteq Lists
    /\ \A list \in Lists :
          Len(list) \in 0..(Span - 1) /\ list = [i \in 1..Len(list) |-> list[i]]

ASSUME TailsAssumption ==
    /\ DOMAIN Tail16 = Lists
    /\ \A list \in Lists : Tail16[list] \in 0..(Span - 1)
    /\ \A list1, list2 \in Lists : Tail16[list1] = Tail16[list2] => list1 = list2

Flags == [all : BOOLEAN, speculation : BOOLEAN, filter_cache : BOOLEAN]

ASSUME ArgumentsAssumption == Arguments \subseteq Flags

ASSUME DifferencesAssumption == Differences \subseteq Int

ASSUME BoundsAssumption == MaxHits \in Nat /\ MaxInvocations \in Nat

Roles     == {"measurement", "trigger", "reset"}
Bases     == {"measure_trigger_pairs", "triggerpairs"}
FileNames == {"csv", "nocache", "iter1", "iter1_cleaned", "iter2", "iter2_cleaned",
              "filtered"}

VARIABLES
    source,     \* instructions_arm.b64
    cleaned,    \* instructions_arm_cleaned.b64
    files,      \* the result files of either search
    flags,      \* arguments of the script
    stage,      \* the process that runs, or is to be started
    iter,       \* the confirmation of the two
    todo,       \* inputs of ConfirmResultsOfFuzzer: lines still to be tested
    invocation, \* number of this invocation
    transient   \* history: a test of this invocation ran its trigger transiently

vars == <<source, cleaned, files, flags, stage, iter, todo, invocation, transient>>

\* opened is history: the invocation that emptied the file last.
CsvFile(lines) == [kind |-> "csv", lines |-> lines, opened |-> invocation]
Headless       == [kind |-> "headless", lines |-> {}, opened |-> invocation]
Missing        == [kind |-> "missing", lines |-> {}, opened |-> 0]

Base == IF flags.all THEN "measure_trigger_pairs" ELSE "triggerpairs"

Content(name) == files[Base][name]

\* The result files of this base name after some were written.
Written(new) ==
    [files EXCEPT ![Base] = [name \in FileNames |->
        IF name \in DOMAIN new THEN new[name] ELSE files[Base][name]]]

Init ==
    /\ source \in SourceLists
    /\ cleaned = [kind |-> "missing", list |-> <<>>]
    /\ files = [b \in Bases |-> [name \in FileNames |-> Missing]]
    /\ flags = [all |-> FALSE, speculation |-> FALSE, filter_cache |-> FALSE]
    /\ stage = "idle"
    /\ iter = 1
    /\ todo = {}
    /\ invocation = 0
    /\ transient = FALSE

-----------------------------------------------------------------------------
(* The user *)

\* The instruction file is generated anew.
GenerateInstructions ==
    /\ stage = "idle"
    /\ source' \in SourceLists
    /\ UNCHANGED <<cleaned, files, flags, stage, iter, todo, invocation, transient>>

\* run.sh CPU [--all] [--speculation] [--filter-cache], in any order.
Invoke ==
    /\ stage = "idle"
    /\ invocation < MaxInvocations
    /\ invocation' = invocation + 1
    /\ flags' \in Arguments
    /\ stage' = "cleanup"
    /\ transient' = FALSE
    /\ UNCHANGED <<source, cleaned, files, iter, todo>>

\* Ctrl-C ends the script and the process it has started.
Interrupt ==
    /\ stage # "idle"
    /\ stage' = "idle"
    /\ todo' = {}
    /\ UNCHANGED <<source, cleaned, files, flags, iter, invocation, transient>>

-----------------------------------------------------------------------------
(* Cleanup and search *)

\* What is left of a list when some of its instructions are dropped.
SubListOf(list, all) ==
    \E f \in [1..Len(list) -> 1..Len(all)] :
        /\ \A i, j \in 1..Len(list) : i < j => f[i] < f[j]
        /\ \A i \in 1..Len(list) : list[i] = all[f[i]]

\* ./osiris --cleanup: it may end before it writes, and after any line; the file
\* is left empty when every instruction faults.
Cleanup ==
    /\ stage = "cleanup"
    /\ stage' = "search"
    /\ \/ UNCHANGED cleaned
       \/ cleaned' = [kind |-> "headless", list |-> <<>>]
       \/ \E list \in Lists :
             /\ SubListOf(list, source)
             /\ cleaned' = [kind |-> "csv", list |-> list]
    /\ UNCHANGED <<source, files, flags, iter, todo, invocation, transient>>

\* Mutant: indexes are counted from 1 when a line is written.
ResultLine_FromOne(combination, timing) ==
    [timing |-> timing,
     uid    |-> [role \in Roles |->
                   GenerateInstructionUID(Tail16[cleaned.list], combination[role])],
     text   |-> [role \in Roles |-> cleaned.list[combination[role]]],
     run    |-> invocation,
     passed |-> [i \in 1..2 |-> 0]]

\* A line holds the UID and the text of each of its instructions.  The rest is
\* history: the invocation whose search found it, and those whose first and
\* second confirmation it passed.
ResultLine(combination, timing) ==
    [timing |-> timing,
     uid    |-> [role \in Roles |->
                   GenerateInstructionUID(Tail16[cleaned.list], combination[role] - 1)],
     text   |-> [role \in Roles |-> cleaned.list[combination[role]]],
     run    |-> invocation,
     passed |-> [i \in 1..2 |-> 0]]

\* The combinations that the search of Core tests.
Combinations ==
    {c \in [Roles -> 1..Len(cleaned.list)] :
        /\ cleaned.list[c["trigger"]] \notin Sleeps
        /\ ~flags.all => c["trigger"] = c["measurement"]}

AfterSearch == IF flags.filter_cache THEN "prefilter" ELSE "confirm"

\* Mutant: the CSV file is opened for appending.
Search_Appends ==
    /\ stage = "search"
    /\ stage' = AfterSearch
    /\ iter' = 1
    /\ \/ UNCHANGED <<files, transient>>
       \/ /\ Loads(cleaned)
          /\ \E hits \in SUBSET Combinations :
             \E timing \in [hits -> Differences \ (-50..50)] :
                /\ Cardinality(hits) <= MaxHits
                /\ files' = Written([csv |-> CsvFile(Content("csv").lines \cup
                                               {ResultLine(c, timing[c]) : c \in hits})])
          /\ transient' = (transient \/ flags.speculation)
    /\ UNCHANGED <<source, cleaned, flags, todo, invocation>>

\* ./osiris [--all] [--speculation]: Core loads the instruction file and opens the
\* ic_iallu device before it opens, and empties, the CSV file; from then on the
\* search may be killed before the header line is written and at any test.
Search ==
    /\ stage = "search"
    /\ stage' = AfterSearch
    /\ iter' = 1
    /\ \/ UNCHANGED <<files, transient>>
       \/ /\ Loads(cleaned)
          /\ files' = Written([csv |-> Headless])
          /\ UNCHANGED transient
       \/ /\ Loads(cleaned)
          /\ \E hits \in SUBSET Combinations :
             \E timing \in [hits -> Differences \ (-50..50)] :
                /\ Cardinality(hits) <= MaxHits
                /\ files' = Written([csv |->
                      CsvFile({ResultLine(c, timing[c]) : c \in hits})])
          /\ transient' = (transient \/ flags.speculation)
    /\ UNCHANGED <<source, cleaned, flags, todo, invocation>>

-----------------------------------------------------------------------------
(* The filter stage *)

\* ./osiris --filter base.csv, of which run.sh only uses the first output.  The
\* output is emptied before the header of the input is looked at, and gets its own
\* after a first pass over the input.
Prefilter ==
    /\ stage = "prefilter"
    /\ stage' = "confirm"
    /\ \/ UNCHANGED files
       \/ /\ Content("csv").kind # "missing"
          /\ files' = Written([nocache |-> Headless])
       \/ /\ Content("csv").kind = "csv"
          /\ \E lines \in SUBSET Content("csv").lines :
                files' = Written([nocache |-> CsvFile(lines)])
    /\ UNCHANGED <<source, cleaned, flags, iter, todo, invocation, transient>>

\* ./osiris --filter base_confirmed_iter2_cleaned.csv, and its third output.
Filter ==
    /\ stage = "filter"
    /\ stage' = "report"
    /\ \/ UNCHANGED files
       \/ /\ Content("iter2_cleaned").kind = "csv"
          /\ \/ files' = Written([filtered |-> Headless])
             \/ \E lines \in SUBSET Content("iter2_cleaned").lines :
                   files' = Written([filtered |-> CsvFile(lines)])
    /\ UNCHANGED <<source, cleaned, flags, iter, todo, invocation, transient>>

\* The script prints its two counts and ends.
Report ==
    /\ stage = "report"
    /\ stage' = "idle"
    /\ UNCHANGED <<source, cleaned, files, flags, iter, todo, invocation, transient>>

-----------------------------------------------------------------------------
(* ./osiris --confirm: ConfirmResultsOfFuzzer *)

Input ==
    IF iter = 2 THEN "iter1_cleaned"
    ELSE IF flags.filter_cache THEN "nocache" ELSE "csv"
Output        == IF iter = 1 THEN "iter1" ELSE "iter2"
OutputCleaned == IF iter = 1 THEN "iter1_cleaned" ELSE "iter2_cleaned"

Outputs(output, output_cleaned) ==
    [name \in {Output, OutputCleaned} |->
        IF name = Output THEN output ELSE output_cleaned]

\* Mutant: what is left of the inputs survives the process.
NextProcess_KeepsTodo ==
    IF iter = 1 THEN stage' = "confirm" /\ iter' = 2 /\ UNCHANGED todo
                ELSE stage' = "filter" /\ UNCHANGED <<iter, todo>>

\* The process ends, for whatever reason, and the script goes on.
NextProcess ==
    /\ todo' = {}
    /\ IF iter = 1 THEN stage' = "confirm" /\ iter' = 2
                   ELSE stage' = "filter" /\ iter' = iter

\* Mutant: the outputs are opened to append to what they hold.
OpenConfirm_Appends ==
    /\ stage = "confirm"
    /\ \/ NextProcess /\ UNCHANGED files
       \/ /\ Content(Input).kind = "csv"
          /\ files' = Written(Outputs(CsvFile(Content(Output).lines),
                                      CsvFile(Content(OutputCleaned).lines)))
          /\ \/ NextProcess
             \/ /\ Loads(cleaned)
                /\ stage' = "confirming"
                /\ todo' = Content(Input).lines
                /\ UNCHANGED iter
    /\ UNCHANGED <<source, cleaned, flags, invocation, transient>>

\* The process may end before it opens its outputs.  It empties one after the
\* other, and leaves both empty when the input has no header line; then it gives
\* each its header line.  After that, Executor and CodeGenerator may end it when
\* they are constructed.  All lines of the input are read before one is tested.
OpenConfirm ==
    /\ stage = "confirm"
    /\ \/ NextProcess /\ UNCHANGED files
       \/ NextProcess /\ files' = Written(Outputs(Headless, Content(OutputCleaned)))
       \/ NextProcess /\ files' = Written(Outputs(Headless, Headless))
       \/ /\ Content(Input).kind = "csv"
          /\ NextProcess
          /\ files' = Written(Outputs(CsvFile({}), Headless))
       \/ /\ Content(Input).kind = "csv"
          /\ files' = Written(Outputs(CsvFile({}), CsvFile({})))
          /\ \/ NextProcess
             \/ /\ Loads(cleaned)
                /\ stage' = "confirming"
                /\ todo' = Content(Input).lines
                /\ UNCHANGED iter
    /\ UNCHANGED <<source, cleaned, flags, invocation, transient>>

Lookup(line, role) ==
    CreateInstructionFromUID(Tail16[cleaned.list], cleaned.list, line.uid[role])

\* Looking up an instruction ends the process, or has an undefined effect, which
\* is taken to be the same.
LookupEnds(line) == \E role \in Roles : Lookup(line, role) \in Outcomes

\* Mutant: a line whose reset is a sleep is passed over too.
IsSkipped_AnyRole(line) == \E role \in Roles : Lookup(line, role) \in Sleeps

\* The sleeps are only valid reset sequences.
IsSkipped(line) == Lookup(line, "trigger") \in Sleeps \/ Lookup(line, "measurement") \in Sleeps

ConfirmExits(line) ==
    /\ stage = "confirming"
    /\ line \in todo
    /\ LookupEnds(line)
    /\ NextProcess
    /\ UNCHANGED <<source, cleaned, files, flags, invocation, transient>>

SkipLine(line) ==
    /\ stage = "confirming"
    /\ line \in todo
    /\ ~LookupEnds(line) /\ IsSkipped(line)
    /\ todo' = todo \ {line}
    /\ UNCHANGED <<source, cleaned, files, flags, stage, iter, invocation, transient>>

Passes(result) == result \notin -50..50

\* What a confirmation leaves of a line.
Untimed(line) == [uid |-> line.uid, text |-> line.text, run |-> line.run]

\* TestTriggerSequence is asked for a transient trigger, and answers -1 when the
\* page faulted: its error is not looked at.  Lines are tested in random order.
ConfirmLine(line, result) ==
    /\ stage = "confirming"
    /\ line \in todo
    /\ ~LookupEnds(line) /\ ~IsSkipped(line)
    /\ todo' = todo \ {line}
    /\ LET new  == [line EXCEPT !.timing = result,
                                !.passed[iter] = IF Passes(result) THEN invocation ELSE 0]
           kept == IF Passes(result) THEN {new} ELSE {}
       IN  files' = Written(Outputs(CsvFile(Content(Output).lines \cup {new}),
                                    CsvFile(Content(OutputCleaned).lines \cup kept)))
    /\ transient' = TRUE
    /\ UNCHANGED <<source, cleaned, flags, stage, iter, invocation>>

\* All lines are tested, or the process is killed before.  One more line in the first
\* output, when that is between its two writes, is left out: no process reads it.
EndConfirm ==
    /\ stage = "confirming"
    /\ NextProcess
    /\ UNCHANGED <<source, cleaned, files, flags, invocation, transient>>

-----------------------------------------------------------------------------
Next ==
    \/ GenerateInstructions \/ Invoke \/ Interrupt
    \/ Cleanup \/ Search \/ Prefilter
    \/ OpenConfirm \/ EndConfirm
    \/ \E line \in todo :
          \/ ConfirmExits(line) \/ SkipLine(line)
          \/ \E result \in Differences \cup {-1} : ConfirmLine(line, result)
    \/ Filter \/ Report

Spec == Init /\ [][Next]_vars

-----------------------------------------------------------------------------
(* Properties *)

Names == UNION {{list[i] : i \in DOMAIN list} : list \in Lists}

Line == [timing : Differences \cup {-1}, uid : [Roles -> Nat],
         text : [Roles -> Names], run : 1..MaxInvocations,
         passed : [1..2 -> 0..MaxInvocations]]

IsFile(f) ==
    /\ f.kind \in {"missing", "headless", "csv"}
    /\ \A line \in f.lines : line \in Line
    /\ f.kind # "csv" => f.lines = {}
    /\ f.opened \in 0..MaxInvocations

TypeOK ==
    /\ source \in SourceLists
    /\ InstructionFile(cleaned, Lists)
    /\ \A b \in Bases, name \in FileNames : IsFile(files[b][name])
    /\ flags \in Flags
    /\ stage \in {"idle", "cleanup", "search", "prefilter", "confirm", "confirming",
                  "filter", "report"}
    /\ iter \in {1, 2}
    /\ \A line \in todo : line \in Line
    /\ todo # {} => stage = "confirming"
    /\ invocation \in 0..MaxInvocations

\* The confirmation runs the instructions that a line names, or none: whatever
\* instruction files came and went between the search that wrote the line and
\* the confirmation, an index is never looked up in another list, let alone past
\* the end of one.
TestedAsNamed ==
    stage = "confirming" =>
        \A line \in todo, role \in Roles : Lookup(line, role) \in {line.text[role], Exit}

\* The file was emptied, if not also written, by this invocation.
Own(name) == Content(name).opened = invocation

\* The script may report what an earlier invocation left: a process that does not
\* start leaves its outputs alone, and the next one takes them.  But whatever it
\* reports passed a first and then a second confirmation, the same two for all
\* lines of the file, and they were of this invocation when it got to open the
\* output of either and the file it reports.
ConfirmedTwice ==
    stage = "report" =>
        LET filtered == Content("filtered")
        IN  \A line \in filtered.lines :
                /\ 0 < line.passed[1]
                /\ line.passed[1] <= line.passed[2]
                /\ line.passed[2] <= filtered.opened
                /\ \A other \in filtered.lines : other.passed = line.passed
                /\ Own("iter1_cleaned") /\ Own("iter2_cleaned") /\ Own("filtered")
                      => line.passed[1] = invocation

\* The lines that are reported were found by one search, however many processes
\* ended early in this and earlier invocations.  It is the search that wrote the
\* CSV file last when this invocation got to open every file on the way from it.
ReportsOneSearch ==
    stage = "report" =>
        LET lines == Content("filtered").lines
            way   == {"iter1_cleaned", "iter2_cleaned", "filtered"}
                        \cup (IF flags.filter_cache THEN {"nocache"} ELSE {})
        IN  /\ \A line1, line2 \in lines : line1.run = line2.run
            /\ (\A name \in way : Own(name))
                  => \A line \in lines : line.run = Content("csv").opened

\* At every moment of a confirmation, the output holds each line of the input that
\* is not to be tested any more, but for those with a sleep as their trigger or
\* measurement, and the cleaned output those of them that passed.
ConfirmKeepsEveryLine ==
    stage = "confirming" =>
        LET tested == Content(Input).lines \ todo
            asleep == {line \in tested : \E role \in {"trigger", "measurement"} :
                                            line.text[role] \in Sleeps}
        IN  /\ todo \subseteq Content(Input).lines
            /\ {Untimed(line) : line \in Content(Output).lines} =
                  {Untimed(line) : line \in tested \ asleep}
            /\ Content(OutputCleaned).lines =
                  {line \in Content(Output).lines : line.timing \notin -50..50}

\* Without --speculation the trigger sequence is executed architecturally
\* (README.md:96-97).
TriggerArchitectural == ~flags.speculation => ~transient
=============================================================================
