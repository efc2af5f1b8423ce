-------------------------------- MODULE Core --------------------------------
(***************************************************************************)
(* Core of src/src/core.cc: one process of the fuzzer, which tests every   *)
(* combination of its instructions and writes what it finds to files.      *)
(*                                                                         *)
(* The executor is reduced to what it answers: an error or a difference    *)
(* for each call.  A combination is tested once, so that its answers are   *)
(* chosen with the initial state; Executor says how they come about.  The  *)
(* process may be killed at any moment, by a page or from outside.         *)
(*                                                                         *)
(* Files are what they hold once the process has closed or flushed them:   *)
(* every line of the CSV and of the cleaned file is flushed.  csv and      *)
(* folder are what this process wrote: a search empties both before its    *)
(* first test.                                                             *)
(***************************************************************************)
EXTENDS SequencesExt, Utils, CommandLine

CONSTANT
    Processes   \* instruction file, command line and answers: see Process

\* An instruction is one of the three sleeps or an encoding; encodings may be
\* equal.  Its base64 text is the name of a file.
Instruction(insn) ==
    /\ insn.sleep \in BOOLEAN
    /\ insn.byte_representation \in Seq(Byte)
    /\ "disassembly" \in DOMAIN insn

\* Error and result of TestTriggerSequence, then of TestResetSequence.
Answer(a) ==
    /\ a.error \in {0, 1} /\ a.result \in Int
    /\ a.reset_error \in {0, 1} /\ a.reset_result \in Int

\* The combinations a job tests: the trigger is the measurement in "equal",
\* and all three sequences are the same in "cleanup".
Combinations(j, n) ==
    CASE j = "all"   -> (1..n) \X (1..n) \X (1..n)
      [] j = "equal" -> {c \in (1..n) \X (1..n) \X (1..n) : c[1] = c[2]}
      [] OTHER       -> {c \in (1..n) \X (1..n) \X (1..n) : c[1] = c[2] /\ c[2] = c[3]}

Process(p) ==
    /\ p = [list |-> p.list, argv |-> p.argv, answers |-> p.answers]
    /\ Len(p.list) \in Nat /\ DOMAIN p.list = 1..Len(p.list)
    /\ \A i \in DOMAIN p.list : Instruction(p.list[i])
    /\ Len(p.argv) \in Nat /\ DOMAIN p.argv = 1..Len(p.argv)
    /\ DOMAIN p.answers = Combinations(Job(ParseArguments(p.argv)), Len(p.list))
    /\ \A c \in DOMAIN p.answers : Answer(p.answers[c])

ASSUME ProcessesAssumption == \A p \in Processes : Process(p)

VARIABLES
    list,       \* instruction_list_ of the code generator
    argv,       \* the words of the command line
    job,        \* what main makes of them: see Job
    answers,    \* of the executor, for each <<measurement, trigger, reset>>
    mode,       \* what the process does: see TypeOK
    at,         \* <<measurement_idx, trigger_idx, reset_idx>>
    csv,        \* lines of the CSV file
    stream,     \* output_stream: the results of the trigger at hand
    folder,     \* the output folder: contents by name
    formatted,  \* the formatted folder: contents by name
    toformat,   \* names of the folder still to be iterated over
    survivors,  \* non_faulting_instruction_indexes
    cleaned     \* the cleaned instruction file

vars == <<list, argv, job, answers, mode, at, csv, stream, folder, formatted, toformat,
          survivors, cleaned>>
given == <<list, argv, job, answers>>
found == <<csv, stream>>
shown == <<folder, formatted, toformat>>
kept  == <<survivors, cleaned>>

N      == Len(list)
Sleep(i) == list[i].sleep

None == [header |-> FALSE, lines |-> <<>>]
Old  == [header |-> TRUE, lines |-> <<<<NoChar>>>>]

Init ==
    /\ \E p \in Processes : list = p.list /\ argv = p.argv /\ answers = p.answers
    /\ job = "none"
    /\ mode = "main"
    /\ at = <<1, 1, 1>>
    /\ csv = <<>>
    /\ stream = <<>>
    /\ folder = <<>>        \* removed and created again
    /\ formatted = <<>>
    /\ toformat = {}
    /\ survivors = <<>>
    /\ cleaned = Old        \* of an earlier cleanup

-----------------------------------------------------------------------------
(* main *)

\* The filter and the confirmation are ResultFilter and Pipeline; the others end
\* here, or go through their combinations once Core is constructed.
Main ==
    /\ mode = "main"
    /\ job' = Job(ParseArguments(argv))
    /\ mode' = IF job' \in {"cleanup", "all", "equal"} THEN "combination" ELSE "done"
    /\ UNCHANGED <<list, argv, answers, at, found, shown, kept>>

-----------------------------------------------------------------------------
(* The loops over the combinations *)

Measurement == at[1]
Trigger     == at[2]
Reset       == at[3]

\* The first combination of the next trigger.
NextTrigger ==
    IF job = "equal" THEN <<Trigger + 1, Trigger + 1, 1>>
    ELSE IF Trigger < N THEN <<Measurement, Trigger + 1, 1>>
    ELSE <<Measurement + 1, 1, 1>>

NextReset == <<Measurement, Trigger, Reset + 1>>

InLoop == mode = "combination" /\ job # "cleanup" /\ Measurement <= N

\* The sleeps are only valid reset sequences: the trigger is passed over.
SkipSleep ==
    /\ InLoop
    /\ Sleep(Trigger)
    /\ at' = NextTrigger
    /\ UNCHANGED <<given, mode, found, shown, kept>>

Passes(a) == a.error = 0 /\ (a.result < -50 \/ a.result > 50)

\* Mutant: the error of the second test is not looked at.
ResetWorks_NoError(a) == -20 < a.reset_result /\ a.reset_result < 20

ResetWorks(a) == a.reset_error = 0 /\ -20 < a.reset_result /\ a.reset_result < 20

\* TestTriggerSequence, and what decides whether the reset is tested.
TestTrigger ==
    /\ InLoop
    /\ ~Sleep(Trigger)
    /\ Reset <= N
    /\ IF Passes(answers[at]) THEN mode' = "reset" /\ UNCHANGED at
       ELSE at' = NextReset /\ UNCHANGED mode
    /\ UNCHANGED <<given, found, shown, kept>>

\* The base64 text of an instruction, in the names of files and in their lines.
Text(i) == Base64Encode(list[i].byte_representation)

CsvLine == [timing |-> answers[at].result, combination |-> at]

\* TestResetSequence, and the lines it writes when the reset works.
TestReset ==
    /\ mode = "reset"
    /\ IF ResetWorks(answers[at])
       THEN /\ csv' = Append(csv, CsvLine)
            /\ stream' = IF job = "equal"
                         THEN Append(stream, [reset |-> Text(Reset), timing |-> answers[at].result])
                         ELSE stream
       ELSE UNCHANGED found
    /\ mode' = "combination"
    /\ at' = NextReset
    /\ UNCHANGED <<given, shown, kept>>

\* Mutant: the results of a trigger stay in the stream.
EndTrigger_KeepsStream ==
    /\ InLoop
    /\ Reset > N
    /\ at' = NextTrigger
    /\ folder' = IF stream = <<>> \/ Slash \in ToSet(Text(Trigger)) THEN folder
                 ELSE [name \in DOMAIN folder \cup {Text(Trigger)} |->
                         IF name = Text(Trigger) THEN stream ELSE folder[name]]
    /\ UNCHANGED <<given, mode, found, formatted, toformat, kept>>

\* All resets of a trigger are tested.  Its results go to a file named after its
\* encoding: one of that name is replaced, and nothing is written, or said,
\* when the name has a slash in it.
EndTrigger ==
    /\ InLoop
    /\ Reset > N
    /\ at' = NextTrigger
    /\ stream' = <<>>
    /\ folder' = IF stream = <<>> \/ Slash \in ToSet(Text(Trigger)) THEN folder
                 ELSE [name \in DOMAIN folder \cup {Text(Trigger)} |->
                         IF name = Text(Trigger) THEN stream ELSE folder[name]]
    /\ UNCHANGED <<given, mode, csv, formatted, toformat, kept>>

LoopsEnd ==
    /\ mode = "combination"
    /\ job # "cleanup"
    /\ Measurement > N
    /\ mode' = IF job = "equal" THEN "formatting" ELSE "done"
    /\ toformat' = IF job = "equal" THEN DOMAIN folder ELSE {}
    /\ UNCHANGED <<given, at, found, folder, formatted, kept>>

-----------------------------------------------------------------------------
(* FormatTriggerPairOutput *)

\* An encoding that capstone cannot disassemble is named by its base64 text.
Disassembly(name) ==
    LET known == {i \in DOMAIN list : list[i].byte_representation = Base64Decode(name)}
    IN  IF known = {} THEN name ELSE list[CHOOSE i \in known : TRUE].disassembly

\* Mutant: the name has no number in it.
FormattedName_NoNumber(name) == <<Disassembly(name), 0>>

\* Mnemonic, operands and unique_idx, which counts the files.
FormattedName(name) == <<Disassembly(name), Cardinality(DOMAIN folder \ toformat)>>

\* The contents show the instructions that the name and the lines are the
\* base64 texts of.
Formatted(name) ==
    [trigger |-> Base64Decode(name),
     lines   |-> [i \in DOMAIN folder[name] |->
                    [folder[name][i] EXCEPT !.reset = Base64Decode(@)]]]

\* The directory is iterated over in any order.
FormatFile ==
    /\ mode = "formatting"
    /\ \E name \in toformat :
          /\ formatted' =
               [f \in DOMAIN formatted \cup {FormattedName(name)} |->
                  IF f = FormattedName(name) THEN Formatted(name) ELSE formatted[f]]
          /\ toformat' = toformat \ {name}
    /\ UNCHANGED <<given, mode, at, found, folder, kept>>

FormatEnd ==
    /\ mode = "formatting"
    /\ toformat = {}
    /\ mode' = "done"
    /\ UNCHANGED <<given, at, found, shown, kept>>

-----------------------------------------------------------------------------
(* OutputNonFaultingInstructions *)

\* Mutant: the file is opened before the instructions are tested, and lines
\* are written as they are found.
TestInstruction_Writes ==
    /\ mode = "combination"
    /\ job = "cleanup"
    /\ Measurement <= N
    /\ survivors' = IF answers[at].error = 0 THEN Append(survivors, Measurement)
                    ELSE survivors
    /\ cleaned' = [header |-> TRUE, lines |-> [k \in DOMAIN survivors' |-> Text(survivors'[k])]]
    /\ at' = [i \in 1..3 |-> Measurement + 1]
    /\ UNCHANGED <<given, mode, found, shown>>

\* Mutant: the index is noted after it has been advanced.
TestInstruction_Next ==
    /\ mode = "combination"
    /\ job = "cleanup"
    /\ Measurement <= N
    /\ survivors' = IF answers[at].error = 0 THEN Append(survivors, Measurement + 1)
                    ELSE survivors
    /\ at' = [i \in 1..3 |-> Measurement + 1]
    /\ UNCHANGED <<given, mode, found, shown, cleaned>>

\* FindNonFaultingInstructions: the instruction is all three sequences, run once.
TestInstruction ==
    /\ mode = "combination"
    /\ job = "cleanup"
    /\ Measurement <= N
    /\ survivors' = IF answers[at].error = 0 THEN Append(survivors, Measurement)
                    ELSE survivors
    /\ at' = [i \in 1..3 |-> Measurement + 1]
    /\ UNCHANGED <<given, mode, found, shown, cleaned>>

\* Opening the file empties it; without survivors it gets no header line.
OpenCleaned ==
    /\ mode = "combination"
    /\ job = "cleanup"
    /\ Measurement > N
    /\ cleaned' = None
    /\ mode' = IF survivors = <<>> THEN "done" ELSE "writing"
    /\ UNCHANGED <<given, at, found, shown, survivors>>

\* std::endl flushes the header, and each line after it.
WriteHeader ==
    /\ mode = "writing"
    /\ ~cleaned.header
    /\ cleaned' = [cleaned EXCEPT !.header = TRUE]
    /\ UNCHANGED <<given, mode, at, found, shown, survivors>>

WriteLine ==
    /\ mode = "writing"
    /\ cleaned.header
    /\ Len(cleaned.lines) < Len(survivors)
    /\ cleaned' = [cleaned EXCEPT !.lines = Append(@, Text(survivors[Len(@) + 1]))]
    /\ UNCHANGED <<given, mode, at, found, shown, survivors>>

CloseCleaned ==
    /\ mode = "writing"
    /\ Len(cleaned.lines) = Len(survivors)
    /\ mode' = "done"
    /\ UNCHANGED <<given, at, found, shown, kept>>

-----------------------------------------------------------------------------
\* A constructor does not find what it needs, a page raises a signal that the
\* executor does not get over, or somebody interrupts the process.
Killed ==
    /\ mode \notin {"main", "done", "killed"}
    /\ mode' = "killed"
    /\ UNCHANGED <<given, at, found, shown, kept>>

Ended ==
    /\ mode \in {"done", "killed"}
    /\ UNCHANGED vars

Next ==
    \/ Main
    \/ SkipSleep \/ TestTrigger \/ TestReset \/ EndTrigger \/ LoopsEnd
    \/ FormatFile \/ FormatEnd
    \/ TestInstruction \/ OpenCleaned \/ WriteHeader \/ WriteLine \/ CloseCleaned
    \/ Killed \/ Ended

Spec == Init /\ [][Next]_vars

-----------------------------------------------------------------------------
(* Properties *)

Lines == [timing : Int, combination : DOMAIN answers]

TypeOK ==
    /\ [list |-> list, argv |-> argv, answers |-> answers] \in Processes
    /\ job \in Jobs \cup {"none"}
    /\ mode \in {"main", "combination", "reset", "formatting", "writing", "done",
                "killed"}
    /\ mode = "reset" => at \in DOMAIN answers
    /\ \A i \in DOMAIN csv : csv[i] \in Lines
    /\ toformat \subseteq DOMAIN folder
    /\ \A i \in DOMAIN survivors : survivors[i] \in 1..N

\* The loops go through the combinations in this order.
Precedes(c, d) ==
    \/ c[1] < d[1]
    \/ c[1] = d[1] /\ c[2] < d[2]
    \/ c[1] = d[1] /\ c[2] = d[2] /\ c[3] < d[3]

\* The combinations to be reported: both tests ran without an error, the trigger
\* makes a difference of more than 50 cycles, and one of less than 20 is left
\* when the reset comes after it.
Hits ==
    {c \in DOMAIN answers :
        /\ ~list[c[2]].sleep
        /\ answers[c].error = 0 /\ answers[c].result \notin -50..50
        /\ answers[c].reset_error = 0 /\ answers[c].reset_result \in -19..19}

\* At every moment of a search, one that is killed included, the CSV file holds the
\* hits among the combinations gone through, each once and in their order: a
\* trigger that is passed over takes no other combination with it.
CsvHoldsTheHits ==
    job \in {"all", "equal"} =>
        /\ {csv[i].combination : i \in DOMAIN csv} = {c \in Hits : Precedes(c, at)}
        /\ \A i \in DOMAIN csv :
              /\ csv[i].timing = answers[csv[i].combination].result
              /\ \A j \in 1..(i - 1) : Precedes(csv[j].combination, csv[i].combination)
        /\ mode \in {"formatting", "done"} => \A c \in Hits : Precedes(c, at)

OfTrigger(t) == {i \in DOMAIN csv : csv[i].combination[2] = t}

\* How many of a set of numbers are not above one of them: its place in their order.
Rank(S, i) == Cardinality({j \in S : j <= i})

Result(line) == [reset |-> Text(line.combination[3]), timing |-> line.timing]

\* These are the lines of the CSV file for a trigger, in their order.
AreOf(results, t) ==
    /\ Len(results) = Cardinality(OfTrigger(t))
    /\ \A i \in OfTrigger(t) : results[Rank(OfTrigger(t), i)] = Result(csv[i])

\* When the loops end, the folder and the CSV file say the same, if no two
\* triggers have the same encoding and none has a slash in its base64 text.
FolderHoldsTheHits ==
    (/\ job = "equal" /\ mode \in {"formatting", "done"}
     /\ \A i, j \in 1..N : list[i].byte_representation = list[j].byte_representation
                              => i = j
     /\ \A i \in 1..N : Slash \notin ToSet(Text(i)))
    => /\ DOMAIN folder = {Text(c[2]) : c \in Hits}
       /\ \A t \in {c[2] : c \in Hits} : AreOf(folder[Text(t)], t)

\* The formatted folder has the contents of every file of the folder, although
\* different encodings may have the same disassembly, and what it shows are
\* the instructions that were tested: the bytes that the names and the lines
\* of the files are the base64 texts of.
FormattedKeepsEveryFile ==
    job = "equal" /\ mode = "done" =>
        LET tested == {list[i].byte_representation : i \in 1..N}
            Shows(f, name) ==
                /\ f.trigger \in tested /\ Base64Encode(f.trigger) = name
                /\ Len(f.lines) = Len(folder[name])
                /\ \A i \in DOMAIN f.lines :
                      /\ f.lines[i].reset \in tested
                      /\ Base64Encode(f.lines[i].reset) = folder[name][i].reset
                      /\ f.lines[i].timing = folder[name][i].timing
        IN  /\ \A name \in DOMAIN folder : \E f \in DOMAIN formatted :
                  Shows(formatted[f], name)
            /\ Cardinality(DOMAIN formatted) = Cardinality(DOMAIN folder)

\* Until a cleanup has tested all its instructions, the cleaned file of the last one
\* stays as it was.  From then on, a kill between any two writes included, it
\* has the first of the instructions that raised no fault, in their order and
\* byte by byte, and never another one; once the cleanup ends, it has them
\* all, after a header line, and it is empty when there are none.
CleanedHoldsSurvivors ==
    job = "cleanup" =>
        LET kept_idx == {i \in 1..N : answers[<<i, i, i>>].error = 0}
            Written  == {i \in kept_idx : Rank(kept_idx, i) <= Len(cleaned.lines)}
        IN  \/ cleaned = Old /\ mode \notin {"writing", "done"}
            \/ /\ Measurement > N
               /\ Len(cleaned.lines) <= Cardinality(kept_idx)
               /\ \A i \in Written : Base64Decode(cleaned.lines[Rank(kept_idx, i)])
                                      = list[i].byte_representation
               /\ cleaned.lines # <<>> => cleaned.header
               /\ mode = "done" => /\ Written = kept_idx
                                   /\ cleaned.header => cleaned.lines # <<>>

\* main does the job that the words of the command line ask for by their place:
\* a word that --filter takes is no option, an option after -- is a file, and
\* a search, which empties the results of the last, is started only when
\* nothing else was asked for.
JobAsAsked == mode # "main" => job = Asked(argv)

\* All results for the trigger sequence are written to a file (core.cc:198).
EveryResultHasItsFile ==
    job = "equal" /\ mode = "done" =>
        \A i \in DOMAIN csv :
            LET name == Text(csv[i].combination[2])
            IN  /\ name \in DOMAIN folder
                /\ \E n \in DOMAIN folder[name] : folder[name][n] = Result(csv[i])
=============================================================================
