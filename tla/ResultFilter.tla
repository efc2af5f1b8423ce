---------------------------- MODULE ResultFilter ----------------------------
(***************************************************************************)
(* ResultFilter of src/src/filter.cc and its caller.                       *)
(*                                                                         *)
(* A ResultFilter keeps a list of active filters and, for the filters that *)
(* keep one line of each kind, a map from kinds to the best line seen.     *)
(* ApplyFiltersOnFile reads its input twice: a pass that lets the filters  *)
(* note their best lines, and a pass that copies what no filter takes out. *)
(* The caller is a list of calls; each application reads the file that the *)
(* one before it wrote, as the filter stage of main does.                  *)
(*                                                                         *)
(* A name in a line (a category, an extension, an ISA set) is a sequence   *)
(* of the pieces it is made of: concatenating names, which the code does   *)
(* to make the keys of its maps, concatenates the pieces.                  *)
(***************************************************************************)
EXTENDS Integers, SequencesExt

CONSTANTS
    Inputs,     \* the files the first application may be given: see File
    Programs    \* the lists of calls a caller makes

Roles == {"measurement", "trigger", "reset"}

\* A result line: the caches tell which of its sequences an instruction that
\* works on the cache is in; a line that was cut short has fewer fields.
ResultLineData(line) ==
    /\ line.fields \in 1..16
    /\ line.timing \in Int
    /\ line.cache \subseteq Roles
    /\ \A role \in Roles :
          DOMAIN line.prop[role] = {"category", "extension", "isa_set"}

\* There may be no file, or one without the header line.
File(f) ==
    /\ f = [kind |-> f.kind, lines |-> f.lines]
    /\ f.kind \in {"missing", "headless", "csv"}
    /\ f.lines \in Seq(ToSet(f.lines))
    /\ \A i \in DOMAIN f.lines : ResultLineData(f.lines[i])

ASSUME InputsAssumption == \A f \in Inputs : File(f)

Keeping == {"UNIQUE_PROPERTY_TUPLES", "MEASUREMENT_TRIGGER_EXTENSION_PAIRS"}
ResultFilterFunctions ==
    Keeping \cup {"INCREASE_THRESHOLD_TO_300", "REMOVE_CACHE_RESET_SEQUENCE",
                  "REMOVE_ALL_CACHE_SEQUENCES"}

Enable(f)  == [op |-> "enable", filter |-> f]
Disable(f) == [op |-> "disable", filter |-> f]
Clear      == [op |-> "clear"]
Apply      == [op |-> "apply"]

Calls == [op : {"enable", "disable"}, filter : ResultFilterFunctions] \cup {Clear, Apply}

ASSUME ProgramsAssumption == Programs \subseteq Seq(Calls)

\* The filter stage of main.
FilterStage ==
    <<Enable("REMOVE_ALL_CACHE_SEQUENCES"), Apply,
      Clear, Enable("UNIQUE_PROPERTY_TUPLES"), Apply,
      Clear, Enable("MEASUREMENT_TRIGGER_EXTENSION_PAIRS"), Apply>>

VARIABLES
    program,    \* the calls the caller makes
    calls,      \* those it has still to make
    active,     \* active_filters_
    best,       \* best_property_tuples_seen_, best_measure_trigger_extensionpair_seen_
    files,      \* files[1] is the input, files[n + 1] the output of the n-th call
    applied,    \* number of applications
    mode,       \* "caller", "prefilter", "filter", "done", "exited", "aborted"
    line_no

vars == <<program, calls, active, best, files, applied, mode, line_no>>

-----------------------------------------------------------------------------
(* The filter functions *)

AbsTiming(t) == IF t < 0 THEN -t ELSE t

PropertyTuple(line) ==
    LET names(role) == line.prop[role]["category"] \o line.prop[role]["extension"]
                          \o line.prop[role]["isa_set"]
    IN  names("measurement") \o names("trigger") \o names("reset")

ExtensionPair(line) ==
    line.prop["measurement"]["extension"] \o line.prop["trigger"]["extension"]

Kind(f, line) ==
    IF f = "UNIQUE_PROPERTY_TUPLES" THEN PropertyTuple(line) ELSE ExtensionPair(line)

\* Mutant: the timings are compared with their signs.
Prefilter_Signed(f, line) ==
    IF \/ f \notin Keeping
       \/ /\ Kind(f, line) \in DOMAIN best[f]
          /\ line.timing <= best[f][Kind(f, line)].timing
    THEN best[f]
    ELSE [k \in DOMAIN best[f] \cup {Kind(f, line)} |->
            IF k = Kind(f, line) THEN [line_no |-> line_no, timing |-> line.timing]
                                 ELSE best[f][k]]

\* Mutant: a better line takes the entry over but leaves its timing.
Prefilter_KeepsTiming(f, line) ==
    IF \/ f \notin Keeping
       \/ /\ Kind(f, line) \in DOMAIN best[f]
          /\ AbsTiming(line.timing) <= AbsTiming(best[f][Kind(f, line)].timing)
    THEN best[f]
    ELSE [k \in DOMAIN best[f] \cup {Kind(f, line)} |->
            IF k # Kind(f, line) THEN best[f][k]
            ELSE [line_no |-> line_no,
                  timing |-> IF k \in DOMAIN best[f] THEN best[f][k].timing
                                                     ELSE line.timing]]

\* What ExecutePrefilterFunction leaves in the map of filter f: the first line
\* of each kind with the largest absolute timing.
Prefilter(f, line) ==
    IF \/ f \notin Keeping
       \/ /\ Kind(f, line) \in DOMAIN best[f]
          /\ AbsTiming(line.timing) <= AbsTiming(best[f][Kind(f, line)].timing)
    THEN best[f]
    ELSE [k \in DOMAIN best[f] \cup {Kind(f, line)} |->
            IF k = Kind(f, line) THEN [line_no |-> line_no, timing |-> line.timing]
                                 ELSE best[f][k]]

IsBest(f, line)  == best[f][Kind(f, line)].line_no = line_no
Asserts(f, line) == /\ f \in Keeping
                    /\ IsBest(f, line)
                    /\ best[f][Kind(f, line)].timing # line.timing

\* Mutant: a line of the best timing is kept whichever line it is.
FiltersOut_ByTiming(f, line) ==
    CASE f \in Keeping -> best[f][Kind(f, line)].timing # line.timing
      [] f = "INCREASE_THRESHOLD_TO_300"   -> AbsTiming(line.timing) < 300
      [] f = "REMOVE_CACHE_RESET_SEQUENCE" -> "reset" \in line.cache
      [] f = "REMOVE_ALL_CACHE_SEQUENCES"  -> line.cache # {}

\* ExecuteFilterFunction.
FiltersOut(f, line) ==
    CASE f \in Keeping -> ~IsBest(f, line)
      [] f = "INCREASE_THRESHOLD_TO_300"   -> AbsTiming(line.timing) < 300
      [] f = "REMOVE_CACHE_RESET_SEQUENCE" -> "reset" \in line.cache
      [] f = "REMOVE_ALL_CACHE_SEQUENCES"  -> line.cache # {}

\* The filters that are evaluated for a line: up to the first that takes it out.
Evaluated(line) ==
    {active[i] : i \in {j \in DOMAIN active :
        \A k \in 1..(j - 1) : ~FiltersOut(active[k], line)}}

-----------------------------------------------------------------------------
(* The caller *)

\* What an earlier invocation left in the files that are written now.
Stale == [id |-> 0, fields |-> 16, timing |-> 500, cache |-> {},
          prop |-> [role \in Roles |->
                      [category |-> <<>>, extension |-> <<>>, isa_set |-> <<>>]]]

Applications(p) == Cardinality({i \in DOMAIN p : p[i].op = "apply"})

Init ==
    /\ program \in Programs
    /\ calls = program
    /\ active = <<>>
    /\ best = [f \in ResultFilterFunctions |-> <<>>]
    /\ \E input \in Inputs :
          files = <<input>> \o [n \in 1..Applications(program) |->
                                  [kind |-> "csv", lines |-> <<Stale>>]]
    /\ applied = 0
    /\ mode = "caller"
    /\ line_no = 0

Called(op) ==
    /\ mode = "caller"
    /\ calls # <<>>
    /\ Head(calls).op = op
    /\ calls' = Tail(calls)

\* Mutant: a filter that is active already is added again.
EnableFilter_Twice ==
    /\ Called("enable")
    /\ active' = Append(active, Head(calls).filter)
    /\ UNCHANGED <<program, best, files, applied, mode, line_no>>

EnableFilter ==
    /\ Called("enable")
    /\ active' = IF Contains(active, Head(calls).filter) THEN active
                 ELSE Append(active, Head(calls).filter)
    /\ UNCHANGED <<program, best, files, applied, mode, line_no>>

DisableFilter ==
    /\ Called("disable")
    /\ active' = RemoveFirst(active, Head(calls).filter)
    /\ UNCHANGED <<program, best, files, applied, mode, line_no>>

ClearAllFilters ==
    /\ Called("clear")
    /\ active' = <<>>
    /\ UNCHANGED <<program, best, files, applied, mode, line_no>>

Finish ==
    /\ mode = "caller"
    /\ calls = <<>>
    /\ mode' = "done"
    /\ UNCHANGED <<program, calls, active, best, files, applied, line_no>>

-----------------------------------------------------------------------------
(* ApplyFiltersOnFile *)

Input  == files[applied + 1]
Output == files[applied + 2]
Line   == Input.lines[line_no + 1]

Truncated == [kind |-> "headless", lines |-> <<>>]

\* Mutant: the output is opened to append to what it holds.
OpenFiles_Appends ==
    /\ Called("apply")
    /\ mode' = IF Input.kind = "csv" THEN "prefilter" ELSE "exited"
    /\ line_no' = 0
    /\ UNCHANGED <<program, active, best, files, applied>>

\* The input has to exist, the output is emptied, the header has to match.
OpenFiles ==
    /\ Called("apply")
    /\ mode' = IF Input.kind = "csv" THEN "prefilter" ELSE "exited"
    /\ files' = IF Input.kind = "missing" THEN files
                ELSE [files EXCEPT ![applied + 2] = Truncated]
    /\ line_no' = 0
    /\ UNCHANGED <<program, active, best, applied>>

\* One line of the first pass; a line that does not parse ends the process.
PrefilterLine ==
    /\ mode = "prefilter"
    /\ line_no < Len(Input.lines)
    /\ IF Line.fields # 16
       THEN mode' = "exited" /\ UNCHANGED <<best, line_no>>
       ELSE /\ best' = [f \in ResultFilterFunctions |->
                          IF Contains(active, f) THEN Prefilter(f, Line) ELSE best[f]]
            /\ line_no' = line_no + 1
            /\ UNCHANGED mode
    /\ UNCHANGED <<program, calls, active, files, applied>>

Rewind ==
    /\ mode = "prefilter"
    /\ line_no = Len(Input.lines)
    /\ mode' = "filter"
    /\ line_no' = 0
    /\ files' = [files EXCEPT ![applied + 2].kind = "csv"]
    /\ UNCHANGED <<program, calls, active, best, applied>>

\* One line of the second pass.
FilterLine ==
    /\ mode = "filter"
    /\ line_no < Len(Input.lines)
    /\ IF \E f \in Evaluated(Line) : Asserts(f, Line)
       THEN mode' = "aborted" /\ UNCHANGED <<files, line_no>>
       ELSE /\ files' = IF \E f \in Evaluated(Line) : FiltersOut(f, Line) THEN files
                        ELSE [files EXCEPT ![applied + 2].lines = Append(@, Line)]
            /\ line_no' = line_no + 1
            /\ UNCHANGED mode
    /\ UNCHANGED <<program, calls, active, best, applied>>

CloseFiles ==
    /\ mode = "filter"
    /\ line_no = Len(Input.lines)
    /\ mode' = "caller"
    /\ applied' = applied + 1
    /\ UNCHANGED <<program, calls, active, best, files, line_no>>

Ended ==
    /\ mode \in {"done", "exited", "aborted"}
    /\ UNCHANGED vars

Next ==
    \/ EnableFilter \/ DisableFilter \/ ClearAllFilters \/ Finish
    \/ OpenFiles \/ PrefilterLine \/ Rewind \/ FilterLine \/ CloseFiles
    \/ Ended

Spec == Init /\ [][Next]_vars

-----------------------------------------------------------------------------
(* Properties *)

TypeOK ==
    /\ program \in Programs
    /\ mode \in {"caller", "prefilter", "filter", "done", "exited", "aborted"}
    /\ DOMAIN best = ResultFilterFunctions
    /\ \A i, j \in DOMAIN active :
          active[i] \in ResultFilterFunctions /\ (active[i] = active[j] => i = j)
    /\ applied \in 0..Applications(program)
    /\ line_no \in 0..Len(files[1].lines)
    /\ \A n \in DOMAIN files : File(files[n])

\* Those of the given lines that have the largest absolute timing of their
\* kind, and among equals come first.
FirstBest(f, lines, is) ==
    {i \in is : \A j \in is :
        Kind(f, lines[j]) = Kind(f, lines[i]) =>
            \/ AbsTiming(lines[j].timing) < AbsTiming(lines[i].timing)
            \/ AbsTiming(lines[j].timing) = AbsTiming(lines[i].timing) /\ i <= j}

At(lines, is) == [n \in 1..Cardinality(is) |->
    lines[CHOOSE i \in is : Cardinality({j \in is : j < i}) = n - 1]]

ExtensionsOf(line) ==
    <<line.prop["measurement"]["extension"], line.prop["trigger"]["extension"]>>

\* The lines with the extensions of line i share no key with a line of others.
Apart(lines, is, i) ==
    \A j, k \in is :
        ExtensionsOf(lines[j]) = ExtensionsOf(lines[i])
        /\ ExtensionsOf(lines[k]) # ExtensionsOf(lines[i])
            => \A f \in Keeping : Kind(f, lines[j]) # Kind(f, lines[k])

\* The last file of the filter stage holds, in order, lines that use no cache
\* instruction, and of each pair of a measurement and a trigger extension the
\* strongest (the first, if there are several): the stage in between, which
\* keeps one result of each property tuple, loses none of them.  The keys of
\* the two maps are names run into one another (filter.cc:71-79, 119-120), so
\* this can only be so of a pair that shares no key with another; one that
\* does may lose its only result, but takes no result from a third.
StrongestOfEachPair ==
    mode = "done" /\ program = FilterStage =>
        LET lines == files[1].lines
            plain == {i \in DOMAIN lines : lines[i].cache = {}}
        IN  \E is \in SUBSET plain :
                /\ files[4].lines = At(lines, is)
                /\ \A i \in plain :
                      LET pair == {j \in plain : ExtensionsOf(lines[j]) = ExtensionsOf(lines[i])}
                      IN  Apart(lines, plain, i) =>
                            is \cap pair =
                              FirstBest("MEASUREMENT_TRIGGER_EXTENSION_PAIRS", lines, pair)

\* The assertions of the two filters (filter.cc:109, 144) hold, whichever
\* filters are active together and even when a map, which nothing ever clears,
\* still holds the best lines of an earlier file of the chain.
AssertionsHold == mode # "aborted"

\* Whatever the calls, and even with a map left from another file, a file the
\* filters have written holds lines of its input in their order, ...
CopiesInOrder ==
    \A n \in 1..applied : \E is \in SUBSET DOMAIN files[n].lines :
        files[n + 1].lines = At(files[n].lines, is)

\* ... and when the filter that keeps one line of each kind was active for it,
\* no two of a kind.
NeverTwoOfAKind ==
    [][ mode = "filter" /\ mode' = "caller" =>
          \A i \in DOMAIN active :
             active[i] \in Keeping =>
                \A j, k \in DOMAIN Output.lines :
                   Kind(active[i], Output.lines[j]) = Kind(active[i], Output.lines[k])
                      => j = k ]_vars
=============================================================================
