-------------------------- MODULE Pipeline_proofs --------------------------
(***************************************************************************)
(* Proof that the confirmation runs the instructions that a line names,    *)
(* for every set of lists whose files have different hash tails, any       *)
(* number of invocations and files of any size.                            *)
(*                                                                         *)
(* TestedAsNamed is not inductive: it speaks of the lines that are being   *)
(* tested, and those come from files that an earlier process, perhaps of   *)
(* an earlier invocation, wrote.  LineMade is what all lines of all files  *)
(* keep: they were made from one of the lists.                             *)
(*                                                                         *)
(* Then: what the script reports was confirmed twice by this invocation    *)
(* and was found by the last search, whatever lines earlier invocations    *)
(* left in the directory and wherever a process ended.  Both properties    *)
(* speak of the last stage only.  ReportInv follows the lines from the CSV *)
(* file to it, and says that a stage which finds no file has no line to    *)
(* take from an older one.                                                 *)
(***************************************************************************)
EXTENDS Pipeline, TLAPS

\* An UID holds its tail and its index, and nothing else.
THEOREM UidRoundTrip ==
    ASSUME NEW tail \in 0..(Span - 1), NEW idx \in 0..(Span - 1)
    PROVE  /\ GenerateInstructionUID(tail, idx) \in Nat
           /\ EndOfHash(GenerateInstructionUID(tail, idx)) = tail
           /\ IndexOf(GenerateInstructionUID(tail, idx)) = idx
<1>1. /\ tail \in Int /\ 0 <= tail /\ tail < 65536
      /\ idx \in Int /\ 0 <= idx /\ idx < 65536
  BY SMTT(30) DEF Span
<1>2. \A a, i \in Int : 0 <= i /\ i < 65536 =>
         (a * 65536 + i) \div 65536 = a /\ (a * 65536 + i) % 65536 = i
  OBVIOUS
<1>3. \A a \in Int : 0 <= a /\ a < 65536 => a % 65536 = a
  OBVIOUS
<1>4. /\ (tail * 65536 + idx) \div 65536 = tail
      /\ (tail * 65536 + idx) % 65536 = idx
      /\ tail % 65536 = tail
  BY <1>1, <1>2, <1>3
<1>5. tail * 65536 + idx \in Nat
  BY <1>1
<1>6. GenerateInstructionUID(tail, idx) = tail * 65536 + idx
  BY SMTT(30) DEF GenerateInstructionUID, Span
<1> DEFINE uid == tail * 65536 + idx
<1>7. EndOfHash(uid) = (uid \div 65536) % 65536 /\ IndexOf(uid) = uid % 65536
  BY SMTT(30) DEF EndOfHash, IndexOf, Span
<1> QED
  BY <1>4, <1>5, <1>6, <1>7, SMTT(30)

\* The line names instructions of one list, and its UIDs were made from it.
LineMade(line) ==
    /\ line = [timing |-> line.timing, uid |-> line.uid, text |-> line.text,
               run |-> line.run, passed |-> line.passed]
    /\ DOMAIN line.passed = 1..2
    /\ \E list \in Lists : \A role \in Roles : \E i \in 1..Len(list) :
          /\ line.uid[role] = GenerateInstructionUID(Tail16[list], i - 1)
          /\ line.text[role] = list[i]

AllMade(lines) == \A line \in lines : LineMade(line)

\* The inductive invariant: every line of every file was made from a list, those
\* being tested too; the list that the confirmation loaded is one of them.
LinesMade ==
    /\ \A b \in Bases, name \in FileNames : AllMade(files[b][name].lines)
    /\ AllMade(todo)
    /\ cleaned.kind = "csv" => cleaned.list \in Lists
    /\ stage = "confirming" => cleaned.kind = "csv"
    /\ stage # "confirming" => todo = {}

LEMMA BaseType == Base \in Bases
  BY DEF Base, Bases

\* Writing lines that were made from a list leaves only such lines.
LEMMA WrittenMade ==
    ASSUME NEW new,
           \A b \in Bases, name \in FileNames : AllMade(files[b][name].lines),
           \A name \in DOMAIN new : AllMade(new[name].lines),
           files' = Written(new)
    PROVE  \A b \in Bases, name \in FileNames : AllMade(files[b][name].lines)'
<1> SUFFICES ASSUME NEW b \in Bases, NEW name \in FileNames
             PROVE  AllMade(files'[b][name].lines)
  BY DEF AllMade, LineMade
<1>1. CASE b # Base \/ b \notin DOMAIN files
  BY <1>1 DEF Written
<1>2. CASE b = Base /\ b \in DOMAIN files
  <2>1. files'[b] = [n \in FileNames |-> IF n \in DOMAIN new THEN new[n] ELSE files[Base][n]]
    BY <1>2 DEF Written
  <2> QED
    BY <2>1, <1>2
<1> QED
  BY <1>1, <1>2

\* The lines that a search writes are made from the list it loaded.
LEMMA ResultLineMade ==
    ASSUME cleaned.list \in Lists, NEW c \in [Roles -> 1..Len(cleaned.list)], NEW timing
    PROVE  LineMade(ResultLine(c, timing))
<1> DEFINE line == ResultLine(c, timing)
<1>1. \A role \in Roles :
         /\ c[role] \in 1..Len(cleaned.list)
         /\ line.uid[role] = GenerateInstructionUID(Tail16[cleaned.list], c[role] - 1)
         /\ line.text[role] = cleaned.list[c[role]]
  BY DEF ResultLine
<1>2. /\ line = [timing |-> line.timing, uid |-> line.uid, text |-> line.text,
                 run |-> line.run, passed |-> line.passed]
      /\ DOMAIN line.passed = 1..2
  BY DEF ResultLine
<1> QED
  BY <1>1, <1>2 DEF LineMade

\* What the confirmation writes into its two outputs.
LEMMA OutputsMade ==
    ASSUME NEW f, NEW g, AllMade(f.lines), AllMade(g.lines)
    PROVE  \A name \in DOMAIN Outputs(f, g) : AllMade(Outputs(f, g)[name].lines)
  BY DEF Outputs

\* How far a confirmation gets that opens its outputs.
LEMMA OpenConfirmWrites ==
    ASSUME OpenConfirm
    PROVE  /\ UNCHANGED <<flags, invocation, cleaned>>
           /\ \/ NextProcess /\ UNCHANGED files
              \/ /\ \E f \in {Headless, CsvFile({})},
                       g \in {Headless, CsvFile({}), Content(OutputCleaned)} :
                          files' = Written(Outputs(f, g))
                 /\ NextProcess
              \/ /\ Loads(cleaned)
                 /\ files' = Written(Outputs(CsvFile({}), CsvFile({})))
                 /\ stage' = "confirming"
                 /\ todo' = Content(Input).lines
                 /\ UNCHANGED iter
  BY DEF OpenConfirm

\* What the test of a line leaves of it.
LEMMA TestedLine ==
    ASSUME NEW line, LineMade(line), NEW result
    PROVE  LET new == [line EXCEPT !.timing = result,
                                   !.passed[iter] = IF Passes(result) THEN invocation ELSE 0]
           IN  /\ LineMade(new) /\ Untimed(new) = Untimed(line)
               /\ new.timing = result /\ new.run = line.run
               /\ Passes(result) => new.passed = [line.passed EXCEPT ![iter] = invocation]
<1> DEFINE new == [line EXCEPT !.timing = result,
                               !.passed[iter] = IF Passes(result) THEN invocation ELSE 0]
<1>1. /\ line = [timing |-> line.timing, uid |-> line.uid, text |-> line.text,
                 run |-> line.run, passed |-> line.passed]
  BY DEF LineMade
<1>2. new = [timing |-> result, uid |-> line.uid, text |-> line.text, run |-> line.run,
             passed |-> [line.passed EXCEPT ![iter] =
                           IF Passes(result) THEN invocation ELSE 0]]
  <2> DEFINE p == IF Passes(result) THEN invocation ELSE 0
  <2> HIDE DEF p
  <2>1. [line EXCEPT !.timing = result, !.passed[iter] = p]
           = [timing |-> result, uid |-> line.uid, text |-> line.text, run |-> line.run,
              passed |-> [line.passed EXCEPT ![iter] = p]]
    <3>1. \A rec : [rec EXCEPT !.timing = result, !.passed[iter] = p]
                     = [[rec EXCEPT !.timing = result] EXCEPT !.passed[iter] = p]
      OBVIOUS
    <3>2. [line EXCEPT !.timing = result]
             = [timing |-> result, uid |-> line.uid, text |-> line.text, run |-> line.run,
                passed |-> line.passed]
      BY <1>1
    <3>3. \A t, u, x, n, q :
             [[timing |-> t, uid |-> u, text |-> x, run |-> n, passed |-> q]
                EXCEPT !.passed[iter] = p]
             = [timing |-> t, uid |-> u, text |-> x, run |-> n,
                passed |-> [q EXCEPT ![iter] = p]]
      OBVIOUS
    <3>4. [line EXCEPT !.timing = result, !.passed[iter] = p]
             = [[line EXCEPT !.timing = result] EXCEPT !.passed[iter] = p]
      BY <3>1
    <3>5. [[line EXCEPT !.timing = result] EXCEPT !.passed[iter] = p]
             = [[timing |-> result, uid |-> line.uid, text |-> line.text,
                 run |-> line.run, passed |-> line.passed] EXCEPT !.passed[iter] = p]
      BY <3>2
    <3> QED
      BY <3>3, <3>4, <3>5
  <2> QED
    BY <2>1 DEF p
<1> HIDE DEF new
<1>3. /\ new.timing = result /\ new.uid = line.uid /\ new.text = line.text
      /\ new.run = line.run
      /\ new.passed = [line.passed EXCEPT ![iter] = IF Passes(result) THEN invocation ELSE 0]
      /\ new = [timing |-> new.timing, uid |-> new.uid, text |-> new.text,
                run |-> new.run, passed |-> new.passed]
  BY <1>2
<1>4. LineMade(new)
  <2>1. DOMAIN new.passed = 1..2
    BY <1>3 DEF LineMade
  <2> QED
    BY <1>3, <2>1 DEF LineMade
<1>5. Untimed(new) = Untimed(line)
  BY <1>3 DEF Untimed
<1> QED
  BY <1>3, <1>4, <1>5 DEF new

LEMMA InitLinesMade == Init => LinesMade
  BY DEF Init, LinesMade, AllMade, Missing

LEMMA NextLinesMade == LinesMade /\ [Next]_vars => LinesMade'
<1> SUFFICES ASSUME LinesMade, [Next]_vars PROVE LinesMade'
  OBVIOUS
<1> USE DEF LinesMade
<1>1. CASE GenerateInstructions \/ Invoke \/ Report
  BY <1>1 DEF GenerateInstructions, Invoke, Report, AllMade, LineMade
<1>2. CASE Interrupt
  BY <1>2 DEF Interrupt, AllMade, LineMade
<1>3. CASE Cleanup
  BY <1>3 DEF Cleanup, AllMade, LineMade
<1>4. CASE Search
  <2> SUFFICES \A b \in Bases, name \in FileNames : AllMade(files[b][name].lines)'
    BY <1>4 DEF Search, AfterSearch, AllMade, LineMade
  <2>1. CASE UNCHANGED files
    BY <2>1 DEF AllMade, LineMade
  <2>2. CASE files' = Written([csv |-> Headless])
    <3> DEFINE new == [csv |-> Headless]
    <3>1. \A name \in DOMAIN new : AllMade(new[name].lines)
      BY DEF Headless, AllMade
    <3>2. files' = Written(new)
      BY <2>2
    <3> HIDE DEF new
    <3> QED
      BY <3>1, <3>2, WrittenMade
  <2>3. ASSUME Loads(cleaned), NEW hits \in SUBSET Combinations,
               NEW timing \in [hits -> Differences \ (-50..50)],
               files' = Written([csv |-> CsvFile({ResultLine(c, timing[c]) : c \in hits})])
        PROVE  \A b \in Bases, name \in FileNames : AllMade(files[b][name].lines)'
    <3> DEFINE lines == {ResultLine(c, timing[c]) : c \in hits}
               new == [csv |-> CsvFile(lines)]
    <3>1. cleaned.list \in Lists
      BY <2>3 DEF Loads
    <3>2. \A c \in hits : LineMade(ResultLine(c, timing[c]))
      BY <3>1, ResultLineMade DEF Combinations
    <3>3. \A name \in DOMAIN new : AllMade(new[name].lines)
      BY <3>2 DEF CsvFile, AllMade
    <3>4. files' = Written(new)
      BY <2>3
    <3> HIDE DEF new
    <3> QED
      BY <3>3, <3>4, WrittenMade
  <2> QED
    BY <1>4, <2>1, <2>2, <2>3 DEF Search
<1>5. CASE Prefilter
  <2> SUFFICES \A b \in Bases, name \in FileNames : AllMade(files[b][name].lines)'
    BY <1>5 DEF Prefilter, AllMade, LineMade
  <2>1. CASE UNCHANGED files
    BY <2>1 DEF AllMade, LineMade
  <2>2. ASSUME NEW f, AllMade(f.lines), files' = Written([nocache |-> f])
        PROVE  \A b \in Bases, name \in FileNames : AllMade(files[b][name].lines)'
    <3> DEFINE new == [nocache |-> f]
    <3>1. (\A name \in DOMAIN new : AllMade(new[name].lines)) /\ files' = Written(new)
      BY <2>2
    <3> HIDE DEF new
    <3> QED
      BY <3>1, WrittenMade
  <2>3. \A lines \in SUBSET Content("csv").lines :
           AllMade(Headless.lines) /\ AllMade(CsvFile(lines).lines)
    BY BaseType DEF Headless, CsvFile, AllMade, Content, FileNames
  <2> QED
    BY <1>5, <2>1, <2>2, <2>3 DEF Prefilter
<1>6. CASE OpenConfirm
  <2>1. /\ AllMade(Headless.lines) /\ AllMade(CsvFile({}).lines)
        /\ AllMade(Content(OutputCleaned).lines) /\ AllMade(Content(Input).lines)
    BY BaseType DEF Headless, CsvFile, AllMade, Content, Input, OutputCleaned, FileNames
  <2>2. \/ UNCHANGED files
        \/ \E f \in {Headless, CsvFile({})},
              g \in {Headless, CsvFile({}), Content(OutputCleaned)} :
                 files' = Written(Outputs(f, g))
    BY <1>6, OpenConfirmWrites
  <2>3. \A b \in Bases, name \in FileNames : AllMade(files[b][name].lines)'
    <3>1. CASE UNCHANGED files
      BY <3>1 DEF AllMade, LineMade
    <3>2. ASSUME NEW f, NEW g, AllMade(f.lines), AllMade(g.lines),
                 files' = Written(Outputs(f, g))
          PROVE  \A b \in Bases, name \in FileNames : AllMade(files[b][name].lines)'
      BY <3>2, OutputsMade, WrittenMade
    <3> QED
      BY <2>1, <2>2, <3>1, <3>2
  <2>4. AllMade(todo)'
    <3>1. todo' = {} \/ todo' = Content(Input).lines
      BY <1>6, OpenConfirmWrites DEF NextProcess
    <3> QED
      BY <2>1, <3>1 DEF AllMade, LineMade
  <2>5. /\ UNCHANGED cleaned
        /\ stage' = "confirming" => Loads(cleaned)
        /\ stage' # "confirming" => todo' = {}
    BY <1>6, OpenConfirmWrites DEF NextProcess
  <2> QED
    BY <2>3, <2>4, <2>5 DEF Loads
<1>7. CASE EndConfirm
  BY <1>7 DEF EndConfirm, NextProcess, AllMade, LineMade
<1>8. ASSUME NEW line \in todo, ConfirmExits(line) PROVE LinesMade'
  BY <1>8 DEF ConfirmExits, NextProcess, AllMade, LineMade
<1>9. ASSUME NEW line \in todo, SkipLine(line) PROVE LinesMade'
  BY <1>9 DEF SkipLine, AllMade, LineMade
<1>10. ASSUME NEW line \in todo, NEW result \in Differences \cup {-1},
              ConfirmLine(line, result)
       PROVE  LinesMade'
  <2> DEFINE new  == [line EXCEPT !.timing = result,
                         !.passed[iter] = IF Passes(result) THEN invocation ELSE 0]
             kept == IF Passes(result) THEN {new} ELSE {}
             out  == CsvFile(Content(Output).lines \cup {new})
             outc == CsvFile(Content(OutputCleaned).lines \cup kept)
  <2>1. files' = Written(Outputs(out, outc))
    BY <1>10 DEF ConfirmLine
  <2>2. LineMade(new)
    BY TestedLine DEF AllMade
  <2>3. AllMade(Content(Output).lines) /\ AllMade(Content(OutputCleaned).lines)
    BY BaseType DEF Content, Output, OutputCleaned, FileNames
  <2>4. AllMade(out.lines) /\ AllMade(outc.lines)
    BY <2>2, <2>3 DEF CsvFile, AllMade
  <2> HIDE DEF out, outc
  <2>5. \A b \in Bases, name \in FileNames : AllMade(files[b][name].lines)'
    BY <2>1, <2>4, OutputsMade, WrittenMade
  <2> QED
    BY <1>10, <2>5 DEF ConfirmLine, AllMade, LineMade
<1>11. CASE Filter
  <2> SUFFICES \A b \in Bases, name \in FileNames : AllMade(files[b][name].lines)'
    BY <1>11 DEF Filter, AllMade, LineMade
  <2>1. CASE UNCHANGED files
    BY <2>1 DEF AllMade, LineMade
  <2>2. ASSUME NEW f, AllMade(f.lines), files' = Written([filtered |-> f])
        PROVE  \A b \in Bases, name \in FileNames : AllMade(files[b][name].lines)'
    <3> DEFINE new == [filtered |-> f]
    <3>1. (\A name \in DOMAIN new : AllMade(new[name].lines)) /\ files' = Written(new)
      BY <2>2
    <3> HIDE DEF new
    <3> QED
      BY <3>1, WrittenMade
  <2>3. \A lines \in SUBSET Content("iter2_cleaned").lines :
           AllMade(Headless.lines) /\ AllMade(CsvFile(lines).lines)
    BY BaseType DEF Headless, CsvFile, AllMade, Content, FileNames
  <2> QED
    BY <1>11, <2>1, <2>2, <2>3 DEF Filter
<1>12. CASE UNCHANGED vars
  BY <1>12 DEF vars, AllMade, LineMade
<1> QED
  BY <1>1, <1>2, <1>3, <1>4, <1>5, <1>6, <1>7, <1>8, <1>9, <1>10, <1>11, <1>12
  DEF Next

\* In every state a line being tested names, in each role, what its UID is looked
\* up to: the hash tails differ, so that the lookup is in the list it was made
\* from, or ends the process.
LEMMA LinesMadeTestsAsNamed == LinesMade => TestedAsNamed
<1> SUFFICES ASSUME LinesMade, stage = "confirming",
                    NEW line \in todo, NEW role \in Roles
             PROVE  Lookup(line, role) \in {line.text[role], Exit}
  BY DEF TestedAsNamed
<1>1. LineMade(line) /\ cleaned.list \in Lists
  BY DEF LinesMade, AllMade
<1>2. PICK list \in Lists : \E i \in 1..Len(list) :
         /\ line.uid[role] = GenerateInstructionUID(Tail16[list], i - 1)
         /\ line.text[role] = list[i]
  BY <1>1 DEF LineMade
<1>2a. PICK i \in 1..Len(list) :
         /\ line.uid[role] = GenerateInstructionUID(Tail16[list], i - 1)
         /\ line.text[role] = list[i]
  BY <1>2
<1>3. /\ Tail16[list] \in 0..(Span - 1)
      /\ Len(list) \in Int /\ Len(list) <= Span - 1 /\ Span \in Int
  <2>1. Span \in Int
    BY DEF Span
  <2>2. Tail16[list] \in 0..(Span - 1)
    BY TailsAssumption
  <2>3. Len(list) \in 0..(Span - 1)
    BY ListsAssumption
  <2> QED
    BY <2>1, <2>2, <2>3
<1>4. i - 1 \in 0..(Span - 1) /\ i - 1 < Len(list) /\ i - 1 + 1 = i
  BY <1>3
<1>5. EndOfHash(line.uid[role]) = Tail16[list] /\ IndexOf(line.uid[role]) = i - 1
  BY <1>2a, <1>3, <1>4, UidRoundTrip
<1>6. CASE Tail16[cleaned.list] = Tail16[list]
  <2>1. cleaned.list = list
    BY <1>1, <1>6, TailsAssumption
  <2>2. CreateInstructionFromIndex(list, i - 1) = list[i]
    BY <1>3, <1>4 DEF CreateInstructionFromIndex
  <2> QED
    BY <1>2a, <1>5, <2>1, <2>2 DEF Lookup, CreateInstructionFromUID, MadeFrom
<1>7. CASE Tail16[cleaned.list] # Tail16[list]
  BY <1>5, <1>7 DEF Lookup, CreateInstructionFromUID, MadeFrom
<1> QED
  BY <1>6, <1>7

\* The confirmation runs the instructions that a line names, or none
\* (CreateInstructionFromUID and its callers, osiris.cc:117-124).
THEOREM ConfirmationTestsAsNamed == Spec => []TestedAsNamed
<1>1. Spec => []LinesMade
  BY InitLinesMade, NextLinesMade, PTL DEF Spec
<1> QED
  BY <1>1, LinesMadeTestsAsNamed, PTL

-----------------------------------------------------------------------------
(* What is reported *)

\* All lines of the file were found by one search and passed the same confirmations.
Alike(lines) ==
    \A line1, line2 \in lines : line1.run = line2.run /\ line1.passed = line2.passed

\* The files that one stage hands to the next.
Handed == {"csv", "nocache", "iter1_cleaned", "iter2_cleaned", "filtered"}

\* The files F of a base name: a cleaned output holds what passed the confirmation
\* that opened it.
LinesInv(F) ==
    /\ \A name \in FileNames : F[name].opened \in 0..invocation
    /\ \A name \in Handed : Alike(F[name].lines)
    /\ \A line \in F["csv"].lines : line.run = F["csv"].opened
    /\ \A line \in F["iter1_cleaned"].lines :
          line.passed[1] = F["iter1_cleaned"].opened /\ 0 < line.passed[1]
    /\ \A line \in F["iter2_cleaned"].lines :
          /\ line.passed[2] = F["iter2_cleaned"].opened
          /\ 0 < line.passed[1] /\ line.passed[1] <= line.passed[2]
    /\ \A line \in F["filtered"].lines :
          /\ 0 < line.passed[1] /\ line.passed[1] <= line.passed[2]
          /\ line.passed[2] <= F["filtered"].opened

\* The lines of the file were found by the search that wrote the CSV file last.
Found(name) == \A line \in Content(name).lines : line.run = Content("csv").opened

PassedNow(name) == \A line \in Content(name).lines : line.passed[1] = invocation

OwnInput == flags.filter_cache => Own("nocache")

\* What a file holds when this invocation opened those it was made from.
ChainInv ==
    /\ Own("nocache") => Found("nocache")
    /\ Own("iter1_cleaned") /\ OwnInput => Found("iter1_cleaned")
    /\ Own("iter1_cleaned") /\ Own("iter2_cleaned") =>
          PassedNow("iter2_cleaned") /\ (OwnInput => Found("iter2_cleaned"))
    /\ Own("iter1_cleaned") /\ Own("iter2_cleaned") /\ Own("filtered") =>
          PassedNow("filtered") /\ (OwnInput => Found("filtered"))

\* The files that no process of this invocation has opened yet.
Later ==
    CASE stage \in {"cleanup", "search", "prefilter"} ->
            {"nocache", "iter1_cleaned", "iter2_cleaned", "filtered"}
      [] stage = "confirm" /\ iter = 1 -> {"iter1_cleaned", "iter2_cleaned", "filtered"}
      [] \/ stage = "confirm" /\ iter # 1
         \/ stage = "confirming" /\ iter = 1 -> {"iter2_cleaned", "filtered"}
      [] \/ stage = "confirming" /\ iter # 1
         \/ stage = "filter" -> {"filtered"}
      [] OTHER -> {}

\* The lines that a confirmation has written into its cleaned output g are lines of its
\* input that passed it now.
FromInput(g) ==
    /\ g.opened = invocation
    /\ \A line \in g.lines : \E from \in Content(Input).lines :
          /\ line.run = from.run
          /\ line.passed = [from.passed EXCEPT ![iter] = invocation]

ConfirmingInv == FromInput(Content(OutputCleaned)) /\ todo \subseteq Content(Input).lines

\* The inductive invariant.
ReportInv ==
    /\ DOMAIN files = Bases
    /\ iter \in {1, 2}
    /\ invocation \in Nat
    /\ stage = "prefilter" => iter = 1
    /\ \A b \in Bases : LinesInv(files[b])
    /\ stage # "idle" =>
          invocation # 0 /\ ChainInv /\ \A name \in Later : ~Own(name)
    /\ stage = "confirming" => ConfirmingInv

\* What Written changes, and what it leaves.
LEMMA WrittenIs ==
    ASSUME NEW new, DOMAIN files = Bases, files' = Written(new)
    PROVE  /\ DOMAIN files' = Bases
           /\ \A b \in Bases : b # Base => files'[b] = files[b]
           /\ \A name \in FileNames \cap DOMAIN new : files'[Base][name] = new[name]
           /\ \A name \in FileNames \ DOMAIN new : files'[Base][name] = files[Base][name]
<1>1. files' = [b \in Bases |->
          IF b = Base THEN [name \in FileNames |->
                              IF name \in DOMAIN new THEN new[name] ELSE files[Base][name]]
          ELSE files[b]]
  BY DEF Written
<1>2. files'[Base] = [name \in FileNames |->
                        IF name \in DOMAIN new THEN new[name] ELSE files[Base][name]]
  BY <1>1, BaseType
<1> QED
  BY <1>1, <1>2

\* What the files are after one of them was written.
LEMMA OneWritten ==
    ASSUME NEW name \in FileNames, NEW file, DOMAIN files = Bases, UNCHANGED flags,
           NEW new, DOMAIN new = {name}, new[name] = file, files' = Written(new)
    PROVE  /\ DOMAIN files' = Bases
           /\ \A b \in Bases : b # Base => files'[b] = files[b]
           /\ files'[Base][name] = file
           /\ \A n \in FileNames \ {name} : files'[Base][n] = files[Base][n]
           /\ Base' = Base
<1>1. Base' = Base
  BY DEF Base
<1> QED
  BY <1>1, WrittenIs

\* What the two outputs of a confirmation are after it wrote them.
LEMMA OutputsAre ==
    ASSUME NEW f, NEW g, DOMAIN files = Bases, iter \in {1, 2},
           files' = Written(Outputs(f, g))
    PROVE  /\ DOMAIN files' = Bases
           /\ \A b \in Bases : b # Base => files'[b] = files[b]
           /\ files'[Base][Output] = f
           /\ files'[Base][OutputCleaned] = g
           /\ \A name \in FileNames \ {Output, OutputCleaned} :
                 files'[Base][name] = files[Base][name]
<1>1. {Output, OutputCleaned} \subseteq FileNames /\ OutputCleaned # Output
  BY DEF OutputCleaned, Output, FileNames
<1>2. /\ DOMAIN Outputs(f, g) = {Output, OutputCleaned}
      /\ Outputs(f, g)[Output] = f /\ Outputs(f, g)[OutputCleaned] = g
  BY <1>1 DEF Outputs
<1> HIDE DEF Outputs
<1> QED
  BY <1>1, <1>2, WrittenIs

\* A process that opens no file, or has ended, leaves what the others find.
LEMMA NothingOpened ==
    ASSUME ReportInv, UNCHANGED <<files, flags, invocation>>, iter' \in {1, 2},
           stage' # "confirming", stage' = "prefilter" => iter' = 1,
           stage' # "idle" => stage # "idle" /\ Later' \subseteq Later
    PROVE  ReportInv'
<1>1. /\ DOMAIN files' = Bases /\ invocation' \in Nat
      /\ \A b \in Bases : LinesInv(files[b])'
  BY DEF ReportInv, LinesInv
<1>2. ASSUME stage' # "idle"
      PROVE  invocation' # 0 /\ ChainInv' /\ \A name \in Later' : ~Own(name)'
  <2>1. invocation # 0 /\ ChainInv /\ \A name \in Later : ~Own(name)
    BY <1>2 DEF ReportInv
  <2>2. Base' = Base
    BY DEF Base
  <2>3. \A name : Content(name)' = Content(name)
    BY <2>2 DEF Content
  <2>4. \A name : Own(name)' <=> Own(name)
    BY <2>3 DEF Own
  <2>5. ChainInv'
    BY <2>1, <2>3, <2>4 DEF ChainInv, Found, PassedNow, OwnInput
  <2> QED
    BY <1>2, <2>1, <2>4, <2>5
<1> QED
  BY <1>1, <1>2 DEF ReportInv

\* The process ends while it tests, or before it opens its outputs.
LEMMA ConfirmationEnds ==
    ASSUME ReportInv, stage \in {"confirm", "confirming"}, NextProcess,
           UNCHANGED <<files, flags, invocation>>
    PROVE  ReportInv'
<1>1. CASE iter = 1
  BY <1>1, NothingOpened DEF NextProcess, Later
<1>2. CASE iter = 2
  BY <1>2, NothingOpened DEF NextProcess, Later
<1> QED
  BY <1>1, <1>2 DEF ReportInv

LEMMA InitReportInv == Init => ReportInv
  BY DEF Init, ReportInv, LinesInv, Alike, Handed, Missing, FileNames, Bases

\* The files of the other search are not written.
LEMMA OtherBase ==
    ASSUME ReportInv, UNCHANGED <<flags, invocation>>,
           \A b \in Bases : b # Base => files'[b] = files[b],
           LinesInv(files[Base])'
    PROVE  \A b \in Bases : LinesInv(files[b])'
<1>1. Base' = Base
  BY DEF Base
<1> QED
  BY <1>1 DEF ReportInv, LinesInv

\* What was not written is of this invocation if it was before, and holds the same.
LEMMA NotWritten ==
    ASSUME UNCHANGED <<flags, invocation>>, NEW name, files'[Base][name] = files[Base][name]
    PROVE  Content(name)' = Content(name) /\ (Own(name)' <=> Own(name))
<1>1. Base' = Base
  BY DEF Base
<1>2. Content(name)' = Content(name)
  BY <1>1 DEF Content
<1> QED
  BY <1>2 DEF Own

LEMMA SearchReport == ASSUME ReportInv, Search PROVE ReportInv'
<1>1. /\ stage = "search" /\ stage' \in {"prefilter", "confirm"} /\ iter' = 1
      /\ UNCHANGED <<flags, invocation>> /\ Base' = Base
  BY DEF Search, AfterSearch, Base
<1>2. /\ Later = {"nocache", "iter1_cleaned", "iter2_cleaned", "filtered"}
      /\ Later' \subseteq Later
  BY <1>1 DEF Later
<1>3. CASE UNCHANGED files
  BY <1>1, <1>2, <1>3, NothingOpened
<1>4. ASSUME NEW f, f.opened = invocation, \A line \in f.lines : line.run = invocation,
             Alike(f.lines), files' = Written([csv |-> f])
      PROVE  ReportInv'
  <2> DEFINE new == [csv |-> f]
  <2>1. DOMAIN new = {"csv"} /\ new["csv"] = f /\ files' = Written(new)
    BY <1>4
  <2> HIDE DEF new
  <2>2. /\ DOMAIN files' = Bases
        /\ \A b \in Bases : b # Base => files'[b] = files[b]
        /\ files'[Base]["csv"] = f
        /\ \A n \in FileNames \ {"csv"} : files'[Base][n] = files[Base][n]
    BY <1>1, <2>1, OneWritten DEF ReportInv, FileNames
  <2>3. /\ LinesInv(files[Base]) /\ invocation \in Nat /\ invocation # 0 /\ ChainInv
        /\ \A name \in Later : ~Own(name)
    BY <1>1, BaseType DEF ReportInv
  <2>4. LinesInv(files[Base])'
    BY <1>1, <1>4, <2>2, <2>3 DEF LinesInv, Handed, FileNames, Alike
  <2>5. \A name \in Later : Own(name)' <=> Own(name)
    BY <1>1, <1>2, <2>2, NotWritten DEF FileNames
  <2>6. ChainInv' /\ \A name \in Later' : ~Own(name)'
    BY <1>2, <2>3, <2>5 DEF ChainInv
  <2> QED
    BY <1>1, <2>2, <2>3, <2>4, <2>6, OtherBase DEF ReportInv
<1>5. /\ Headless.opened = invocation /\ Alike(Headless.lines)
      /\ \A line \in Headless.lines : line.run = invocation
  BY DEF Headless, Alike
<1>6. ASSUME NEW hits, NEW timing
      PROVE  LET f == CsvFile({ResultLine(c, timing[c]) : c \in hits})
             IN  /\ f.opened = invocation /\ Alike(f.lines)
                 /\ \A line \in f.lines : line.run = invocation
  BY DEF CsvFile, ResultLine, Alike
<1>7. \/ UNCHANGED files
      \/ files' = Written([csv |-> Headless])
      \/ \E hits \in SUBSET Combinations :
         \E timing \in [hits -> Differences \ (-50..50)] :
            files' = Written([csv |-> CsvFile({ResultLine(c, timing[c]) : c \in hits})])
  BY DEF Search
<1> HIDE DEF ReportInv, Headless, CsvFile
<1> QED
  BY <1>3, <1>4, <1>5, <1>6, <1>7

LEMMA PrefilterReport == ASSUME ReportInv, Prefilter PROVE ReportInv'
<1>1. /\ stage = "prefilter" /\ stage' = "confirm" /\ iter = 1 /\ iter' = 1
      /\ UNCHANGED <<flags, invocation>> /\ Base' = Base
  BY DEF Prefilter, ReportInv, Base
<1>2. /\ Later = {"nocache", "iter1_cleaned", "iter2_cleaned", "filtered"}
      /\ Later' = {"iter1_cleaned", "iter2_cleaned", "filtered"}
  BY <1>1 DEF Later
<1>3. CASE UNCHANGED files
  BY <1>1, <1>2, <1>3, NothingOpened
<1>4. ASSUME NEW f, f.opened = invocation, f.lines \subseteq Content("csv").lines,
             files' = Written([nocache |-> f])
      PROVE  ReportInv'
  <2> DEFINE new == [nocache |-> f]
  <2>1. DOMAIN new = {"nocache"} /\ new["nocache"] = f /\ files' = Written(new)
    BY <1>4
  <2> HIDE DEF new
  <2>2. /\ DOMAIN files' = Bases
        /\ \A b \in Bases : b # Base => files'[b] = files[b]
        /\ files'[Base]["nocache"] = f
        /\ \A n \in FileNames \ {"nocache"} : files'[Base][n] = files[Base][n]
    BY <1>1, <2>1, OneWritten DEF ReportInv, FileNames
  <2>3. /\ LinesInv(files[Base]) /\ invocation \in Nat /\ invocation # 0 /\ ChainInv
        /\ \A name \in Later : ~Own(name)
    BY <1>1, BaseType DEF ReportInv
  <2>4. LinesInv(files[Base])'
    BY <1>1, <1>4, <2>2, <2>3 DEF LinesInv, Handed, FileNames, Alike, Content
  <2>5. /\ Content("csv")' = Content("csv")
        /\ \A name \in Later' : Own(name)' <=> Own(name)
    BY <1>1, <1>2, <2>2, NotWritten DEF FileNames
  <2>6. Content("nocache")' = f
    BY <1>1, <2>2 DEF Content
  <2>7. Found("nocache")'
    BY <1>4, <2>3, <2>5, <2>6 DEF Found, LinesInv, Content
  <2>8. ChainInv' /\ \A name \in Later' : ~Own(name)'
    BY <1>2, <2>3, <2>5, <2>7 DEF ChainInv
  <2> QED
    BY <1>1, <2>2, <2>3, <2>4, <2>8, OtherBase DEF ReportInv
<1>5. \A lines \in SUBSET Content("csv").lines :
         /\ Headless.opened = invocation /\ Headless.lines \subseteq Content("csv").lines
         /\ CsvFile(lines).opened = invocation
         /\ CsvFile(lines).lines \subseteq Content("csv").lines
  BY DEF Headless, CsvFile
<1> QED
  BY <1>3, <1>4, <1>5 DEF Prefilter

LEMMA FilterReport == ASSUME ReportInv, Filter PROVE ReportInv'
<1>1. /\ stage = "filter" /\ stage' = "report" /\ iter' = iter /\ iter \in {1, 2}
      /\ UNCHANGED <<flags, invocation>> /\ Base' = Base
  BY DEF Filter, ReportInv, Base
<1>2. Later = {"filtered"} /\ Later' = {}
  BY <1>1 DEF Later
<1>3. CASE UNCHANGED files
  BY <1>1, <1>2, <1>3, NothingOpened
<1>4. ASSUME NEW f, f.opened = invocation, f.lines \subseteq Content("iter2_cleaned").lines,
             files' = Written([filtered |-> f])
      PROVE  ReportInv'
  <2> DEFINE new == [filtered |-> f]
  <2>1. DOMAIN new = {"filtered"} /\ new["filtered"] = f /\ files' = Written(new)
    BY <1>4
  <2> HIDE DEF new
  <2>2. /\ DOMAIN files' = Bases
        /\ \A b \in Bases : b # Base => files'[b] = files[b]
        /\ files'[Base]["filtered"] = f
        /\ \A n \in FileNames \ {"filtered"} : files'[Base][n] = files[Base][n]
    BY <1>1, <2>1, OneWritten DEF ReportInv, FileNames
  <2>3. /\ LinesInv(files[Base]) /\ invocation \in Nat /\ invocation # 0 /\ ChainInv
    BY <1>1, BaseType DEF ReportInv
  <2>4. LinesInv(files[Base])'
    <3>1. \A line \in f.lines :
             /\ 0 < line.passed[1] /\ line.passed[1] <= line.passed[2]
             /\ line.passed[2] <= f.opened
      BY <1>4, <2>3 DEF LinesInv, Content, FileNames
    <3> QED
      BY <1>1, <1>4, <2>2, <2>3, <3>1 DEF LinesInv, Handed, FileNames, Alike, Content
  <2>5. \A name \in {"csv", "nocache", "iter1_cleaned", "iter2_cleaned"} :
           Content(name)' = Content(name) /\ (Own(name)' <=> Own(name))
    BY <1>1, <2>2, NotWritten DEF FileNames
  <2>6. Content("filtered")' = f
    BY <1>1, <2>2 DEF Content
  <2>7. ChainInv'
    BY <1>1, <1>4, <2>3, <2>5, <2>6 DEF ChainInv, Found, PassedNow, OwnInput
  <2> QED
    BY <1>1, <1>2, <2>2, <2>3, <2>4, <2>7, OtherBase DEF ReportInv
<1>5. \A lines \in SUBSET Content("iter2_cleaned").lines :
         /\ Headless.opened = invocation
         /\ Headless.lines \subseteq Content("iter2_cleaned").lines
         /\ CsvFile(lines).opened = invocation
         /\ CsvFile(lines).lines \subseteq Content("iter2_cleaned").lines
  BY DEF Headless, CsvFile
<1> QED
  BY <1>3, <1>4, <1>5 DEF Filter

\* What holds of the files when the cleaned output is written, or left alone.
LEMMA OutputsReport ==
    ASSUME ReportInv, LinesMade, UNCHANGED <<flags, invocation>>,
           stage \in {"confirm", "confirming"},
           NEW f, NEW g, files' = Written(Outputs(f, g)), f.opened = invocation,
           FromInput(g) \/ g = Content(OutputCleaned)
    PROVE  /\ DOMAIN files' = Bases
           /\ \A b \in Bases : LinesInv(files[b])'
           /\ ChainInv'
           /\ \A name \in {"iter2_cleaned", "filtered"} \ {OutputCleaned} :
                 Own(name)' <=> Own(name)
           /\ files'[Base][OutputCleaned] = g
           /\ files'[Base][Input] = files[Base][Input]
<1>1. /\ iter \in {1, 2} /\ invocation \in Nat /\ invocation # 0 /\ ChainInv
      /\ LinesInv(files[Base]) /\ \A name \in Later : ~Own(name)
  BY BaseType DEF ReportInv
<1>2. /\ DOMAIN files' = Bases
      /\ \A b \in Bases : b # Base => files'[b] = files[b]
      /\ files'[Base][Output] = f /\ files'[Base][OutputCleaned] = g
      /\ \A name \in FileNames \ {Output, OutputCleaned} :
            files'[Base][name] = files[Base][name]
      /\ Base' = Base
  BY <1>1, OutputsAre DEF ReportInv, Base
<1>3. Input \in Handed /\ Input \in FileNames \ {Output, OutputCleaned}
  BY <1>1 DEF Input, Output, OutputCleaned, Handed, FileNames
<1>4. ASSUME g = Content(OutputCleaned)
      PROVE  LinesInv(files[Base])' /\ ChainInv'
  <2>1. \A name \in FileNames \ {Output} : files'[Base][name] = files[Base][name]
    BY <1>2, <1>4 DEF Content
  <2>2. Output \in FileNames \ Handed
    BY <1>1 DEF Output, FileNames, Handed
  <2>3. \A name \in Handed : files'[Base][name] = files[Base][name]
    BY <2>1, <2>2 DEF Handed, FileNames
  <2>4. LinesInv(files[Base])'
    <3>1. \A name \in FileNames : files'[Base][name].opened \in 0..invocation
      BY <1>1, <1>2, <2>1 DEF LinesInv
    <3> QED
      BY <1>1, <1>2, <2>3, <3>1 DEF LinesInv, Alike, Handed
  <2>5. \A name \in Handed : Content(name)' = Content(name) /\ (Own(name)' <=> Own(name))
    BY <2>3, NotWritten
  <2>6. ChainInv'
    BY <1>1, <2>5 DEF ChainInv, Found, PassedNow, OwnInput, Handed
  <2> QED
    BY <2>4, <2>6
<1>5. ASSUME FromInput(g)
      PROVE  LinesInv(files[Base])' /\ ChainInv'
  <2>1. \A l \in Content(Input).lines : DOMAIN l.passed = 1..2
    BY <1>3, BaseType DEF LinesMade, AllMade, LineMade, Content
  <2>2. \A line \in g.lines : \E from \in Content(Input).lines :
           /\ line.run = from.run
           /\ line.passed = [from.passed EXCEPT ![iter] = invocation]
    BY <1>5 DEF FromInput
  <2>3. \A line \in g.lines : \E from \in Content(Input).lines :
           /\ line.run = from.run
           /\ line.passed[iter] = invocation
           /\ iter = 2 => line.passed[1] = from.passed[1]
    <3> SUFFICES ASSUME NEW line \in g.lines
                 PROVE  \E from \in Content(Input).lines :
                           /\ line.run = from.run
                           /\ line.passed[iter] = invocation
                           /\ iter = 2 => line.passed[1] = from.passed[1]
      OBVIOUS
    <3>1. PICK from \in Content(Input).lines :
             /\ line.run = from.run
             /\ line.passed = [from.passed EXCEPT ![iter] = invocation]
      BY <2>2
    <3>2. /\ line.passed[iter] = invocation
          /\ iter = 2 => line.passed[1] = from.passed[1]
      BY <1>1, <2>1, <3>1
    <3> QED
      BY <3>1, <3>2
  <2>4. Alike(Content(Input).lines)
    BY <1>1, <1>3 DEF LinesInv, Content
  <2>5. Alike(g.lines)
    <3> SUFFICES ASSUME NEW line1 \in g.lines, NEW line2 \in g.lines
                 PROVE  line1.run = line2.run /\ line1.passed = line2.passed
      BY DEF Alike
    <3>1. PICK from1 \in Content(Input).lines :
             /\ line1.run = from1.run
             /\ line1.passed = [from1.passed EXCEPT ![iter] = invocation]
      BY <2>2
    <3>2. PICK from2 \in Content(Input).lines :
             /\ line2.run = from2.run
             /\ line2.passed = [from2.passed EXCEPT ![iter] = invocation]
      BY <2>2
    <3> QED
      BY <2>4, <3>1, <3>2 DEF Alike
  <2>6. CASE iter = 1
    <3>1. Output = "iter1" /\ OutputCleaned = "iter1_cleaned"
      BY <2>6 DEF Output, OutputCleaned
    <3>2. LinesInv(files[Base])'
      <4>1. /\ \A name \in FileNames : files'[Base][name].opened \in 0..invocation
            /\ \A name \in Handed : Alike(files'[Base][name].lines)
        BY <1>1, <1>2, <1>5, <2>5, <3>1 DEF LinesInv, FromInput, FileNames, Handed
      <4>2. \A line \in g.lines : line.passed[1] = g.opened /\ 0 < line.passed[1]
        BY <1>1, <1>5, <2>3, <2>6 DEF FromInput
      <4> QED
        BY <1>1, <1>2, <3>1, <4>1, <4>2 DEF LinesInv, FileNames
    <3>3. \A name \in {"csv", "nocache", "iter2_cleaned", "filtered"} :
             Content(name)' = Content(name) /\ (Own(name)' <=> Own(name))
      BY <1>2, <3>1, NotWritten DEF FileNames
    <3>4. ~Own("iter2_cleaned") /\ ~Own("filtered")
      BY <1>1, <2>6 DEF Later
    <3>5. Content("iter1_cleaned")' = g
      BY <1>2, <3>1 DEF Content
    <3>6. OwnInput => \A l \in Content(Input).lines : l.run = Content("csv").opened
      BY <1>1, <2>6 DEF OwnInput, Input, ChainInv, Found, LinesInv, Content
    <3>7. OwnInput => \A line \in g.lines : line.run = Content("csv").opened
      BY <2>3, <3>6
    <3>8. ChainInv'
      BY <1>1, <3>3, <3>4, <3>5, <3>7 DEF ChainInv, Found, OwnInput
    <3> QED
      BY <3>2, <3>8
  <2>7. CASE iter = 2
    <3>1. Output = "iter2" /\ OutputCleaned = "iter2_cleaned" /\ Input = "iter1_cleaned"
      BY <2>7 DEF Output, OutputCleaned, Input
    <3>2. \A line \in g.lines :
             /\ line.passed[1] = Content("iter1_cleaned").opened
             /\ 0 < line.passed[1]
             /\ line.passed[2] = invocation
      BY <1>1, <2>3, <2>7, <3>1 DEF LinesInv, Content
    <3>3. LinesInv(files[Base])'
      <4>1. /\ \A name \in FileNames : files'[Base][name].opened \in 0..invocation
            /\ \A name \in Handed : Alike(files'[Base][name].lines)
        BY <1>1, <1>2, <1>5, <2>5, <3>1 DEF LinesInv, FromInput, FileNames, Handed
      <4>2. Content("iter1_cleaned").opened \in 0..invocation
        BY <1>1 DEF LinesInv, Content, FileNames
      <4>3. \A line \in g.lines :
               /\ line.passed[2] = g.opened
               /\ 0 < line.passed[1] /\ line.passed[1] <= line.passed[2]
        BY <1>1, <1>5, <3>2, <4>2 DEF FromInput
      <4> QED
        BY <1>1, <1>2, <3>1, <4>1, <4>3 DEF LinesInv, FileNames
    <3>4. \A name \in {"csv", "nocache", "iter1_cleaned", "filtered"} :
             Content(name)' = Content(name) /\ (Own(name)' <=> Own(name))
      BY <1>2, <3>1, NotWritten DEF FileNames
    <3>5. ~Own("filtered")
      BY <1>1, <2>7 DEF Later
    <3>6. Content("iter2_cleaned")' = g
      BY <1>2, <3>1 DEF Content
    <3>7. Own("iter1_cleaned") =>
             /\ \A line \in g.lines : line.passed[1] = invocation
             /\ OwnInput => \A line \in g.lines : line.run = Content("csv").opened
      BY <1>1, <2>3, <3>1, <3>2 DEF ChainInv, Found, Own
    <3>8. ChainInv'
      BY <1>1, <3>4, <3>5, <3>6, <3>7 DEF ChainInv, Found, PassedNow, OwnInput
    <3> QED
      BY <3>3, <3>8
  <2> QED
    BY <1>1, <2>6, <2>7
<1>6. \A name \in {"iter2_cleaned", "filtered"} \ {OutputCleaned} : Own(name)' <=> Own(name)
  BY <1>1, <1>2, NotWritten DEF FileNames, Output
<1> QED
  BY <1>2, <1>3, <1>4, <1>5, <1>6, OtherBase

LEMMA OpenConfirmReport == ASSUME ReportInv, LinesMade, OpenConfirm PROVE ReportInv'
<1>1. /\ stage = "confirm" /\ iter \in {1, 2} /\ UNCHANGED <<flags, invocation>>
      /\ Base' = Base /\ invocation \in Nat /\ invocation # 0
      /\ \A name \in Later : ~Own(name)
  BY OpenConfirmWrites DEF OpenConfirm, ReportInv, Base
<1>2. CASE NextProcess /\ UNCHANGED files
  BY <1>1, <1>2, ConfirmationEnds
<1>3. \A f \in {Headless, CsvFile({})} : f.opened = invocation /\ FromInput(f)
  BY DEF Headless, CsvFile, FromInput
<1>4. ASSUME NEW f \in {Headless, CsvFile({})},
             NEW g \in {Headless, CsvFile({}), Content(OutputCleaned)},
             files' = Written(Outputs(f, g))
      PROVE  /\ DOMAIN files' = Bases
             /\ \A b \in Bases : LinesInv(files[b])'
             /\ ChainInv'
             /\ \A name \in {"iter2_cleaned", "filtered"} \ {OutputCleaned} :
                   Own(name)' <=> Own(name)
             /\ files'[Base][OutputCleaned] = g
             /\ files'[Base][Input] = files[Base][Input]
  <2>1. FromInput(g) \/ g = Content(OutputCleaned)
    BY <1>3
  <2> QED
    BY <1>1, <1>3, <1>4, <2>1, OutputsReport
<1>5. ASSUME NEW f \in {Headless, CsvFile({})},
             NEW g \in {Headless, CsvFile({}), Content(OutputCleaned)},
             files' = Written(Outputs(f, g)), NextProcess
      PROVE  ReportInv'
  <2>1. CASE iter = 1
    <3>1. /\ stage' = "confirm" /\ iter' = 2 /\ OutputCleaned = "iter1_cleaned"
          /\ Later' = {"iter2_cleaned", "filtered"} /\ Later' \subseteq Later
      BY <1>1, <1>5, <2>1 DEF NextProcess, OutputCleaned, Later
    <3> QED
      BY <1>1, <1>4, <1>5, <3>1 DEF ReportInv
  <2>2. CASE iter = 2
    <3>1. /\ stage' = "filter" /\ iter' = 2 /\ OutputCleaned = "iter2_cleaned"
          /\ Later' = {"filtered"} /\ Later' \subseteq Later
      BY <1>1, <1>5, <2>2 DEF NextProcess, OutputCleaned, Later
    <3> QED
      BY <1>1, <1>4, <1>5, <3>1 DEF ReportInv
  <2> QED
    BY <1>1, <2>1, <2>2
<1>6. CASE /\ files' = Written(Outputs(CsvFile({}), CsvFile({})))
           /\ stage' = "confirming"
           /\ todo' = Content(Input).lines
           /\ UNCHANGED iter
  <2>1. /\ OutputCleaned' = OutputCleaned /\ Input' = Input
        /\ Later' = {"iter2_cleaned", "filtered"} \ {OutputCleaned} /\ Later' \subseteq Later
    BY <1>1, <1>6 DEF OutputCleaned, Input, Later
  <2>2. /\ DOMAIN files' = Bases
        /\ \A b \in Bases : LinesInv(files[b])'
        /\ ChainInv'
        /\ \A name \in Later' : Own(name)' <=> Own(name)
        /\ files'[Base][OutputCleaned] = CsvFile({})
        /\ files'[Base][Input] = files[Base][Input]
    BY <1>4, <1>6, <2>1
  <2>3. Content(OutputCleaned)' = CsvFile({}) /\ Content(Input)' = Content(Input)
    BY <1>1, <2>1, <2>2 DEF Content
  <2>4. ConfirmingInv'
    BY <1>1, <1>6, <2>3 DEF ConfirmingInv, FromInput, CsvFile
  <2> QED
    BY <1>1, <1>6, <2>1, <2>2, <2>4 DEF ReportInv
<1> QED
  BY <1>2, <1>5, <1>6, OpenConfirmWrites

LEMMA ConfirmLineReport ==
    ASSUME ReportInv, LinesMade, NEW line \in todo, NEW result, ConfirmLine(line, result)
    PROVE  ReportInv'
<1> DEFINE new  == [line EXCEPT !.timing = result,
                       !.passed[iter] = IF Passes(result) THEN invocation ELSE 0]
           kept == IF Passes(result) THEN {new} ELSE {}
           out  == CsvFile(Content(Output).lines \cup {new})
           outc == CsvFile(Content(OutputCleaned).lines \cup kept)
<1>1. /\ stage = "confirming" /\ stage' = "confirming" /\ todo' \subseteq todo
      /\ UNCHANGED <<flags, iter, invocation>>
      /\ files' = Written(Outputs(out, outc))
  BY DEF ConfirmLine
<1>2. /\ iter \in {1, 2} /\ invocation \in Nat /\ invocation # 0 /\ ConfirmingInv
      /\ \A name \in Later : ~Own(name)
  BY <1>1 DEF ReportInv
<1>3. \A l \in kept : /\ l.run = line.run
                      /\ l.passed = [line.passed EXCEPT ![iter] = invocation]
  <2>1. /\ new.run = line.run
        /\ Passes(result) => new.passed = [line.passed EXCEPT ![iter] = invocation]
    BY TestedLine DEF LinesMade, AllMade
  <2>2. \A l \in kept : Passes(result) /\ l = new
    OBVIOUS
  <2> HIDE DEF new, kept
  <2> QED
    BY <2>1, <2>2
<1>4. out.opened = invocation /\ outc.opened = invocation
      /\ outc.lines = Content(OutputCleaned).lines \cup kept
  BY DEF CsvFile
<1> HIDE DEF new, kept, out, outc
<1>5. FromInput(outc)
  BY <1>2, <1>3, <1>4 DEF ConfirmingInv, FromInput
<1>6. /\ Base' = Base /\ OutputCleaned' = OutputCleaned /\ Input' = Input
      /\ Later' = {"iter2_cleaned", "filtered"} \ {OutputCleaned} /\ Later' = Later
  BY <1>1, <1>2 DEF Base, OutputCleaned, Input, Later
<1>7. /\ DOMAIN files' = Bases
      /\ \A b \in Bases : LinesInv(files[b])'
      /\ ChainInv'
      /\ \A name \in Later' : Own(name)' <=> Own(name)
      /\ files'[Base][OutputCleaned] = outc
      /\ files'[Base][Input] = files[Base][Input]
  BY <1>1, <1>4, <1>5, <1>6, OutputsReport
<1>8. Content(OutputCleaned)' = outc /\ Content(Input)' = Content(Input)
  BY <1>6, <1>7 DEF Content
<1>9. ConfirmingInv'
  BY <1>1, <1>2, <1>5, <1>8 DEF ConfirmingInv, FromInput
<1> QED
  BY <1>1, <1>2, <1>6, <1>7, <1>9 DEF ReportInv

\* A new invocation has opened no file yet.
LEMMA InvokeReport == ASSUME ReportInv, Invoke PROVE ReportInv'
<1>1. /\ stage' = "cleanup" /\ iter' = iter /\ files' = files
      /\ invocation \in Nat /\ invocation' = invocation + 1
  BY DEF Invoke, ReportInv
<1>2. \A b \in Bases, name \in FileNames : files[b][name].opened \in 0..invocation
  BY DEF ReportInv, LinesInv
<1>3. \A b \in Bases : LinesInv(files[b])'
  <2>1. \A b \in Bases, name \in FileNames : files[b][name].opened \in 0..invocation'
    BY <1>1, <1>2
  <2> QED
    BY <1>1, <2>1 DEF ReportInv, LinesInv
<1>4. \A name \in FileNames : ~Own(name)'
  <2>1. Base' \in Bases
    BY DEF Base, Bases
  <2>2. \A name \in FileNames : files[Base'][name].opened # invocation'
    BY <1>1, <1>2, <2>1
  <2> QED
    BY <1>1, <2>2 DEF Own, Content
<1>5. ChainInv'
  BY <1>4 DEF ChainInv, FileNames
<1>6. \A name \in Later' : ~Own(name)'
  BY <1>1, <1>4 DEF Later, FileNames
<1> QED
  BY <1>1, <1>3, <1>5, <1>6 DEF ReportInv

LEMMA NextReportInv == LinesMade /\ ReportInv /\ [Next]_vars => ReportInv'
<1> SUFFICES ASSUME LinesMade, ReportInv, [Next]_vars PROVE ReportInv'
  OBVIOUS
<1>0. iter \in {1, 2}
  BY DEF ReportInv
<1>1. CASE Interrupt \/ Report
  BY <1>0, <1>1, NothingOpened DEF Interrupt, Report
<1>2. CASE GenerateInstructions
  BY <1>0, <1>2, NothingOpened DEF GenerateInstructions
<1>3. CASE Cleanup
  <2>1. /\ stage = "cleanup" /\ stage' = "search" /\ Later' = Later
        /\ UNCHANGED <<files, flags, invocation, iter>>
    BY <1>3 DEF Cleanup, Later
  <2> QED
    BY <1>0, <2>1, NothingOpened
<1>4. CASE EndConfirm \/ \E line \in todo : ConfirmExits(line)
  BY <1>4, ConfirmationEnds DEF EndConfirm, ConfirmExits
<1>5. ASSUME NEW line \in todo, SkipLine(line) PROVE ReportInv'
  <2>1. /\ stage = "confirming" /\ stage' = "confirming" /\ todo' \subseteq todo
        /\ UNCHANGED <<files, flags, iter, invocation>>
    BY <1>5 DEF SkipLine
  <2>2. /\ Base' = Base /\ Input' = Input /\ OutputCleaned' = OutputCleaned
        /\ Later' = Later
        /\ \A name : Content(name)' = Content(name)
    BY <2>1 DEF Base, Input, OutputCleaned, Content, Later
  <2>3. \A name : Own(name)' <=> Own(name)
    BY <2>1, <2>2 DEF Own
  <2>4. ChainInv'
    BY <2>1, <2>2, <2>3 DEF ReportInv, ChainInv, Found, PassedNow, OwnInput
  <2>5. ConfirmingInv'
    BY <2>1, <2>2 DEF ReportInv, ConfirmingInv, FromInput
  <2>6. \A b \in Bases : LinesInv(files[b])'
    BY <2>1 DEF ReportInv, LinesInv
  <2> QED
    BY <2>1, <2>2, <2>3, <2>4, <2>5, <2>6 DEF ReportInv
<1>6. CASE UNCHANGED vars
  <2> USE <1>6 DEF vars
  <2>1. /\ Base' = Base /\ Input' = Input /\ OutputCleaned' = OutputCleaned
        /\ Later' = Later
        /\ \A name : Content(name)' = Content(name)
    BY DEF Base, Input, OutputCleaned, Content, Later
  <2>2. \A name : Own(name)' <=> Own(name)
    BY <2>1 DEF Own
  <2>3. ChainInv' <=> ChainInv
    BY <2>1, <2>2 DEF ChainInv, Found, PassedNow, OwnInput
  <2>4. ConfirmingInv => ConfirmingInv'
    <3>1. Content(OutputCleaned)' = Content(OutputCleaned) /\ Content(Input)' = Content(Input)
      BY <2>1
    <3> QED
      BY <3>1 DEF ConfirmingInv, FromInput
  <2>5. \A b \in Bases : LinesInv(files[b])'
    BY DEF ReportInv, LinesInv
  <2> QED
    BY <2>1, <2>2, <2>3, <2>4, <2>5 DEF ReportInv
<1> QED
  BY <1>1, <1>2, <1>3, <1>4, <1>5, <1>6, InvokeReport, SearchReport, PrefilterReport,
     OpenConfirmReport, ConfirmLineReport, FilterReport
  DEF Next

LEMMA ReportInvariance == Spec => []ReportInv
<1>1. Init => LinesMade /\ ReportInv
  BY InitLinesMade, InitReportInv
<1>2. LinesMade /\ ReportInv /\ [Next]_vars => (LinesMade /\ ReportInv)'
  BY NextLinesMade, NextReportInv
<1> QED
  BY <1>1, <1>2, PTL DEF Spec

\* Whatever the script reports passed two confirmations, the same for all lines, and
\* those of this invocation when it got to open the files they go through
\* (run.sh:97-107, osiris.cc:80-83, 104-158): processes may end anywhere, or not start.
THEOREM ReportedWasConfirmedTwice == Spec => []ConfirmedTwice
<1>1. ReportInv => ConfirmedTwice
  <2> SUFFICES ASSUME ReportInv, stage = "report" PROVE ConfirmedTwice
    BY DEF ConfirmedTwice
  <2>1. ChainInv /\ LinesInv(files[Base])
    BY BaseType DEF ReportInv
  <2> QED
    BY <2>1 DEF ChainInv, PassedNow, LinesInv, Handed, Alike, Content, ConfirmedTwice
<1> QED
  BY <1>1, ReportInvariance, PTL

\* Whatever the script reports was found by one search, and by the one that wrote the CSV
\* file last when the invocation got to open every file from it to the report
\* (run.sh:85-107).
THEOREM ReportedIsOfOneSearch == Spec => []ReportsOneSearch
<1>1. ReportInv => ReportsOneSearch
  <2> SUFFICES ASSUME ReportInv, stage = "report" PROVE ReportsOneSearch
    BY DEF ReportsOneSearch
  <2>1. ChainInv /\ LinesInv(files[Base])
    BY BaseType DEF ReportInv
  <2>2. \A line1, line2 \in Content("filtered").lines : line1.run = line2.run
    BY <2>1 DEF LinesInv, Handed, Alike, Content
  <2> QED
    BY <2>1, <2>2 DEF ChainInv, Found, OwnInput, ReportsOneSearch
<1> QED
  BY <1>1, ReportInvariance, PTL

-----------------------------------------------------------------------------
(* What the two outputs of a confirmation hold, at every moment of it *)

\* A line that the confirmation tests or passes over was looked up to what it names.
LEMMA LookedUp ==
    ASSUME TestedAsNamed, stage = "confirming", NEW line \in todo, ~LookupEnds(line),
           NEW role \in Roles
    PROVE  Lookup(line, role) = line.text[role]
  BY DEF TestedAsNamed, LookupEnds, Outcomes

\* It is passed over exactly when it names a sleep as its trigger or measurement.
LEMMA SkippedByName ==
    ASSUME TestedAsNamed, stage = "confirming", NEW line \in todo, ~LookupEnds(line)
    PROVE  IsSkipped(line) <=>
              \E role \in {"trigger", "measurement"} : line.text[role] \in Sleeps
<1>1. /\ Lookup(line, "trigger") = line.text["trigger"]
      /\ Lookup(line, "measurement") = line.text["measurement"]
  BY LookedUp DEF Roles
<1> QED
  BY <1>1 DEF IsSkipped

LEMMA NextKeepsEveryLine ==
    LinesMade /\ ReportInv /\ ConfirmKeepsEveryLine /\ [Next]_vars => ConfirmKeepsEveryLine'
<1> SUFFICES ASSUME LinesMade, ReportInv, ConfirmKeepsEveryLine, [Next]_vars,
                    stage' = "confirming"
             PROVE  ConfirmKeepsEveryLine'
  BY DEF ConfirmKeepsEveryLine
<1>0. /\ DOMAIN files = Bases /\ iter \in {1, 2} /\ TestedAsNamed
      /\ {Input, Output, OutputCleaned} \subseteq FileNames
      /\ Input \notin {Output, OutputCleaned}
  BY LinesMadeTestsAsNamed DEF ReportInv, Input, Output, OutputCleaned, FileNames
<1>1. CASE OpenConfirm
  <2>1. ~NextProcess
    BY DEF NextProcess
  <2>2. /\ files' = Written(Outputs(CsvFile({}), CsvFile({})))
        /\ todo' = Content(Input).lines
        /\ UNCHANGED <<iter, flags>>
    BY <1>1, <2>1, OpenConfirmWrites
  <2>3. /\ Content(Output)' = CsvFile({})
        /\ Content(OutputCleaned)' = CsvFile({})
        /\ Content(Input)' = Content(Input)
    <3>1. /\ files'[Base][Output] = CsvFile({})
          /\ files'[Base][OutputCleaned] = CsvFile({})
          /\ files'[Base][Input] = files[Base][Input]
      BY <1>0, <2>2, OutputsAre
    <3> QED
      BY <2>2, <3>1 DEF Content, Base, Input, Output, OutputCleaned
  <2> QED
    BY <2>2, <2>3 DEF ConfirmKeepsEveryLine, CsvFile
<1>2. ASSUME NEW line \in todo, SkipLine(line)
      PROVE  ConfirmKeepsEveryLine'
  <2>1. /\ stage = "confirming" /\ todo' = todo \ {line}
        /\ UNCHANGED <<files, iter, flags>>
    BY <1>2 DEF SkipLine
  <2>2. \E role \in {"trigger", "measurement"} : line.text[role] \in Sleeps
    BY <1>0, <1>2, <2>1, SkippedByName DEF SkipLine
  <2>3. /\ Content(Input)' = Content(Input)
        /\ Content(Output)' = Content(Output)
        /\ Content(OutputCleaned)' = Content(OutputCleaned)
    BY <2>1 DEF Content, Base, Input, Output, OutputCleaned
  <2> DEFINE Asleep(l) == \E role \in {"trigger", "measurement"} : l.text[role] \in Sleeps
             Awake(ls) == ls \ {l \in ls : Asleep(l)}
  <2>4. Awake(Content(Input).lines \ todo') = Awake(Content(Input).lines \ todo)
    BY <2>1, <2>2
  <2>5. /\ todo \subseteq Content(Input).lines
        /\ {Untimed(l) : l \in Content(Output).lines} =
              {Untimed(l) : l \in Awake(Content(Input).lines \ todo)}
        /\ Content(OutputCleaned).lines =
              {l \in Content(Output).lines : l.timing \notin -50..50}
    BY <2>1 DEF ConfirmKeepsEveryLine
  <2>6. /\ todo' \subseteq Content(Input)'.lines
        /\ {Untimed(l) : l \in Content(Output)'.lines} =
              {Untimed(l) : l \in Awake(Content(Input)'.lines \ todo')}
        /\ Content(OutputCleaned)'.lines =
              {l \in Content(Output)'.lines : l.timing \notin -50..50}
    BY <2>1, <2>3, <2>4, <2>5, Zenon
  <2> QED
    BY <2>6, Zenon DEF ConfirmKeepsEveryLine, Untimed
<1>3. ASSUME NEW line \in todo, NEW result \in Differences \cup {-1},
             ConfirmLine(line, result)
      PROVE  ConfirmKeepsEveryLine'
  <2> DEFINE new  == [line EXCEPT !.timing = result,
                         !.passed[iter] = IF Passes(result) THEN invocation ELSE 0]
             kept == IF Passes(result) THEN {new} ELSE {}
             Asleep(l) == \E role \in {"trigger", "measurement"} : l.text[role] \in Sleeps
             Awake(ls) == ls \ {l \in ls : Asleep(l)}
  <2>1. /\ stage = "confirming" /\ todo' = todo \ {line}
        /\ UNCHANGED <<iter, flags>>
        /\ files' = Written(Outputs(CsvFile(Content(Output).lines \cup {new}),
                               CsvFile(Content(OutputCleaned).lines \cup kept)))
    BY <1>3 DEF ConfirmLine
  <2>2. ~Asleep(line)
    BY <1>0, <1>3, <2>1, SkippedByName DEF ConfirmLine
  <2>3. /\ Content(Input)' = Content(Input)
        /\ Content(Output)'.lines = Content(Output).lines \cup {new}
        /\ Content(OutputCleaned)'.lines = Content(OutputCleaned).lines \cup kept
    <3> HIDE DEF new, kept
    <3>1. /\ files'[Base][Output] = CsvFile(Content(Output).lines \cup {new})
          /\ files'[Base][OutputCleaned] = CsvFile(Content(OutputCleaned).lines \cup kept)
          /\ files'[Base][Input] = files[Base][Input]
      BY <1>0, <2>1, OutputsAre
    <3>2. /\ Content(Input)' = files'[Base][Input]
          /\ Content(Output)' = files'[Base][Output]
          /\ Content(OutputCleaned)' = files'[Base][OutputCleaned]
      BY <2>1 DEF Content, Base, Input, Output, OutputCleaned
    <3>3. \A lines : CsvFile(lines).lines = lines
      BY DEF CsvFile
    <3>4. files[Base][Input] = Content(Input)
      BY DEF Content
    <3> QED
      BY <3>1, <3>2, <3>3, <3>4, Zenon
  <2>4. Untimed(new) = Untimed(line) /\ new.timing = result
    BY TestedLine DEF LinesMade, AllMade
  <2>5. /\ todo \subseteq Content(Input).lines
        /\ {Untimed(l) : l \in Content(Output).lines} =
              {Untimed(l) : l \in Awake(Content(Input).lines \ todo)}
        /\ Content(OutputCleaned).lines =
              {l \in Content(Output).lines : l.timing \notin -50..50}
    BY <2>1 DEF ConfirmKeepsEveryLine
  <2>6. Awake(Content(Input).lines \ todo') =
           Awake(Content(Input).lines \ todo) \cup {line}
    BY <2>1, <2>2, <2>5
  <2>7. \A l \in kept \cup {new} : l \in kept <=> l.timing \notin -50..50
    BY <2>4 DEF Passes
  <2> HIDE DEF new, kept, Awake
  <2>8. kept \subseteq {new}
    BY DEF kept
  <2>9. /\ todo' \subseteq Content(Input)'.lines
        /\ {Untimed(l) : l \in Content(Output)'.lines} =
              {Untimed(l) : l \in Awake(Content(Input)'.lines \ todo')}
        /\ Content(OutputCleaned)'.lines =
              {l \in Content(Output)'.lines : l.timing \notin -50..50}
    <3>1. todo' \subseteq Content(Input)'.lines
      BY <2>1, <2>3, <2>5
    <3>2. {Untimed(l) : l \in Content(Output)'.lines} =
              {Untimed(l) : l \in Awake(Content(Input)'.lines \ todo')}
      <4>1. {Untimed(l) : l \in Content(Output)'.lines} =
               {Untimed(l) : l \in Content(Output).lines} \cup {Untimed(new)}
        BY <2>3, Zenon
      <4>2. {Untimed(l) : l \in Awake(Content(Input)'.lines \ todo')} =
               {Untimed(l) : l \in Awake(Content(Input).lines \ todo)} \cup {Untimed(line)}
        BY <2>3, <2>6, Zenon
      <4> QED
        BY <2>4, <2>5, <4>1, <4>2
    <3>3. Content(OutputCleaned)'.lines =
              {l \in Content(Output)'.lines : l.timing \notin -50..50}
      BY <2>3, <2>5, <2>7, <2>8, Zenon
    <3> QED
      BY <3>1, <3>2, <3>3
  <2> QED
    BY <2>9, Zenon DEF ConfirmKeepsEveryLine, Awake, Untimed
<1>4. CASE UNCHANGED vars \/ GenerateInstructions \/ Invoke \/ Interrupt \/ Cleanup \/ Search
           \/ Prefilter \/ EndConfirm \/ Filter \/ Report
  <2>1. ~(GenerateInstructions \/ Invoke \/ Interrupt \/ Cleanup \/ Search \/ Prefilter
            \/ EndConfirm \/ Filter \/ Report)
    BY DEF GenerateInstructions, Invoke, Interrupt, Cleanup, Search, AfterSearch, Prefilter,
       EndConfirm, NextProcess, Filter, Report
  <2> QED
    BY <1>4, <2>1 DEF vars, ConfirmKeepsEveryLine, Content, Base, Input, Output,
       OutputCleaned, Untimed
<1>5. \A line \in todo : ~ConfirmExits(line)
  BY DEF ConfirmExits, NextProcess
<1> QED
  BY <1>1, <1>2, <1>3, <1>4, <1>5 DEF Next

\* Whatever a confirmation has tested so far is in its outputs, and nothing else
\* (ConfirmResultsOfFuzzer, osiris.cc:104-158).
THEOREM ConfirmationKeepsLines == Spec => []ConfirmKeepsEveryLine
<1>1. Init => LinesMade /\ ReportInv /\ ConfirmKeepsEveryLine
  BY InitLinesMade, InitReportInv DEF Init, ConfirmKeepsEveryLine
<1>2. LinesMade /\ ReportInv /\ ConfirmKeepsEveryLine /\ [Next]_vars
         => (LinesMade /\ ReportInv /\ ConfirmKeepsEveryLine)'
  BY NextLinesMade, NextReportInv, NextKeepsEveryLine
<1> QED
  BY <1>1, <1>2, PTL DEF Spec


-----------------------------------------------------------------------------
(* Types *)

\* A process runs only when the script was invoked.
Invoked == stage # "idle" => invocation # 0

LEMMA WrittenFiles ==
    ASSUME NEW new,
           \A b \in Bases, name \in FileNames : IsFile(files[b][name]),
           \A name \in DOMAIN new : IsFile(new[name]),
           files' = Written(new)
    PROVE  \A b \in Bases, name \in FileNames : IsFile(files[b][name])'
<1> SUFFICES ASSUME NEW b \in Bases, NEW name \in FileNames
             PROVE  IsFile(files'[b][name])
  BY DEF IsFile
<1>1. CASE b # Base \/ b \notin DOMAIN files
  BY <1>1 DEF Written
<1>2. CASE b = Base /\ b \in DOMAIN files
  <2>1. files'[b] = [n \in FileNames |-> IF n \in DOMAIN new THEN new[n] ELSE files[Base][n]]
    BY <1>2 DEF Written
  <2> QED
    BY <2>1, <1>2
<1> QED
  BY <1>1, <1>2

LEMMA CsvFileType ==
    ASSUME NEW lines, \A line \in lines : line \in Line, invocation \in 0..MaxInvocations
    PROVE  IsFile(CsvFile(lines))
  BY DEF IsFile, CsvFile

LEMMA HeadlessType ==
    ASSUME invocation \in 0..MaxInvocations
    PROVE  IsFile(Headless)
  BY DEF IsFile, Headless

LEMMA OutputsType ==
    ASSUME NEW f, NEW g, IsFile(f), IsFile(g)
    PROVE  \A name \in DOMAIN Outputs(f, g) : IsFile(Outputs(f, g)[name])
  BY DEF Outputs

LEMMA ContentType ==
    ASSUME TypeOK, NEW name \in FileNames
    PROVE  IsFile(Content(name)) /\ \A line \in Content(name).lines : line \in Line
  BY BaseType DEF TypeOK, Content, IsFile

\* What a search writes: numbers that fit into a UID and texts of the list.
LEMMA ResultLineType ==
    ASSUME cleaned.list \in Lists, NEW c \in [Roles -> 1..Len(cleaned.list)],
           NEW timing \in Differences, invocation \in 1..MaxInvocations
    PROVE  ResultLine(c, timing) \in Line
<1> DEFINE list == cleaned.list
<1>1. /\ Len(list) \in Int /\ Len(list) <= Span - 1
      /\ DOMAIN list = 1..Len(list) /\ Span \in Int
  <2>1. Span \in Int
    BY DEF Span
  <2>2. Len(list) \in 0..(Span - 1) /\ list = [i \in 1..Len(list) |-> list[i]]
    BY ListsAssumption
  <2> QED
    BY <2>1, <2>2
<1>2. Tail16[list] \in 0..(Span - 1)
  BY TailsAssumption
<1>3. ASSUME NEW role \in Roles
      PROVE  /\ GenerateInstructionUID(Tail16[list], c[role] - 1) \in Nat
             /\ list[c[role]] \in Names
  <2>1. c[role] \in 1..Len(list) /\ c[role] - 1 \in 0..(Span - 1)
    BY <1>1
  <2>2. list[c[role]] \in Names
    BY <1>1, <2>1 DEF Names
  <2> QED
    BY <1>2, <2>1, <2>2, UidRoundTrip
<1>4. /\ [role \in Roles |-> GenerateInstructionUID(Tail16[list], c[role] - 1)]
            \in [Roles -> Nat]
      /\ [role \in Roles |-> list[c[role]]] \in [Roles -> Names]
  BY <1>3
<1>5. [i \in 1..2 |-> 0] \in [1..2 -> 0..MaxInvocations]
  BY BoundsAssumption
<1> QED
  BY <1>4, <1>5 DEF ResultLine, Line

LEMMA InitType == Init => TypeOK /\ Invoked
<1> SUFFICES ASSUME Init PROVE TypeOK /\ Invoked
  OBVIOUS
<1>1. invocation \in 0..MaxInvocations /\ 0 \in 0..MaxInvocations
  BY BoundsAssumption DEF Init
<1>2. \A b \in Bases, name \in FileNames : IsFile(files[b][name])
  BY <1>1 DEF Init, IsFile, Missing
<1> QED
  BY <1>1, <1>2 DEF Init, TypeOK, InstructionFile, Flags, Invoked

LEMMA NextType == TypeOK /\ Invoked /\ [Next]_vars => (TypeOK /\ Invoked)'
<1> SUFFICES ASSUME TypeOK, Invoked, [Next]_vars PROVE (TypeOK /\ Invoked)'
  OBVIOUS
<1> DEFINE FilesOK == \A b \in Bases, name \in FileNames : IsFile(files[b][name])
           RestOK  == /\ source \in SourceLists
                      /\ InstructionFile(cleaned, Lists)
                      /\ flags \in Flags
                      /\ stage \in {"idle", "cleanup", "search", "prefilter", "confirm",
                                    "confirming", "filter", "report"}
                      /\ iter \in {1, 2}
                      /\ \A line \in todo : line \in Line
                      /\ todo # {} => stage = "confirming"
                      /\ invocation \in 0..MaxInvocations
                      /\ Invoked
<1>a. FilesOK /\ RestOK
  BY DEF TypeOK
<1>b. FilesOK' /\ RestOK' => (TypeOK /\ Invoked)'
  BY DEF TypeOK
<1>c. UNCHANGED files => FilesOK'
  BY <1>a DEF IsFile
<1>1. CASE GenerateInstructions \/ Interrupt \/ Report
  BY <1>1, <1>a, <1>b, <1>c
  DEF GenerateInstructions, Interrupt, Report, Invoked, InstructionFile
<1>2. CASE Invoke
  <2>1. /\ invocation \in Nat /\ invocation' = invocation + 1
        /\ invocation' \in 0..MaxInvocations /\ invocation' # 0
    BY <1>2, <1>a, BoundsAssumption DEF Invoke
  <2>3. flags' \in Flags
    BY <1>2, ArgumentsAssumption DEF Invoke
  <2> QED
    BY <1>2, <1>a, <1>b, <1>c, <2>1, <2>3 DEF Invoke, Invoked, InstructionFile
<1>3. CASE Cleanup
  BY <1>3, <1>a, <1>b, <1>c DEF Cleanup, Invoked, InstructionFile
<1>4. CASE Search
  <2>1. invocation \in 1..MaxInvocations /\ AfterSearch \in {"prefilter", "confirm"}
    <3>1. invocation # 0
      BY <1>4, <1>a DEF Search, Invoked
    <3> QED
      BY <1>a, <3>1, BoundsAssumption DEF AfterSearch
  <2>3. RestOK'
    BY <1>4, <1>a, <2>1 DEF Search, Invoked, InstructionFile
  <2>4. CASE UNCHANGED files
    BY <1>b, <1>c, <2>3, <2>4
  <2>5. CASE files' = Written([csv |-> Headless])
    <3> DEFINE new == [csv |-> Headless]
    <3>1. (\A name \in DOMAIN new : IsFile(new[name])) /\ files' = Written(new)
      BY <1>a, <2>5, HeadlessType
    <3> HIDE DEF new
    <3> QED
      BY <1>a, <1>b, <2>3, <3>1, WrittenFiles
  <2>6. ASSUME Loads(cleaned), NEW hits \in SUBSET Combinations,
               NEW timing \in [hits -> Differences \ (-50..50)],
               files' = Written([csv |-> CsvFile({ResultLine(c, timing[c]) : c \in hits})])
        PROVE  (TypeOK /\ Invoked)'
    <3> DEFINE lines == {ResultLine(c, timing[c]) : c \in hits}
               new == [csv |-> CsvFile(lines)]
    <3>1. cleaned.list \in Lists
      BY <1>a, <2>6 DEF Loads, InstructionFile
    <3>2. \A c \in hits : ResultLine(c, timing[c]) \in Line
      BY <2>1, <3>1, ResultLineType DEF Combinations
    <3>3. (\A name \in DOMAIN new : IsFile(new[name])) /\ files' = Written(new)
      BY <1>a, <2>6, <3>2, CsvFileType
    <3> HIDE DEF new
    <3> QED
      BY <1>a, <1>b, <2>3, <3>3, WrittenFiles
  <2> QED
    BY <1>4, <2>4, <2>5, <2>6 DEF Search
<1>5. CASE Prefilter
  <2>1. RestOK'
    BY <1>5, <1>a DEF Prefilter, Invoked, InstructionFile
  <2>2. CASE UNCHANGED files
    BY <1>b, <1>c, <2>1, <2>2
  <2>3. CASE files' = Written([nocache |-> Headless])
    <3> DEFINE new == [nocache |-> Headless]
    <3>1. (\A name \in DOMAIN new : IsFile(new[name])) /\ files' = Written(new)
      BY <1>a, <2>3, HeadlessType
    <3> HIDE DEF new
    <3> QED
      BY <1>a, <1>b, <2>1, <3>1, WrittenFiles
  <2>4. ASSUME NEW lines \in SUBSET Content("csv").lines,
               files' = Written([nocache |-> CsvFile(lines)])
        PROVE  (TypeOK /\ Invoked)'
    <3> DEFINE new == [nocache |-> CsvFile(lines)]
    <3>1. \A line \in lines : line \in Line
      BY ContentType DEF FileNames
    <3>2. (\A name \in DOMAIN new : IsFile(new[name])) /\ files' = Written(new)
      BY <1>a, <2>4, <3>1, CsvFileType
    <3> HIDE DEF new
    <3> QED
      BY <1>a, <1>b, <2>1, <3>2, WrittenFiles
  <2> QED
    BY <1>5, <2>2, <2>3, <2>4 DEF Prefilter
<1>6. CASE OpenConfirm
  <2>1. /\ IsFile(Headless) /\ IsFile(CsvFile({})) /\ IsFile(Content(OutputCleaned))
        /\ \A line \in Content(Input).lines : line \in Line
    BY <1>a, HeadlessType, CsvFileType, ContentType DEF Input, OutputCleaned, FileNames
  <2>2. \/ UNCHANGED files
        \/ \E f \in {Headless, CsvFile({})},
              g \in {Headless, CsvFile({}), Content(OutputCleaned)} :
                 files' = Written(Outputs(f, g))
    BY <1>6, OpenConfirmWrites
  <2>3. ASSUME NEW f, NEW g, IsFile(f), IsFile(g), files' = Written(Outputs(f, g))
        PROVE  FilesOK'
    BY <1>a, <2>3, OutputsType, WrittenFiles
  <2>4. FilesOK'
    BY <1>c, <2>1, <2>2, <2>3
  <2>5. /\ UNCHANGED <<source, cleaned, flags, invocation>>
        /\ stage = "confirm"
        /\ \/ NextProcess
           \/ stage' = "confirming" /\ todo' = Content(Input).lines /\ UNCHANGED iter
    BY <1>6, OpenConfirmWrites DEF OpenConfirm
  <2>6. RestOK'
    BY <1>a, <2>1, <2>5 DEF NextProcess, Invoked, InstructionFile
  <2> QED
    BY <1>b, <2>4, <2>6
<1>7. CASE EndConfirm
  BY <1>7, <1>a, <1>b, <1>c DEF EndConfirm, NextProcess, Invoked, InstructionFile
<1>8. ASSUME NEW line \in todo, ConfirmExits(line) PROVE (TypeOK /\ Invoked)'
  BY <1>8, <1>a, <1>b, <1>c DEF ConfirmExits, NextProcess, Invoked, InstructionFile
<1>9. ASSUME NEW line \in todo, SkipLine(line) PROVE (TypeOK /\ Invoked)'
  BY <1>9, <1>a, <1>b, <1>c DEF SkipLine, Invoked, InstructionFile
<1>10. ASSUME NEW line \in todo, NEW result \in Differences \cup {-1},
              ConfirmLine(line, result)
       PROVE  (TypeOK /\ Invoked)'
  <2> DEFINE new  == [line EXCEPT !.timing = result,
                         !.passed[iter] = IF Passes(result) THEN invocation ELSE 0]
             kept == IF Passes(result) THEN {new} ELSE {}
             out  == CsvFile(Content(Output).lines \cup {new})
             outc == CsvFile(Content(OutputCleaned).lines \cup kept)
  <2>1. files' = Written(Outputs(out, outc))
    BY <1>10 DEF ConfirmLine
  <2>2. line \in Line
    BY <1>a
  <2>3. new \in Line
    <3>1. [line.passed EXCEPT ![iter] = IF Passes(result) THEN invocation ELSE 0]
             \in [1..2 -> 0..MaxInvocations]
      <4>1. /\ line.passed \in [1..2 -> 0..MaxInvocations]
            /\ invocation \in 0..MaxInvocations /\ 0 \in 0..MaxInvocations
        BY <1>a, <2>2, BoundsAssumption DEF Line
      <4> QED
        BY <4>1
    <3> QED
      BY <2>2, <3>1 DEF Line
  <2>4. /\ \A l \in Content(Output).lines : l \in Line
        /\ \A l \in Content(OutputCleaned).lines : l \in Line
    BY ContentType DEF Output, OutputCleaned, FileNames
  <2>5. IsFile(out) /\ IsFile(outc)
    BY <1>a, <2>3, <2>4, CsvFileType
  <2> HIDE DEF out, outc
  <2>6. FilesOK'
    BY <1>a, <2>1, <2>5, OutputsType, WrittenFiles
  <2> QED
    BY <1>10, <1>a, <1>b, <2>6 DEF ConfirmLine, Invoked, InstructionFile
<1>11. CASE Filter
  <2>1. RestOK'
    BY <1>11, <1>a DEF Filter, Invoked, InstructionFile
  <2>2. CASE UNCHANGED files
    BY <1>b, <1>c, <2>1, <2>2
  <2>3. ASSUME NEW f, IsFile(f), files' = Written([filtered |-> f])
        PROVE  (TypeOK /\ Invoked)'
    <3> DEFINE new == [filtered |-> f]
    <3>1. (\A name \in DOMAIN new : IsFile(new[name])) /\ files' = Written(new)
      BY <2>3
    <3> HIDE DEF new
    <3> QED
      BY <1>a, <1>b, <2>1, <3>1, WrittenFiles
  <2>4. \A lines \in SUBSET Content("iter2_cleaned").lines :
           IsFile(Headless) /\ IsFile(CsvFile(lines))
    BY <1>a, HeadlessType, CsvFileType, ContentType DEF FileNames
  <2> QED
    BY <1>11, <2>2, <2>3, <2>4 DEF Filter
<1>12. CASE UNCHANGED vars
  BY <1>12, <1>a, <1>b, <1>c DEF vars, Invoked, InstructionFile
<1> QED
  BY <1>1, <1>2, <1>3, <1>4, <1>5, <1>6, <1>7, <1>8, <1>9, <1>10, <1>11, <1>12
  DEF Next

\* Whatever was interrupted and whatever files were there, the files have lines of
\* the one format, and nothing is left to be tested when no confirmation runs.
THEOREM TypesOK == Spec => []TypeOK
<1> QED
  BY InitType, NextType, PTL DEF Spec
=============================================================================
