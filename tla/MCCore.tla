------------------------------- MODULE MCCore -------------------------------
(***************************************************************************)
(* Core for TLC: instruction files with a sleep, with encodings that have  *)
(* a slash or are equal, answers on both sides of every threshold, and all *)
(* command lines of a few words.                                           *)
(***************************************************************************)
EXTENDS Core

Plain(bytes, text) == [byte_representation |-> bytes, disassembly |-> text,
                       sleep |-> FALSE]

\* Encodings of arm-Instructions/instructions_arm.b64, whose base64 texts are
\* padded by two, and a sleep of another length.
ADC       == Plain(<<24, 3, 24, 154>>, "adc")
ADCS      == Plain(<<24, 3, 24, 186>>, "adc")
ADD       == Plain(<<24, 3, 24, 139>>, "add")
Slashed   == Plain(<<224, 3, 191, 214>>, "drps")
BusySleep == [Plain(<<31, 32, 3, 213, 31>>, "mov") EXCEPT !.sleep = TRUE]

ASSUME Slash \in ToSet(Base64Encode(Slashed.byte_representation))

Sleepy == <<BusySleep, ADC>>
Two    == <<ADC, ADCS>>
Three  == <<ADC, ADD, ADCS>>

AnswerOf(e, r, re, rr) ==
    [error |-> e, result |-> r, reset_error |-> re, reset_result |-> rr]

\* -1 is what a call that ends with an error leaves as its result.
MCAnswers ==
    {AnswerOf(1, -1, 1, -1), AnswerOf(0, 50, 0, 0), AnswerOf(0, -51, 0, 19),
     AnswerOf(0, 51, 0, -20), AnswerOf(0, 51, 1, -1)}

FewAnswers == {AnswerOf(0, -51, 0, 19), AnswerOf(0, 50, 0, 0)}

\* The words that give a job to main in run.sh.
Words(j) == IF j = "equal" THEN <<>> ELSE IF j = "all" THEN <<"--all">> ELSE <<"--cleanup">>

Running(lists, jobs, someAnswers) ==
    UNION {[list : {l}, argv : {Words(j)}, answers : [Combinations(j, Len(l)) -> someAnswers]]
             : l \in lists, j \in jobs}

\* Command lines of up to four words, over an empty instruction file.
SomeWords == {"--cleanup", "--all", "--filter", "--confirm", "--confirm-results",
              "--", "", "triggerpairs.csv"}
CommandLines ==
    [list : {<<>>}, argv : UNION {[1..n -> SomeWords] : n \in 0..4}, answers : {<<>>}]

MCProcesses ==
    CommandLines
    \cup Running({Sleepy, Two}, {"cleanup", "equal"}, MCAnswers)
    \cup Running({Three}, {"cleanup", "equal"}, FewAnswers)
    \cup Running({Sleepy, Two}, {"all"}, FewAnswers)

EqualDirty == Running({<<ADC, ADC>>, <<ADC, Slashed>>}, {"equal"}, FewAnswers)
=============================================================================
