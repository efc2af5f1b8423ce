---------------------------- MODULE CommandLine ----------------------------
(***************************************************************************)
(* ParseArguments of src/src/osiris.cc and the choice main makes from it.  *)
(*                                                                         *)
(* A command line is the sequence of argv[1], argv[2], ...: the options    *)
(* below, any other word that starts with a dash, and names of files.      *)
(* Abbreviations that getopt_long accepts stand for the full option.       *)
(***************************************************************************)
EXTENDS Naturals, Sequences, FiniteSets

CONSTANT
    NDEBUG      \* asserts are compiled out: Release, the default of CMakeLists.txt

ASSUME BuildAssumption == NDEBUG \in BOOLEAN

LongOptions == {"--cleanup", "--all", "--speculation", "--filter", "--confirm"}
EndOfOptions == "--"

\* -h, --help and --confirm-results among them: the table has none of them.
OtherOptions == {"-h", "--help", "--confirm-results"}

Dashed == LongOptions \cup OtherOptions \cup {EndOfOptions}

CommandLineArguments ==
    [options    |-> {},     \* cleanup, all, speculation_trigger, filter, confirm
     filename_filter |-> "",
     wanting    |-> FALSE,  \* the next word is the argument of --filter
     help       |-> FALSE,  \* PrintHelp, exit(0)
     ended      |-> FALSE,  \* by --
     positional |-> <<>>]   \* argv from optind, once getopt has permuted it

\* Mutant: an option is an option, even after --filter.
NextWord_NoArgument(args, word) ==
    IF args.help THEN args
    ELSE IF args.wanting /\ word \notin Dashed
    THEN [args EXCEPT !.wanting = FALSE, !.filename_filter = word]
    ELSE IF args.ended \/ word \notin Dashed
    THEN [args EXCEPT !.positional = Append(@, word)]
    ELSE IF word = EndOfOptions THEN [args EXCEPT !.ended = TRUE]
    ELSE IF word \in OtherOptions THEN [args EXCEPT !.help = TRUE]
    ELSE [args EXCEPT !.options = @ \cup {word}, !.wanting = (word = "--filter")]

\* One word of getopt_long: --filter takes the one that follows it, whatever it
\* is, and the first that is not in the table ends the process.
NextWord(args, word) ==
    IF args.help THEN args
    ELSE IF args.wanting
    THEN [args EXCEPT !.wanting = FALSE, !.filename_filter = word]
    ELSE IF args.ended \/ word \notin Dashed
    THEN [args EXCEPT !.positional = Append(@, word)]
    ELSE IF word = EndOfOptions THEN [args EXCEPT !.ended = TRUE]
    ELSE IF word \in OtherOptions THEN [args EXCEPT !.help = TRUE]
    ELSE [args EXCEPT !.options = @ \cup {word}, !.wanting = (word = "--filter")]

\* The arguments after each number of words.
After(argv) ==
    LET after[n \in 0..Len(argv)] ==
            IF n = 0 THEN CommandLineArguments ELSE NextWord(after[n - 1], argv[n])
    IN  after

ParseArguments(argv) == After(argv)[Len(argv)]

\* What main does: one job, whatever other options there are.  A build with
\* asserts has the names of its files not be empty.
Job(args) ==
    IF args.help \/ args.wanting THEN "help"
    ELSE IF "--confirm" \in args.options
    THEN IF Len(args.positional) < 2 THEN "usage"
         ELSE IF ~NDEBUG /\ "" \in {args.positional[1], args.positional[2]} THEN "abort"
         ELSE "confirm"
    ELSE IF "--filter" \in args.options
    THEN IF ~NDEBUG /\ args.filename_filter = "" THEN "abort" ELSE "filter"
    ELSE IF "--cleanup" \in args.options THEN "cleanup"
    ELSE IF "--all" \in args.options THEN "all"
    ELSE "equal"

Jobs == {"help", "usage", "abort", "confirm", "filter", "cleanup", "all", "equal"}

-----------------------------------------------------------------------------
(* A definition by position, for comparison *)

\* The words that are the argument of a --filter before them.
Values(argv) ==
    CHOOSE V \in SUBSET DOMAIN argv :
        \A i \in DOMAIN argv :
            i \in V <=> /\ i > 1
                        /\ i - 1 \notin V
                        /\ argv[i - 1] = "--filter"
                        /\ \A j \in 1..(i - 1) : argv[j] = EndOfOptions => j \in V

\* The job the words ask for: what is neither an option nor the argument of one
\* names a file; confirm goes before filter, filter before cleanup, cleanup
\* before a search.
Asked(argv) ==
    LET free    == DOMAIN argv \ Values(argv)
        options == {i \in free : /\ argv[i] \in Dashed
                                 /\ \A j \in free : argv[j] = EndOfOptions => i < j}
        ends    == {i \in free : /\ argv[i] = EndOfOptions
                                 /\ \A j \in free : argv[j] = EndOfOptions => i <= j}
        files   == free \ (options \cup ends)
        given(o) == \E i \in options : argv[i] = o
        named(is) == \A i \in is : argv[i] # ""
        unusable == {i \in options : \/ argv[i] \in OtherOptions
                                     \/ argv[i] = "--filter" /\ i = Len(argv)}
        last == CHOOSE i \in Values(argv) : \A j \in Values(argv) : j <= i
    IN  IF unusable # {} THEN "help"
        ELSE IF given("--confirm")
        THEN IF Cardinality(files) < 2 THEN "usage"
             ELSE IF NDEBUG \/ named({i \in files : Cardinality({j \in files : j < i}) < 2})
             THEN "confirm" ELSE "abort"
        ELSE IF given("--filter")
        THEN IF ~NDEBUG /\ argv[last] = "" THEN "abort" ELSE "filter"
        ELSE IF given("--cleanup") THEN "cleanup"
        ELSE IF given("--all") THEN "all"
        ELSE "equal"
=============================================================================
