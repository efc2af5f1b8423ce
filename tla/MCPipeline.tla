----------------------------- MODULE MCPipeline -----------------------------
(***************************************************************************)
(* Pipeline for TLC: lists of up to two instructions, one of them a sleep. *)
(***************************************************************************)
EXTENDS Pipeline

MCSourceLists == {<<"busy-sleep", "ldr">>, <<"ldr">>}

MCLists == MCSourceLists \cup {<<"busy-sleep">>, <<>>}

Given(args) == [a \in {"all", "speculation", "filter_cache"} |-> a \in args]

MCArguments == {Given({"all"}), Given({"speculation", "filter_cache"})}

\* Any numbering of the lists will do.
MCTail16 ==
    CHOOSE f \in [MCLists -> 1..Cardinality(MCLists)] :
        \A list1, list2 \in MCLists : list1 # list2 => f[list1] # f[list2]
=============================================================================
