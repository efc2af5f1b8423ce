----------------------------- MODULE MCCodePage -----------------------------
(***************************************************************************)
(* CodePage for TLC: a small page and lengths that reach its last word,    *)
(* then short sequences that overwrite any of the registers that matter.   *)
(***************************************************************************)
EXTENDS CodePage

AllBuilders == {"testrun", "reset", "speculative"}

MCClobbers == {{}, {"x26", "x27"}, {"x29"}, {"x15", "x19", "x30", "q8"}}

MCShapes ==
    [builder : AllBuilders, length : [Roles -> {4, 12, 16}],
     clobber : {[role \in Roles |-> {}]}, amount : {1, 50}]
    \cup
    [builder : AllBuilders, length : {[role \in Roles |-> 4]},
     clobber : [Roles -> MCClobbers], amount : {0, 2}]

SpeculativeShapes == {pg \in MCShapes : pg.builder = "speculative"}
=============================================================================
