---------------------------- MODULE MCWorkerPool ----------------------------
(***************************************************************************)
(* WorkerPool for TLC: three instructions from two nodes.                  *)
(***************************************************************************)
EXTENDS WorkerPool

Op(type, options) ==
    [type |-> type, name |-> "other", is_enum |-> FALSE,
     optional_amount |-> type = "enum", options |-> options]

\* DMB <option>, with two options, and an instruction with a register and an
\* immediate.
MCNodes == << <<Op("enum", {"ISH", "SY"})>>, <<Op("reg", {}), Op("imm", {})>> >>

\* The script for ARM, and that for x86 with enough instructions for its display
\* and with too few.
MCGenerators ==
    {[progress |-> 0, pseudo |-> <<>>],
     [progress |-> 2, pseudo |-> <<[node |-> 0, operands |-> <<>>]>>],
     [progress |-> 4, pseudo |-> <<>>]}

\* ADD <register>, <shift>: the enum has options and no Optional="amount".
MCNodesShift ==
    << <<Op("reg", {}), [Op("enum", {"LSL #0", "LSL #12"}) EXCEPT !.optional_amount = FALSE]>> >>
=============================================================================
