--------------------------- MODULE CodeGenerator ---------------------------
(***************************************************************************)
(* The instruction UIDs of src/src/code_generator.cc.                      *)
(*                                                                         *)
(* A CodeGenerator is the list it loaded from an instruction file and the  *)
(* tail of the file's SHA-256 hash: its last two bytes, as a number.  The  *)
(* result files name an instruction by its UID, which is the tail and the  *)
(* index in the list; the list starts at index 0.                          *)
(***************************************************************************)
EXTENDS Naturals, Sequences

Span == 65536       \* 2^16: indexes, and hash tails

\* That the index is at most 65535 is an assert, which a Release build leaves out.
GenerateInstructionUID(tail, idx) == tail * Span + idx

EndOfHash(uid) == (uid \div Span) % Span
IndexOf(uid)   == uid % Span

\* Mutant: the UID is not compared with the hash of the loaded file.
MadeFrom_AnyFile(tail, uid) == TRUE

\* A UID made from another file ends the process.
MadeFrom(tail, uid) == EndOfHash(uid) = tail

Exit      == "exit"
Abort     == "abort"
Undefined == "undefined"    \* an element past the end of the vector is read
Outcomes  == {Exit, Abort, Undefined}

\* The index is compared with > and not with >=.
CreateInstructionFromIndex(list, idx) ==
    CASE idx > Len(list) -> Abort
      [] idx = Len(list) -> Undefined
      [] OTHER           -> list[idx + 1]

CreateInstructionFromUID(tail, list, uid) ==
    IF MadeFrom(tail, uid) THEN CreateInstructionFromIndex(list, IndexOf(uid))
                           ELSE Exit

-----------------------------------------------------------------------------
(* Loading an instruction file *)

\* A file that is missing or has no header line ends the process; a line that
\* does not have five fields would abort it, and no stage writes one.
InstructionFile(f, Lists) ==
    /\ f.kind \in {"missing", "headless", "csv"}
    /\ f.kind = "csv" => f.list \in Lists

Loads(f) == f.kind = "csv"
=============================================================================
