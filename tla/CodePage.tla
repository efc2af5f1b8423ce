------------------------------ MODULE CodePage ------------------------------
(***************************************************************************)
(* How src/src/executor.cc writes one page of machine code, and what the   *)
(* processor does when it is called.                                       *)
(*                                                                         *)
(* A page is first filled with NOPs and a final RET.  Then every           *)
(* Add...ToCodePage call appends one instruction, or one byte sequence     *)
(* under test, at the write index.  An instruction is a record             *)
(*    [op, arg, bytes];                                                    *)
(* op says what it does to the state this module keeps: the callee-saved   *)
(* registers, the stack, and the registers the timing goes through.        *)
(*                                                                         *)
(* A sequence under test is opaque.  The model knows its length and the    *)
(* registers it overwrites.                                                *)
(***************************************************************************)
EXTENDS Integers, Sequences

CONSTANTS
    PageSize,   \* kPagesize
    Shapes      \* the pages built: see PageShape

Roles == {"trigger", "measure", "reset"}

Pairs  == {{"x19", "x20"}, {"x21", "x22"}, {"x23", "x24"}, {"x25", "x26"},
           {"x27", "x28"}, {"x29", "x30"}}
Vector == {"q8", "q9", "q10", "q11", "q12", "q13", "q14", "q15"}
CalleeSaved == {"x19", "x20", "x21", "x22", "x23", "x24", "x25", "x26", "x27",
                "x28", "x29", "x30"} \cup Vector
Regs   == CalleeSaved \cup {"x0", "x15"}
Values == {"caller", "junk", "frame", "data", "pmcr", "t0", "t1", "elapsed"}

\* Which Create...Code function is called (builder), the length in bytes of each
\* sequence, the registers it overwrites, and reset_executions_amount.
PageShape(pg) ==
    /\ pg.builder \in {"testrun", "reset", "speculative"}
    /\ pg.length \in [Roles -> Nat]
    /\ \A role \in Roles : pg.length[role] % 4 = 0      \* A64: whole words
    /\ pg.clobber \in [Roles -> SUBSET Regs]
    /\ pg.amount \in 0..100

ASSUME PageSizeAssumption == PageSize \in Nat \ {0} /\ PageSize % 4 = 0
ASSUME ShapesAssumption   == \A pg \in Shapes : PageShape(pg)

VARIABLES
    page,       \* the shape of the page
    mode,       \* "building", "ready", "running", or how it ended
    todo,       \* instructions the Create function has still to add
    code,       \* instructions added
    idx,        \* code_pages_last_written_index_
    at,         \* index in code of the instruction to execute
    regs,       \* where the value of each register comes from
    stack,      \* saved registers
    depth       \* of the stack when x29 was set to it

vars == <<page, mode, todo, code, idx, at, regs, stack, depth>>

-----------------------------------------------------------------------------
(* Instructions: four bytes each, but for the sequences and the x86 bytes *)

Ops == {"barrier", "push", "pop", "ret", "sequence", "measurement", "x86", "frame",
        "stackspace", "base", "leave", "readpmcr", "orr", "writepmcr", "start",
        "keep", "stop", "sub", "result"}

Insn(op, arg) == [op |-> op, arg |-> arg, bytes |-> 4]
Bar      == Insn("barrier", {})         \* DSB, ISB, DMB, NOP
Push(s)  == Insn("push", s)             \* STP or STR, pre-indexed
Pop(s)   == Insn("pop", s)              \* LDP or LDR, post-indexed
Ret      == Insn("ret", {})

\* A sequence under test, given by its role, its bytes added as one array.
Sequence(pg, role) ==
    [op |-> "sequence", arg |-> pg.clobber[role], bytes |-> pg.length[role]]
Measurement(pg) ==
    [op |-> "measurement", arg |-> pg.clobber["measure"], bytes |-> pg.length["measure"]]
Repeat(insn, n) == [i \in 1..n |-> insn]

X86(bytes) == [op |-> "x86", arg |-> {}, bytes |-> bytes]

\* AddProlog saves what AddEpilog restores, in the opposite order.
AddProlog ==
    <<Push({"x29", "x30"}), Push({"x19", "x20"}), Push({"x21", "x22"}),
      Push({"x23", "x24"}), Push({"x25", "x26"}), Push({"x27", "x28"}),
      Push({"q8"}), Push({"q9"}), Push({"q10"}), Push({"q11"}),
      Push({"q12"}), Push({"q13"}), Push({"q14"}), Push({"q15"}),
      Insn("frame", {"x29"}), Insn("stackspace", {}),
      Insn("base", {"x25"}), Insn("base", {"x24"}),
      Insn("base", {"x26"}), Insn("base", {"x27"})>>

\* Mutant: x25, x26 are popped before x27, x28.
AddEpilog_SwapsPairs ==
    <<Bar, Bar, Bar, Bar, Insn("leave", {"x29"}),
      Pop({"q15"}), Pop({"q14"}), Pop({"q13"}), Pop({"q12"}), Pop({"q11"}),
      Pop({"q10"}), Pop({"q9"}), Pop({"q8"}),
      Pop({"x25", "x26"}), Pop({"x27", "x28"}), Pop({"x23", "x24"}),
      Pop({"x21", "x22"}), Pop({"x19", "x20"}), Pop({"x29", "x30"}), Ret>>

AddEpilog ==
    <<Bar, Bar, Bar, Bar, Insn("leave", {"x29"}),
      Pop({"q15"}), Pop({"q14"}), Pop({"q13"}), Pop({"q12"}), Pop({"q11"}),
      Pop({"q10"}), Pop({"q9"}), Pop({"q8"}),
      Pop({"x27", "x28"}), Pop({"x25", "x26"}), Pop({"x23", "x24"}),
      Pop({"x21", "x22"}), Pop({"x19", "x20"}), Pop({"x29", "x30"}), Ret>>

AddSerialize == <<Bar, Bar, Bar, Bar>>

\* Mutant: x26 is copied from x27 before the counter is read.
AddTimerStart_KeepsFirst ==
    <<Bar, Insn("readpmcr", {"x27"}), Insn("orr", {"x27"}), Insn("writepmcr", {"x27"}),
      Insn("keep", {"x26"}), Insn("start", {"x27"}), Bar, Bar, Bar>>

\* The cycle counter is reset through x27, then read into x27 and kept in x26.
AddTimerStart ==
    <<Bar, Insn("readpmcr", {"x27"}), Insn("orr", {"x27"}), Insn("writepmcr", {"x27"}),
      Insn("start", {"x27"}), Insn("keep", {"x26"}), Bar, Bar, Bar>>

\* x15 := x27 - x26.
AddTimerEnd ==
    <<Bar, Bar, Insn("stop", {"x27"}), Insn("sub", {"x15"}), Bar, Bar, Bar, Bar>>

MakeTimerResult == <<Insn("result", {"x0"})>>

\* Mutant: the counter is read again before the measurement.
Timed_StopsEarly(pg) ==
    AddTimerStart \o AddTimerEnd \o <<Measurement(pg)>> \o MakeTimerResult \o AddEpilog

Timed(pg) ==
    AddTimerStart \o <<Measurement(pg)>> \o AddTimerEnd \o MakeTimerResult \o AddEpilog

\* CreateTestrunCode(reset, trigger), CreateResetTestrunCode and
\* CreateSpeculativeTriggerTestrunCode.  The last one adds x86 code, for the
\* return-stack misprediction of its x86 original: call rel32, the trigger,
\* jmp rel32, lea rax, mov [rsp], ret.
Program(pg) ==
    LET trigger == Sequence(pg, "trigger")
        resets  == Repeat(Sequence(pg, "reset"), pg.amount)
    IN  CASE pg.builder = "testrun" ->
               AddProlog \o AddSerialize \o resets \o AddSerialize
                 \o <<trigger>> \o AddSerialize \o Timed(pg)
          [] pg.builder = "reset" ->
               AddProlog \o <<trigger>> \o AddSerialize
                 \o resets \o AddSerialize \o Timed(pg)
          [] OTHER ->
               AddProlog \o AddSerialize \o resets \o AddSerialize
                 \o <<X86(1), X86(4), trigger, X86(1), X86(4),
                      X86(3), X86(4), X86(4), X86(1)>> \o Timed(pg)

-----------------------------------------------------------------------------
(* Building a page *)

Init ==
    /\ page \in Shapes
    /\ mode = "building"
    /\ todo = Program(page)
    /\ code = <<>>
    /\ idx = 0                                  \* InitializeCodePage
    /\ at = 1
    /\ regs = [r \in Regs |-> "caller"]
    /\ stack = <<>>
    /\ depth = 0

\* Mutant: an instruction may reach the last byte of the page.
AddInstruction_LastWord ==
    /\ mode = "building"
    /\ todo # <<>>
    /\ IF idx + Head(todo).bytes > PageSize
       THEN mode' = "aborted" /\ UNCHANGED <<todo, code, idx>>
       ELSE /\ code' = Append(code, Head(todo))
            /\ idx' = idx + Head(todo).bytes
            /\ todo' = Tail(todo)
            /\ UNCHANGED mode
    /\ UNCHANGED <<page, at, regs, stack, depth>>

\* Mutant: only the index is checked, not where the instruction ends.
AddInstruction_ChecksStart ==
    /\ mode = "building"
    /\ todo # <<>>
    /\ IF idx >= PageSize
       THEN mode' = "aborted" /\ UNCHANGED <<todo, code, idx>>
       ELSE /\ code' = Append(code, Head(todo))
            /\ idx' = idx + Head(todo).bytes
            /\ todo' = Tail(todo)
            /\ UNCHANGED mode
    /\ UNCHANGED <<page, at, regs, stack, depth>>

\* AddInstructionToCodePage, which aborts the process when the instruction
\* would reach the end of the page.
AddInstruction ==
    /\ mode = "building"
    /\ todo # <<>>
    /\ IF idx + Head(todo).bytes >= PageSize
       THEN mode' = "aborted" /\ UNCHANGED <<todo, code, idx>>
       ELSE /\ code' = Append(code, Head(todo))
            /\ idx' = idx + Head(todo).bytes
            /\ todo' = Tail(todo)
            /\ UNCHANGED mode
    /\ UNCHANGED <<page, at, regs, stack, depth>>

\* The Create function returns; the page can be called.
Ready ==
    /\ mode = "building"
    /\ todo = <<>>
    /\ mode' = "running"
    /\ UNCHANGED <<page, todo, code, idx, at, regs, stack, depth>>

-----------------------------------------------------------------------------
(* Running it *)

Sets(r, v) == [x \in Regs |-> IF x \in r THEN v ELSE regs[x]]

\* The instruction at hand does op, writes `to` to the registers and leaves
\* the stack as `left`.
Does(op, to, left) ==
    /\ mode = "running"
    /\ code[at].op = op
    /\ regs' = to
    /\ stack' = left
    /\ at' = at + 1
    /\ depth' = IF op = "frame" THEN Len(stack) ELSE depth
    /\ UNCHANGED <<page, mode, todo, code, idx>>

\* The registers the instruction names.
Arg == code[at].arg

Barrier    == Does("barrier", regs, stack)
Save       == Does("push", regs, Append(stack, [r \in Arg |-> regs[r]]))
Frame      == Does("frame", Sets(Arg, "frame"), stack)
StackSpace == Does("stackspace", regs, Append(stack, [r \in {} |-> "junk"]))
Base       == Does("base", Sets(Arg, "data"), stack)
Untimed    == Does("sequence", Sets(Arg, "junk"), stack)
Measured   == Does("measurement", Sets(Arg, "junk"), stack)
Pmcr       == \E op \in {"readpmcr", "orr", "writepmcr"} :
                 Does(op, IF op = "writepmcr" THEN regs ELSE Sets(Arg, "pmcr"), stack)
Start      == Does("start", Sets(Arg, "t0"), stack)
Stop       == Does("stop", Sets(Arg, "t1"), stack)
Keep       == Does("keep", Sets(Arg, regs["x27"]), stack)
Sub        == Does("sub", Sets(Arg, IF regs["x27"] = "t1" /\ regs["x26"] = "t0"
                                    THEN "elapsed" ELSE "junk"), stack)
Result     == Does("result", Sets(Arg, regs["x15"]), stack)

\* mov sp, x29: back to the frame, past whatever the sequences left there.
Leave ==
    /\ mode = "running"
    /\ regs["x29"] = "frame"
    /\ Does("leave", regs, SubSeq(stack, 1, depth))

\* The stack pointer is taken from an x29 that a sequence has overwritten.
LoseStack ==
    /\ mode = "running"
    /\ code[at].op = "leave"
    /\ regs["x29"] # "frame"
    /\ mode' = "lost"
    /\ UNCHANGED <<page, todo, code, idx, at, regs, stack, depth>>

\* A pop takes what is on top, whichever registers were pushed there.
Restore ==
    /\ stack # <<>>
    /\ LET top == stack[Len(stack)]
       IN  Does("pop",
                [r \in Regs |-> IF r \notin Arg THEN regs[r]
                                ELSE IF r \in DOMAIN top THEN top[r] ELSE "junk"],
                SubSeq(stack, 1, Len(stack) - 1))

Return ==
    /\ mode = "running"
    /\ code[at].op = "ret"
    /\ mode' = IF regs["x30"] = "caller" THEN "returned" ELSE "lost"
    /\ UNCHANGED <<page, todo, code, idx, at, regs, stack, depth>>

\* The first x86 bytes, e8 and the low bytes of a small displacement, are an
\* A64 word below 2^16: UDF, which raises SIGILL.
Undefined ==
    /\ mode = "running"
    /\ code[at].op = "x86"
    /\ mode' = "sigill"
    /\ UNCHANGED <<page, todo, code, idx, at, regs, stack, depth>>

Done ==
    /\ mode \notin {"building", "running"}
    /\ UNCHANGED vars

Next ==
    \/ AddInstruction \/ Ready
    \/ Barrier \/ Save \/ Frame \/ StackSpace \/ Base \/ Untimed \/ Measured
    \/ Pmcr \/ Start \/ Stop \/ Keep \/ Sub \/ Result
    \/ Leave \/ LoseStack \/ Restore \/ Return \/ Undefined
    \/ Done

Spec == Init /\ [][Next]_vars
-----------------------------------------------------------------------------
(* Properties *)

TypeOK ==
    /\ page \in Shapes
    /\ mode \in {"building", "running", "aborted", "returned", "lost", "sigill"}
    /\ idx \in 0..(PageSize - 1)
    /\ at \in Nat \ {0}
    /\ regs \in [Regs -> Values]
    /\ depth \in Nat

\* The RET that InitializeCodePage puts in the last word survives the build:
\* whatever the lengths, the code ends before it or the build aborts.
GuardRetIntact ==
    page.builder # "speculative" => idx <= PageSize - 4

\* A page that no sequence keeps from it returns to its caller with the stack
\* and all the callee-saved registers as they were, and overwriting x29 is the
\* only way to keep it from it.
ReturnsRestored ==
    /\ mode = "returned" =>
         stack = <<>> /\ \A r \in CalleeSaved : regs[r] = "caller"
    /\ mode \in {"returned", "lost"} =>
         (mode = "lost" <=> \E role \in Roles :
              /\ "x29" \in page.clobber[role]
              /\ role = "reset" => page.amount > 0)

\* The page returns the time between its two counter readings, unless the
\* measurement itself overwrites x26, where the first reading is kept: what
\* the trigger and the reset overwrite never matters.
ReturnsElapsedTime ==
    mode = "returned" =>
        (regs["x0"] = "elapsed" <=> "x26" \notin page.clobber["measure"])

\* The measurement, and no other sequence, runs between the two readings.
TimerCoversMeasurement ==
    [][ /\ Measured => regs["x26"] = "t0" /\ regs["x27"] = "t0"
        /\ Untimed => regs["x26"] # "t0" ]_vars

\* A page that executes the trigger transiently reaches its measurement
\* (executor.h:141-142).
TransientPageRuns == mode # "sigill"

-----------------------------------------------------------------------------
(* The inductive invariant behind GuardRetIntact *)

Insns   == [op : Ops, arg : SUBSET Regs, bytes : Nat]
Aligned == {insn \in Insns : insn.bytes % 4 = 0}

IndexInv ==
    /\ page \in Shapes
    /\ idx \in 0..(PageSize - 1)
    /\ todo \in Seq(Insns)
    /\ page.builder # "speculative" =>
         idx % 4 = 0 /\ todo \in Seq(Aligned)
=============================================================================
