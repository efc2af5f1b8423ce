----------------------------- MODULE WorkerPool -----------------------------
(***************************************************************************)
(* The instruction generators: main, parse_operands and worker_func of     *)
(* src/arm-Instructions/xmlToBytes_arm.py, and what xmlToBytes.py of       *)
(* src/x86-instructions adds to them (a progress display, pseudo           *)
(* instructions).                                                          *)
(*                                                                         *)
(* main expands the nodes of an XML file into instructions, puts them all  *)
(* into a queue, starts the workers, and collects one answer for each      *)
(* instruction.  A multiprocessing.Queue is a buffer in the process that   *)
(* puts, a thread that feeds a pipe of bounded capacity from it, and the   *)
(* pipe.  The order of a queue is left out; the answers wait with the      *)
(* worker that gave them, as a pipe only delays them.                      *)
(***************************************************************************)
EXTENDS Integers, Sequences, FiniteSets

CONSTANTS
    Workers,        \* THREAD_COUNT processes
    Nodes,          \* the <instruction> nodes: a sequence of sequences of operands
    Kinds,          \* what may become of an instruction: see AllKinds
    Generators,     \* the scripts: see Generator
    PipeCapacity

\* It assembles; pwntools rejects it; asm raises something else than a
\* PwnlibException; it assembles, and a field holds the delimiter.
AllKinds == {"assembles", "rejected", "crashes", "delimiter"}

Operand(op) ==
    /\ op.type \in {"reg", "enum", "imm", "label", "cond", "other"}
    /\ op.name \in {"extend", "amount", "other"}
    /\ op.is_enum \in BOOLEAN
    /\ op.optional_amount \in BOOLEAN      \* Optional="amount"
    /\ IsFiniteSet(op.options)

\* A script has pseudo instructions, of no node and each once, which need no worker,
\* and a progress display of so many parts: 1000 in that for x86, 0 (none) in that
\* for ARM.
Generator(g) ==
    /\ g.progress \in Nat
    /\ g.pseudo \in Seq({g.pseudo[i] : i \in DOMAIN g.pseudo})
    /\ \A i, j \in DOMAIN g.pseudo :
          g.pseudo[i].node = 0 /\ (g.pseudo[i] = g.pseudo[j] => i = j)

ASSUME PoolAssumption ==
    /\ IsFiniteSet(Workers) /\ Workers # {}
    /\ Kinds \subseteq AllKinds
    /\ PipeCapacity \in Nat \ {0}
    /\ \A g \in Generators : Generator(g)
    /\ Len(Nodes) \in Nat /\ DOMAIN Nodes = 1..Len(Nodes)
    /\ \A n \in DOMAIN Nodes :
          /\ IsFiniteSet(DOMAIN Nodes[n])
          /\ \A k \in DOMAIN Nodes[n] : Operand(Nodes[n][k])

VARIABLES
    generator,  \* the script that runs
    parsed,     \* number of nodes that are parsed
    assembly_instructions,
    kind,       \* what will become of each
    phase,      \* of main
    buffer,     \* input_queue: what main has put
    pipe,       \* input_queue: what its thread has written
    worker,     \* state of each worker
    hand,       \* the instruction that a worker is assembling, if any
    answers,    \* output_queue: answers that main has not got, by worker
    collected,  \* answers that main has got
    file,       \* lines of the output file
    instructions_written

vars == <<generator, parsed, assembly_instructions, kind, phase, buffer, pipe, worker, hand,
          answers, collected, file, instructions_written>>
input == <<generator, parsed, assembly_instructions, kind>>
queues == <<buffer, pipe>>
pool   == <<worker, hand>>
output == <<file, instructions_written>>

N == Cardinality(assembly_instructions)

Init ==
    /\ generator \in Generators
    /\ parsed = 0
    /\ assembly_instructions = {}
    /\ kind = <<>>
    /\ phase = "parsing"
    /\ buffer = {}
    /\ pipe = {}
    /\ worker = [w \in Workers |-> "unstarted"]
    /\ hand = [w \in Workers |-> {}]
    /\ answers = [w \in Workers |-> <<>>]
    /\ collected = 0
    /\ file = <<>>
    /\ instructions_written = 0

-----------------------------------------------------------------------------
(* parse_operands *)

\* The operands that are part of the text of an instruction.
IsPart(op) ==
    \/ op.type \in {"reg", "label", "cond"}
    \/ op.type = "enum" /\ op.name # "extend"
    \/ op.type = "imm" /\ op.name # "amount"

\* Their values: the options of an enum of registers, the condition codes, or a
\* default.  The options of another enum are taken only when it has the attribute
\* Optional="amount".
Values(op) ==
    CASE op.type = "cond" \/ (op.type = "reg" /\ op.is_enum) -> op.options
      [] op.type = "enum" -> IF op.optional_amount THEN op.options ELSE {}
      [] OTHER -> {"default"}

\* product(*operands)
Combinations(operands) ==
    LET part == {k \in DOMAIN operands : IsPart(operands[k])}
    IN  {c \in [part -> UNION {Values(operands[k]) : k \in part}] :
            \A k \in part : c[k] \in Values(operands[k])}

-----------------------------------------------------------------------------
(* main *)

\* Mutant: the list is made anew for each node.
ParseNode_Restarts ==
    /\ phase = "parsing"
    /\ parsed < Len(Nodes)
    /\ parsed' = parsed + 1
    /\ LET new == {[node |-> parsed + 1, operands |-> c] :
                      c \in Combinations(Nodes[parsed + 1])}
       IN  /\ assembly_instructions' = new
           /\ \E k \in [new -> Kinds] :
                 kind' = [insn \in assembly_instructions \cup new |->
                            IF insn \in new THEN k[insn] ELSE kind[insn]]
    /\ UNCHANGED <<generator, phase, queues, pool, answers, collected, output>>

\* The instructions of the next node.
ParseNode ==
    /\ phase = "parsing"
    /\ parsed < Len(Nodes)
    /\ parsed' = parsed + 1
    /\ LET new == {[node |-> parsed + 1, operands |-> c] :
                      c \in Combinations(Nodes[parsed + 1])}
       IN  /\ assembly_instructions' = assembly_instructions \cup new
           /\ \E k \in [new -> Kinds] :
                 kind' = [insn \in assembly_instructions' |->
                            IF insn \in new THEN k[insn] ELSE kind[insn]]
    /\ UNCHANGED <<generator, phase, queues, pool, answers, collected, output>>

\* All instructions are put; no worker has been started.
LoadWork ==
    /\ phase = "parsing"
    /\ parsed = Len(Nodes)
    /\ phase' = "starting"
    /\ buffer' = assembly_instructions
    /\ UNCHANGED <<input, pipe, pool, answers, collected, output>>

StartWorker(w) ==
    /\ phase = "starting"
    /\ worker[w] = "unstarted"
    /\ worker' = [worker EXCEPT ![w] = "running"]
    /\ UNCHANGED <<input, phase, queues, hand, answers, collected, output>>

OpenOutput ==
    /\ phase = "starting"
    /\ \A w \in Workers : worker[w] = "running"
    /\ phase' = "collecting"
    /\ UNCHANGED <<input, queues, pool, answers, collected, output>>

\* The finally clause: the workers are terminated with what they hold.
Terminate ==
    /\ worker' = [w \in Workers |-> "dead"]
    /\ hand' = [w \in Workers |-> {}]
    /\ answers' = [w \in Workers |-> <<>>]

\* i % progress_steps, where the steps are len // 1000.
DividesByZero == generator.progress > 0 /\ N \div generator.progress = 0

\* Mutant: there is no finally clause.
Raise_NoFinally ==
    /\ phase' = "raised"
    /\ UNCHANGED <<pool, answers>>

\* An exception that main does not catch: the finally clause, and no count.
Raise ==
    /\ phase' = "raised"
    /\ Terminate

\* Mutant: the count is that of the answers.
Collect_CountsAll(w) ==
    /\ phase = "collecting"
    /\ collected < N
    /\ ~DividesByZero
    /\ answers[w] # <<>>
    /\ LET answer == Head(answers[w])
       IN  IF answer.succ /\ kind[answer.insn] = "delimiter"
           THEN Raise /\ UNCHANGED <<collected, output>>
           ELSE /\ answers' = [answers EXCEPT ![w] = Tail(@)]
                /\ file' = IF answer.succ THEN Append(file, answer.insn) ELSE file
                /\ instructions_written' = instructions_written + 1
                /\ collected' = collected + 1
                /\ UNCHANGED <<phase, pool>>
    /\ UNCHANGED <<input, queues>>

\* One answer, from any worker; get_csv_representation asserts that no field
\* holds the delimiter.
Collect(w) ==
    /\ phase = "collecting"
    /\ collected < N
    /\ ~DividesByZero
    /\ answers[w] # <<>>
    /\ LET answer == Head(answers[w])
       IN  IF answer.succ /\ kind[answer.insn] = "delimiter"
           THEN Raise /\ UNCHANGED <<collected, output>>
           ELSE /\ answers' = [answers EXCEPT ![w] = Tail(@)]
                /\ file' = IF answer.succ THEN Append(file, answer.insn) ELSE file
                /\ instructions_written' =
                      instructions_written + (IF answer.succ THEN 1 ELSE 0)
                /\ collected' = collected + 1
                /\ UNCHANGED <<phase, pool>>
    /\ UNCHANGED <<input, queues>>

Progress ==
    /\ phase = "collecting"
    /\ collected < N
    /\ DividesByZero
    /\ Raise
    /\ UNCHANGED <<input, queues, collected, output>>

\* The pseudo instructions are written, the workers terminated, the count printed.
Finish ==
    /\ phase = "collecting"
    /\ collected = N
    /\ file' = file \o generator.pseudo
    /\ instructions_written' = instructions_written + Len(generator.pseudo)
    /\ phase' = "printed"
    /\ Terminate
    /\ UNCHANGED <<input, queues, collected>>

\* KeyboardInterrupt, which is caught: the count is printed as usual.
Interrupt ==
    /\ phase \in {"starting", "collecting"}
    /\ phase' = "aborted"
    /\ Terminate
    /\ UNCHANGED <<input, queues, collected, output>>

\* The same between the writing of a line and its count, ...
InterruptUncounted(w) ==
    /\ phase = "collecting"
    /\ collected < N
    /\ ~DividesByZero
    /\ answers[w] # <<>>
    /\ Head(answers[w]).succ /\ kind[Head(answers[w]).insn] # "delimiter"
    /\ file' = Append(file, Head(answers[w]).insn)
    /\ collected' = collected + 1
    /\ phase' = "aborted"
    /\ Terminate
    /\ UNCHANGED <<input, queues, instructions_written>>

\* ... or while the pseudo instructions are written.
InterruptPseudo ==
    /\ phase = "collecting"
    /\ collected = N
    /\ \E k \in DOMAIN generator.pseudo : \E uncounted \in {0, 1} :
          /\ file' = file \o SubSeq(generator.pseudo, 1, k)
          /\ instructions_written' = (instructions_written + k) - uncounted
    /\ phase' = "aborted"
    /\ Terminate
    /\ UNCHANGED <<input, queues, collected>>

\* At exit a process waits for its children, and for the thread of a queue to write
\* out its buffer.
Exit ==
    /\ phase \in {"printed", "aborted", "raised"}
    /\ \A w \in Workers : worker[w] # "running"
    /\ buffer = {}
    /\ phase' = "ended"
    /\ UNCHANGED <<input, queues, pool, answers, collected, output>>

-----------------------------------------------------------------------------
(* The queue and the workers *)

Feed ==
    /\ Cardinality(pipe) < PipeCapacity
    /\ \E insn \in buffer :
          /\ buffer' = buffer \ {insn}
          /\ pipe' = pipe \cup {insn}
    /\ UNCHANGED <<input, phase, pool, answers, collected, output>>

\* Mutant: two workers can get the same instruction.
Get_Peeks(w) ==
    /\ worker[w] = "running" /\ hand[w] = {}
    /\ \E insn \in pipe :
          /\ hand' = [hand EXCEPT ![w] = {insn}]
          /\ pipe' \in {pipe, pipe \ {insn}}
    /\ UNCHANGED <<input, phase, buffer, worker, answers, collected, output>>

\* input_queue.get()
Get(w) ==
    /\ worker[w] = "running" /\ hand[w] = {}
    /\ \E insn \in pipe :
          /\ hand' = [hand EXCEPT ![w] = {insn}]
          /\ pipe' = pipe \ {insn}
    /\ UNCHANGED <<input, phase, buffer, worker, answers, collected, output>>

\* Mutant: a rejected instruction gets no answer.
Assemble_Silent(w) ==
    \E insn \in hand[w] :
       /\ hand' = [hand EXCEPT ![w] = {}]
       /\ IF kind[insn] = "crashes"
          THEN worker' = [worker EXCEPT ![w] = "dead"] /\ UNCHANGED answers
          ELSE /\ answers' = IF kind[insn] = "rejected" THEN answers
                             ELSE [answers EXCEPT ![w] =
                                     Append(@, [succ |-> TRUE, insn |-> insn])]
               /\ UNCHANGED worker
       /\ UNCHANGED <<input, phase, queues, collected, output>>

\* asm(asm_code): an answer either way, but for an exception that is no
\* PwnlibException, of which the worker dies.  (The answer to a rejected
\* instruction does not name it.)
Assemble(w) ==
    \E insn \in hand[w] :
       /\ hand' = [hand EXCEPT ![w] = {}]
       /\ IF kind[insn] = "crashes"
          THEN worker' = [worker EXCEPT ![w] = "dead"] /\ UNCHANGED answers
          ELSE /\ answers' = [answers EXCEPT ![w] =
                     Append(@, [succ |-> kind[insn] # "rejected", insn |-> insn])]
               /\ UNCHANGED worker
       /\ UNCHANGED <<input, phase, queues, collected, output>>

Next ==
    \/ ParseNode \/ LoadWork \/ OpenOutput \/ Progress \/ Finish \/ Exit
    \/ Interrupt \/ InterruptPseudo
    \/ Feed
    \/ \E w \in Workers :
          \/ StartWorker(w) \/ Collect(w) \/ InterruptUncounted(w)
          \/ Get(w) \/ Assemble(w)

Spec == Init /\ [][Next]_vars

\* main, the thread of the queue and each worker are processes or threads of the
\* operating system; nobody has to interrupt.
Main == ParseNode \/ LoadWork \/ OpenOutput \/ Progress \/ Finish \/ Exit
           \/ \E w \in Workers : StartWorker(w) \/ Collect(w)

Fairness ==
    /\ WF_vars(Main)
    /\ WF_vars(Feed)
    /\ \A w \in Workers : WF_vars(Get(w)) /\ WF_vars(Assemble(w))

FairSpec == Spec /\ Fairness

-----------------------------------------------------------------------------
(* Properties *)

TypeOK ==
    /\ generator \in Generators
    /\ parsed \in 0..Len(Nodes)
    /\ kind \in [assembly_instructions -> Kinds]
    /\ phase \in {"parsing", "starting", "collecting", "printed", "aborted", "raised",
                  "ended"}
    /\ buffer \cup pipe \subseteq assembly_instructions
    /\ Cardinality(pipe) <= PipeCapacity
    /\ worker \in [Workers -> {"unstarted", "running", "dead"}]
    /\ \A w \in Workers :
          /\ hand[w] \subseteq assembly_instructions /\ Cardinality(hand[w]) <= 1
          /\ \A i \in DOMAIN answers[w] :
                answers[w][i] \in [succ : BOOLEAN, insn : assembly_instructions]
    /\ collected \in 0..N
    /\ instructions_written \in 0..(N + Len(generator.pseudo))

\* Where an instruction is, or an answer that names it.
Places(insn) ==
    {q \in {<<"buffer">>} : insn \in buffer}
    \cup {q \in {<<"pipe">>} : insn \in pipe}
    \cup {<<"worker", w>> : w \in {v \in Workers : insn \in hand[v]}}
    \cup (UNION {{<<"answers", w, i>> : i \in {k \in DOMAIN answers[w] :
                                               answers[w][k].insn = insn}} : w \in Workers})
    \cup {<<"file", i>> : i \in {k \in DOMAIN file : file[k] = insn}}

\* While main collects, every instruction is in one place: in the queue, with one
\* worker, or among the answers; or it was collected, or a worker died of it.
InOnePlace ==
    phase \in {"starting", "collecting"} =>
        \A insn \in assembly_instructions :
            /\ \A p, q \in Places(insn) : p = q
            /\ Places(insn) = {} => kind[insn] \in {"rejected", "crashes"}

\* When main collected every answer, the file holds the instructions that
\* assemble, each once, and the pseudo instructions; and whenever a count is
\* printed it is the number of lines, but for one that an interrupt kept from
\* being counted.
FileMatches ==
    /\ phase = "printed" =>
          /\ {insn \in assembly_instructions : kind[insn] = "assembles"}
                = {file[i] : i \in 1..(Len(file) - Len(generator.pseudo))}
          /\ \A i, j \in DOMAIN file : file[i] = file[j] => i = j
          /\ instructions_written = Len(file)
    /\ phase = "aborted" => Len(file) - instructions_written \in {0, 1}

\* main ends, however its workers are scheduled and whatever pwntools rejects, unless
\* an answer was lost with a worker or someone interrupts it.
MainEnds ==
    <>(\/ phase \in {"ended", "aborted", "raised"}
       \/ \E insn \in assembly_instructions : kind[insn] = "crashes")

\* Once it is told to stop, or fails, main ends unless the pipe is full of
\* instructions that no worker will read.
StopsUnlessFull ==
    phase \in {"printed", "aborted", "raised"}
        ~> (phase = "ended" \/ (Cardinality(pipe) = PipeCapacity /\ buffer # {}))

\* The combinations have every value of the enums (xmlToBytes_arm.py:72-73).
EveryEnumValue ==
    \A n \in 1..parsed : \A k \in DOMAIN Nodes[n] :
        IsPart(Nodes[n][k]) /\ Nodes[n][k].type = "enum" =>
            \A value \in Nodes[n][k].options :
                \E insn \in assembly_instructions :
                    insn.node = n /\ insn.operands[k] = value
=============================================================================
