-------------------------- MODULE WorkerPool_proofs --------------------------
(***************************************************************************)
(* Proof that the pool loses no instruction and writes none twice, for any *)
(* number of workers, any nodes and any capacity of the pipe.              *)
(*                                                                         *)
(* main only counts its answers.  That the count tells it when to stop     *)
(* rests on CountInv: as many answers are collected as there are           *)
(* instructions that have left the pool and killed nobody.                 *)
(***************************************************************************)
EXTENDS WorkerPool, FiniteSetTheorems, TLAPS

Answers == [succ : BOOLEAN, insn : assembly_instructions]

Shape ==
    /\ generator \in Generators
    /\ parsed \in 0..Len(Nodes)
    /\ IsFiniteSet(assembly_instructions)
    /\ \A insn \in assembly_instructions : insn.node # 0
    /\ kind \in [assembly_instructions -> Kinds]
    /\ phase \in {"parsing", "starting", "collecting", "printed", "aborted", "raised",
                  "ended"}
    /\ buffer \subseteq assembly_instructions
    /\ pipe \subseteq assembly_instructions
    /\ worker \in [Workers -> {"unstarted", "running", "dead"}]
    /\ hand \in [Workers -> SUBSET assembly_instructions]
    /\ \A w \in Workers : \A a, b \in hand[w] : a = b
    /\ answers \in [Workers -> Seq(Answers)]
    /\ collected \in 0..N
    /\ Cardinality(pipe) <= PipeCapacity

\* Nothing moves before the work is loaded.
ParsingInv ==
    phase = "parsing" =>
        /\ buffer = {} /\ pipe = {} /\ collected = 0
        /\ file = <<>> /\ instructions_written = 0
        /\ \A w \in Workers : worker[w] = "unstarted" /\ hand[w] = {} /\ answers[w] = <<>>

Working == phase \in {"starting", "collecting"}

\* An answer tells what the instruction it is about was.
AnswersInv ==
    \A w \in Workers : \A i \in 1..Len(answers[w]) :
        /\ kind[answers[w][i].insn] # "crashes"
        /\ answers[w][i].succ <=> kind[answers[w][i].insn] # "rejected"

\* What main has written.
FileInv ==
    Working =>
        /\ file \in Seq(assembly_instructions)
        /\ instructions_written = Len(file)
        /\ \A i \in 1..Len(file) : kind[file[i]] = "assembles"

\* No instruction is in two places, ...
Apart ==
    /\ buffer \cap pipe = {}
    /\ \A w \in Workers : hand[w] \cap (buffer \cup pipe) = {}
    /\ \A v, w \in Workers : v # w => hand[v] \cap hand[w] = {}
    /\ \A w \in Workers : \A i \in 1..Len(answers[w]) :
          /\ answers[w][i].insn \notin buffer \cup pipe
          /\ \A v \in Workers : answers[w][i].insn \notin hand[v]
    /\ \A v, w \in Workers : \A i \in 1..Len(answers[v]), j \in 1..Len(answers[w]) :
          answers[v][i].insn = answers[w][j].insn => v = w /\ i = j
    /\ \A k \in 1..Len(file) :
          /\ file[k] \notin buffer \cup pipe
          /\ \A w \in Workers :
                /\ file[k] \notin hand[w]
                /\ \A i \in 1..Len(answers[w]) : answers[w][i].insn # file[k]
    /\ \A j, k \in 1..Len(file) : file[j] = file[k] => j = k

\* The instructions that have left the pool.
Gone ==
    {insn \in assembly_instructions :
        /\ insn \notin buffer \cup pipe
        /\ \A w \in Workers :
              insn \notin hand[w] /\ \A i \in 1..Len(answers[w]) : answers[w][i].insn # insn}

\* ... and one that is in none was rejected, or a worker died of it.
NoneLost ==
    \A insn \in Gone :
        \/ kind[insn] \in {"rejected", "crashes"}
        \/ \E k \in 1..Len(file) : file[k] = insn

\* Those that left with an answer.
Answered == {insn \in Gone : kind[insn] # "crashes"}

CountInv == collected = Cardinality(Answered)

PoolInv == Working => Apart /\ NoneLost /\ CountInv

WrittenInv == instructions_written \in 0..(N + Len(generator.pseudo))

Inv == /\ Shape /\ ParsingInv /\ AnswersInv /\ FileInv /\ PoolInv
       /\ WrittenInv /\ FileMatches

-----------------------------------------------------------------------------
(* Finite sets *)

LEMMA FunctionsFinite ==
    ASSUME NEW S, NEW T, IsFiniteSet(S), IsFiniteSet(T)
    PROVE  IsFiniteSet([S -> T])
<1> DEFINE graph == [f \in [S -> T] |-> {<<x, f[x]>> : x \in S}]
<1>1. IsFiniteSet(SUBSET (S \X T))
  BY FS_Product, FS_SUBSET
<1>2. \A f \in [S -> T] : graph[f] \in SUBSET (S \X T)
  OBVIOUS
<1>3. ASSUME NEW f \in [S -> T], NEW g \in [S -> T], graph[f] = graph[g]
      PROVE  f = g
  <2>1. ASSUME NEW x \in S PROVE f[x] = g[x]
    <3>1. <<x, f[x]>> \in graph[g]
      BY <1>3
    <3>2. PICK y \in S : <<x, f[x]>> = <<y, g[y]>>
      BY <3>1
    <3> QED
      BY <3>2
  <2> QED
    BY <2>1
<1>4. graph \in Injection([S -> T], SUBSET (S \X T))
  BY <1>2, <1>3 DEF Injection, IsInjective
<1> QED
  BY <1>1, <1>4, FS_Injection

LEMMA CombinationsFinite ==
    ASSUME NEW n \in DOMAIN Nodes
    PROVE  IsFiniteSet(Combinations(Nodes[n]))
<1> DEFINE operands == Nodes[n]
           part == {k \in DOMAIN operands : IsPart(operands[k])}
           values == [k \in part |-> Values(operands[k])]
           all == {Values(operands[k]) : k \in part}
<1>1. IsFiniteSet(DOMAIN operands) /\ \A k \in DOMAIN operands : Operand(operands[k])
  BY PoolAssumption
<1>2. IsFiniteSet(part)
  BY <1>1, FS_Subset
<1>3. \A k \in part : IsFiniteSet(Values(operands[k]))
  BY <1>1, FS_EmptySet, FS_Singleton DEF Values, Operand
<1>4. IsFiniteSet(all)
  <2>1. values \in Surjection(part, all)
    BY DEF Surjection
  <2> QED
    BY <1>2, <2>1, FS_Surjection
<1>5. IsFiniteSet(UNION all)
  BY <1>3, <1>4, FS_UNION
<1>6. IsFiniteSet([part -> UNION all])
  BY <1>2, <1>5, FunctionsFinite
<1>7. Combinations(operands) \in SUBSET [part -> UNION all]
  BY DEF Combinations
<1> QED
  BY <1>6, <1>7, FS_Subset

LEMMA AtMostOne ==
    ASSUME NEW S, \A a, b \in S : a = b
    PROVE  IsFiniteSet(S) /\ Cardinality(S) <= 1
<1>1. CASE S = {}
  BY <1>1, FS_EmptySet
<1>2. ASSUME NEW a \in S PROVE IsFiniteSet(S) /\ Cardinality(S) <= 1
  <2>1. S = {a}
    OBVIOUS
  <2>2. IsFiniteSet(S) /\ Cardinality(S) = 1
    BY <2>1, FS_Singleton
  <2> QED
    BY <2>2
<1> QED
  BY <1>1, <1>2

LEMMA NType == Shape => N \in Nat
  BY FS_CardinalityType DEF Shape, N

LEMMA PseudoType ==
    ASSUME Shape
    PROVE  /\ generator.pseudo \in Seq({generator.pseudo[i] : i \in DOMAIN generator.pseudo})
           /\ Len(generator.pseudo) \in Nat
           /\ DOMAIN generator.pseudo = 1..Len(generator.pseudo)
           /\ \A i, j \in 1..Len(generator.pseudo) :
                 /\ generator.pseudo[i].node = 0
                 /\ generator.pseudo[i] = generator.pseudo[j] => i = j
<1> DEFINE pseudo == generator.pseudo
           P == {pseudo[i] : i \in DOMAIN pseudo}
<1>1. /\ pseudo \in Seq(P)
      /\ \A i, j \in DOMAIN pseudo : pseudo[i].node = 0 /\ (pseudo[i] = pseudo[j] => i = j)
  BY PoolAssumption DEF Shape, Generator
<1>2. Len(pseudo) \in Nat /\ DOMAIN pseudo = 1..Len(pseudo)
  <2> HIDE DEF P, pseudo
  <2> QED
    BY <1>1
<1> QED
  BY <1>1, <1>2

\* Lines that are different instructions are no more than these.
LEMMA FileFits ==
    ASSUME Shape, NEW lines \in Seq(assembly_instructions),
           \A j, k \in 1..Len(lines) : lines[j] = lines[k] => j = k
    PROVE  Len(lines) <= N
<1>1. lines \in Injection(1..Len(lines), assembly_instructions)
  BY DEF Injection, IsInjective
<1>2. Cardinality(1..Len(lines)) = Len(lines)
  BY FS_Interval
<1> QED
  BY <1>1, <1>2, FS_Injection DEF Shape, N

-----------------------------------------------------------------------------
(* The steps *)

LEMMA InitInv == Init => Inv
<1> SUFFICES ASSUME Init PROVE Inv
  OBVIOUS
<1>1. Shape
  <2>1. IsFiniteSet(assembly_instructions) /\ N = 0
    BY FS_EmptySet DEF Init, N
  <2>2. Cardinality(pipe) <= PipeCapacity
    BY FS_EmptySet, PoolAssumption DEF Init
  <2>3. parsed \in 0..Len(Nodes)
    BY PoolAssumption DEF Init
  <2> QED
    BY <2>1, <2>2, <2>3 DEF Init, Shape, Answers
<1>2. WrittenInv
  <2>1. Len(generator.pseudo) \in Nat /\ N = 0
    BY PoolAssumption, FS_EmptySet DEF Init, Generator, N
  <2> QED
    BY <2>1 DEF Init, WrittenInv
<1> QED
  BY <1>1, <1>2 DEF Init, Inv, ParsingInv, AnswersInv, FileInv, PoolInv, Working, FileMatches

\* Nothing but a type depends on how many nodes are parsed.
LEMMA ParseNodeInv == ASSUME Inv, ParseNode PROVE Inv'
<1> DEFINE new == {[node |-> parsed + 1, operands |-> c] :
                      c \in Combinations(Nodes[parsed + 1])}
           all == assembly_instructions \cup new
           make == [c \in Combinations(Nodes[parsed + 1]) |->
                      [node |-> parsed + 1, operands |-> c]]
<1>1. /\ phase = "parsing" /\ parsed \in Nat /\ parsed + 1 \in 1..Len(Nodes)
      /\ parsed' = parsed + 1
      /\ assembly_instructions' = all
      /\ Shape /\ ParsingInv
  BY PoolAssumption DEF Inv, Shape, ParseNode
<1>2. /\ generator' = generator /\ phase' = phase /\ buffer' = buffer /\ pipe' = pipe
      /\ worker' = worker /\ hand' = hand /\ answers' = answers /\ collected' = collected
      /\ file' = file /\ instructions_written' = instructions_written
  BY DEF ParseNode, queues, pool, output
<1>3. kind' \in [all -> Kinds]
  <2>1. PICK k \in [new -> Kinds] :
           kind' = [insn \in all |-> IF insn \in new THEN k[insn] ELSE kind[insn]]
    BY <1>1 DEF ParseNode
  <2> HIDE DEF new
  <2> QED
    BY <1>1, <2>1 DEF Shape
<1>4. IsFiniteSet(all)
  <2>1. IsFiniteSet(Combinations(Nodes[parsed + 1]))
    BY <1>1, PoolAssumption, CombinationsFinite
  <2>2. make \in Surjection(Combinations(Nodes[parsed + 1]), new)
    BY DEF Surjection
  <2>3. IsFiniteSet(new)
    BY <2>1, <2>2, FS_Surjection
  <2> QED
    BY <1>1, <2>3, FS_Union DEF Shape
<1>5. \A insn \in all : insn.node # 0
  <2>1. \A insn \in new : insn.node = parsed + 1
    OBVIOUS
  <2> HIDE DEF new
  <2> QED
    BY <1>1, <2>1 DEF Shape
<1>6. N' \in Nat
  BY <1>1, <1>4, FS_CardinalityType DEF N
<1> HIDE DEF new, all
<1>7. Shape'
  <2>1. /\ parsed' \in 0..Len(Nodes) /\ collected' \in 0..N'
        /\ Cardinality(pipe') <= PipeCapacity
    BY <1>1, <1>2, <1>6 DEF ParsingInv, Shape
  <2>2. buffer' = {} /\ pipe' = {} /\ \A w \in Workers : hand'[w] = {}
    BY <1>1, <1>2 DEF ParsingInv
  <2>3. hand' \in [Workers -> SUBSET all]
    BY <1>1, <1>2, <2>2 DEF Shape
  <2>4. answers' \in [Workers -> Seq([succ : BOOLEAN, insn : all])]
    <3>1. \A w \in Workers : answers'[w] = <<>>
      BY <1>1, <1>2 DEF ParsingInv
    <3>2. answers' = [w \in Workers |-> <<>>]
      BY <1>1, <1>2, <3>1 DEF Shape
    <3> QED
      BY <3>2
  <2> QED
    BY <1>1, <1>2, <1>3, <1>4, <1>5, <2>1, <2>2, <2>3, <2>4 DEF Shape, Answers
<1>8. WrittenInv'
  <2>1. Len(generator.pseudo) \in Nat /\ instructions_written = 0
    BY <1>1, PoolAssumption DEF Shape, Generator, ParsingInv
  <2> QED
    BY <1>2, <1>6, <2>1 DEF WrittenInv
<1>9. ParsingInv' /\ AnswersInv'
  BY <1>1, <1>2 DEF ParsingInv, AnswersInv
<1> QED
  BY <1>1, <1>2, <1>7, <1>8, <1>9 DEF Inv, FileInv, PoolInv, Working, FileMatches

LEMMA LoadWorkInv == ASSUME Inv, LoadWork PROVE Inv'
<1>1. /\ phase = "parsing" /\ phase' = "starting" /\ buffer' = assembly_instructions
      /\ Shape /\ ParsingInv
      /\ UNCHANGED <<input, pipe, pool, answers, collected, output>>
  BY DEF Inv, LoadWork
<1> USE DEF input, pool, output
<1>2. Shape'
  BY <1>1 DEF Shape, Answers, N
<1>3. Gone' = {} /\ Answered' = {}
  BY <1>1 DEF Gone, Answered
<1>4. Apart' /\ NoneLost'
  BY <1>1, <1>3 DEF Apart, NoneLost, ParsingInv
<1>5. CountInv'
  BY <1>1, <1>3, FS_EmptySet DEF CountInv, ParsingInv
<1>6. FileInv'
  BY <1>1 DEF FileInv, ParsingInv
<1>7. AnswersInv' /\ WrittenInv'
  BY <1>1 DEF AnswersInv, WrittenInv, N, Inv
<1> QED
  BY <1>1, <1>2, <1>4, <1>5, <1>6, <1>7 DEF Inv, ParsingInv, PoolInv, FileMatches

\* A step that moves no instruction.
LEMMA StillInv ==
    ASSUME Inv, UNCHANGED <<input, queues, hand, answers, collected, output>>,
           worker' \in [Workers -> {"unstarted", "running", "dead"}],
           \/ (phase' = phase /\ phase # "parsing")
           \/ (Working /\ Working')
           \/ UNCHANGED vars
    PROVE  Inv'
<1> USE DEF input, queues, output
<1>1. Shape' /\ AnswersInv' /\ WrittenInv'
  BY DEF Inv, Shape, Answers, N, AnswersInv, WrittenInv, vars, Working
<1>2. ParsingInv'
  BY DEF Inv, ParsingInv, Working, vars
<1>3. FileInv' /\ FileMatches'
  BY DEF Inv, FileInv, FileMatches, Working, vars
<1>4. PoolInv'
  <2>1. Gone' = Gone
    BY DEF Gone
  <2>2. Answered' = Answered
    BY <2>1 DEF Answered
  <2>3. (Apart => Apart') /\ (NoneLost => NoneLost') /\ (CountInv => CountInv')
    BY <2>1, <2>2 DEF Apart, NoneLost, CountInv
  <2> QED
    BY <2>3 DEF Inv, PoolInv, Working, vars
<1> QED
  BY <1>1, <1>2, <1>3, <1>4 DEF Inv

LEMMA StartingInv ==
    ASSUME Inv, OpenOutput \/ (\E w \in Workers : StartWorker(w)) \/ UNCHANGED vars
    PROVE  Inv'
<1>1. CASE OpenOutput
  BY <1>1, StillInv DEF OpenOutput, pool, Working, Inv, Shape
<1>2. ASSUME NEW w \in Workers, StartWorker(w) PROVE Inv'
  BY <1>2, StillInv DEF StartWorker, Working, Inv, Shape
<1>3. CASE UNCHANGED vars
  BY <1>3, StillInv DEF vars, input, queues, output, Inv, Shape
<1> QED
  BY <1>1, <1>2, <1>3

\* The end of main, one way or another.
LEMMA StopInv ==
    ASSUME Inv, Working, phase' \in {"printed", "aborted", "raised"}, Terminate,
           UNCHANGED <<input, queues>>, collected' \in 0..N, WrittenInv', FileMatches'
    PROVE  Inv'
<1> USE DEF input, queues
<1>1. Shape'
  <2>1. answers' \in [Workers -> Seq(Answers)]
    BY DEF Terminate
  <2> QED
    BY <2>1 DEF Inv, Shape, Answers, N, Terminate
<1>2. AnswersInv'
  BY DEF AnswersInv, Terminate
<1> QED
  BY <1>1, <1>2 DEF Inv, ParsingInv, FileInv, PoolInv, Working

LEMMA RaisedInv ==
    ASSUME Inv, Progress \/ Interrupt PROVE Inv'
<1>1. Working /\ UNCHANGED <<input, queues, collected, output>> /\ Terminate
  BY DEF Progress, Interrupt, Raise, Working
<1>2. phase' \in {"raised", "aborted"}
  BY DEF Progress, Interrupt, Raise
<1>3. collected' \in 0..N /\ WrittenInv'
  BY <1>1 DEF Inv, Shape, WrittenInv, N, input, output
<1>4. file \in Seq(assembly_instructions) /\ instructions_written = Len(file)
  BY <1>1 DEF Inv, FileInv
<1>5. FileMatches'
  BY <1>1, <1>2, <1>4 DEF FileMatches, output
<1> QED
  BY <1>1, <1>2, <1>3, <1>5, StopInv

\* When main has as many answers as there are instructions, all that assemble have
\* been written.
LEMMA AllWritten ==
    ASSUME Inv, Working, collected = N
    PROVE  {insn \in assembly_instructions : kind[insn] = "assembles"}
              = {file[i] : i \in 1..Len(file)}
<1>1. Answered \in SUBSET assembly_instructions
  BY DEF Answered, Gone
<1>2. Answered = assembly_instructions
  BY <1>1, FS_Subset DEF Inv, Shape, PoolInv, CountInv, N
<1>3. \A insn \in assembly_instructions :
         insn \in Gone /\ kind[insn] # "crashes"
  BY <1>2 DEF Answered
<1>4. \A insn \in assembly_instructions :
         kind[insn] = "assembles" => \E i \in 1..Len(file) : file[i] = insn
  BY <1>3 DEF Inv, PoolInv, NoneLost
<1>5. \A i \in 1..Len(file) : file[i] \in assembly_instructions /\ kind[file[i]] = "assembles"
  BY DEF Inv, FileInv
<1> QED
  BY <1>4, <1>5

\* What has been written, and then pseudo instructions.
LEMMA PseudoAppended ==
    ASSUME Inv, Working, NEW k \in 0..Len(generator.pseudo)
    PROVE  LET lines == file \o SubSeq(generator.pseudo, 1, k)
           IN  /\ Len(file) \in Nat /\ Len(lines) = Len(file) + k
               /\ \A i \in 1..Len(file) : lines[i] = file[i]
               /\ \A i, j \in 1..Len(lines) : lines[i] = lines[j] => i = j
<1> DEFINE pseudo == generator.pseudo
           P == {pseudo[i] : i \in DOMAIN pseudo}
           some == SubSeq(pseudo, 1, k)
           lines == file \o some
           n == Len(file)
<1>1. /\ pseudo \in Seq(P)
      /\ \A i, j \in 1..Len(pseudo) : pseudo[i].node = 0 /\ (pseudo[i] = pseudo[j] => i = j)
  BY PseudoType DEF Inv
<1>2. file \in Seq(assembly_instructions) /\ n \in Nat
  BY DEF Inv, FileInv
<1>3. Len(pseudo) \in Nat /\ k \in Nat /\ k <= Len(pseudo)
  BY <1>1
<1>4. some \in Seq(P) /\ Len(some) = k /\ \A i \in 1..k : some[i] = pseudo[i]
  <2> HIDE DEF P, pseudo
  <2> QED
    BY <1>1, <1>3
<1>5. /\ Len(lines) = n + k
      /\ \A i \in 1..n : lines[i] = file[i]
      /\ \A i \in 1..(n + k) : i > n => i - n \in 1..k /\ lines[i] = some[i - n]
  <2> HIDE DEF P, some
  <2> QED
    BY <1>2, <1>3, <1>4
<1>6. ASSUME NEW i \in 1..(n + k), NEW j \in 1..(n + k), lines[i] = lines[j]
      PROVE  i = j
  <2> HIDE DEF lines, some
  <2>1. CASE i <= n /\ j <= n
    BY <1>2, <1>5, <1>6, <2>1 DEF Inv, PoolInv, Apart
  <2>2. CASE i > n /\ j > n
    <3>1. pseudo[i - n] = pseudo[j - n] /\ i - n \in 1..Len(pseudo) /\ j - n \in 1..Len(pseudo)
      BY <1>2, <1>3, <1>4, <1>5, <1>6, <2>2
    <3>2. i - n = j - n
      BY <1>1, <3>1
    <3> QED
      BY <1>2, <3>2
  <2>3. \A x, y \in 1..(n + k) : x <= n /\ y > n => lines[x] # lines[y]
    <3> SUFFICES ASSUME NEW x \in 1..(n + k), NEW y \in 1..(n + k), x <= n, y > n
                 PROVE  lines[x] # lines[y]
      OBVIOUS
    <3>1. lines[x] \in assembly_instructions
      BY <1>2, <1>5
    <3>2. lines[x].node # 0
      BY <3>1 DEF Inv, Shape
    <3>3. lines[y] = pseudo[y - n] /\ y - n \in 1..Len(pseudo)
      BY <1>2, <1>3, <1>4, <1>5
    <3>4. lines[y].node = 0
      BY <1>1, <3>3
    <3> QED
      BY <3>2, <3>4
  <2> QED
    BY <1>2, <1>3, <1>6, <2>1, <2>2, <2>3
<1> QED
  BY <1>2, <1>5, <1>6

LEMMA FinishInv == ASSUME Inv, Finish PROVE Inv'
<1> DEFINE pseudo == generator.pseudo
           m == Len(pseudo)
<1>1. /\ Working /\ collected = N /\ phase' = "printed" /\ Terminate
      /\ file' = file \o pseudo /\ instructions_written' = instructions_written + m
      /\ UNCHANGED <<input, queues, collected>>
  BY DEF Finish, Working
<1>2. m \in Nat /\ SubSeq(pseudo, 1, m) = pseudo
  <2> DEFINE P == {pseudo[i] : i \in DOMAIN pseudo}
  <2>1. pseudo \in Seq(P)
    BY PseudoType DEF Inv
  <2> HIDE DEF P, pseudo
  <2> QED
    BY <2>1
<1>3. /\ Len(file) \in Nat /\ Len(file') = Len(file) + m
      /\ \A i \in 1..Len(file) : file'[i] = file[i]
      /\ \A i, j \in 1..Len(file') : file'[i] = file'[j] => i = j
  <2>1. m \in 0..Len(generator.pseudo)
    BY <1>2
  <2>2. file' = file \o SubSeq(generator.pseudo, 1, m)
    BY <1>1, <1>2
  <2> HIDE DEF m
  <2> QED
    BY <1>1, <2>1, <2>2, PseudoAppended
<1>4. instructions_written' = Len(file')
  BY <1>1, <1>2, <1>3 DEF Inv, FileInv
<1>5. WrittenInv'
  <2>1. Len(file) <= N /\ N \in Nat
    BY <1>1, FileFits, NType DEF Inv, FileInv, PoolInv, Apart
  <2> QED
    BY <1>1, <1>2, <1>3, <1>4, <2>1 DEF WrittenInv, N, input
<1>6. FileMatches'
  <2>1. Len(file') - m = Len(file)
    BY <1>2, <1>3
  <2>2. {file'[i] : i \in 1..Len(file)} = {file[i] : i \in 1..Len(file)}
    BY <1>3
  <2>3. DOMAIN file' = 1..Len(file')
    <3> DEFINE P == {pseudo[i] : i \in DOMAIN pseudo}
    <3>1. pseudo \in Seq(P) /\ file \in Seq(assembly_instructions)
      BY <1>1, PseudoType DEF Inv, FileInv
    <3> HIDE DEF P, pseudo
    <3> QED
      BY <1>1, <3>1
  <2> QED
    BY <1>1, <1>3, <1>4, <2>1, <2>2, <2>3, AllWritten DEF FileMatches, input
<1> QED
  BY <1>1, <1>5, <1>6, StopInv DEF Inv, Shape

LEMMA InterruptPseudoInv == ASSUME Inv, InterruptPseudo PROVE Inv'
<1>1. /\ Working /\ phase' = "aborted" /\ Terminate
      /\ UNCHANGED <<input, queues, collected>>
  BY DEF InterruptPseudo, Working
<1>2. PICK k \in DOMAIN generator.pseudo, uncounted \in {0, 1} :
         /\ file' = file \o SubSeq(generator.pseudo, 1, k)
         /\ instructions_written' = (instructions_written + k) - uncounted
  BY DEF InterruptPseudo
<1>3. k \in 1..Len(generator.pseudo) /\ Len(generator.pseudo) \in Nat
  BY PseudoType DEF Inv
<1>4. Len(file) \in Nat /\ Len(file') = Len(file) + k
  BY <1>1, <1>2, <1>3, PseudoAppended
<1>5. instructions_written = Len(file) /\ Len(file) <= N /\ N \in Nat
  BY <1>1, FileFits, NType DEF Inv, FileInv, PoolInv, Apart
<1>6. \/ instructions_written' = Len(file')
      \/ instructions_written' = Len(file') - 1
  <2>1. k \in Int /\ Len(file) \in Int /\ uncounted \in Int
    BY <1>3, <1>4
  <2>2. instructions_written' = (Len(file) + k) - uncounted
    BY <1>2, <1>5
  <2>3. uncounted = 0 \/ uncounted = 1
    OBVIOUS
  <2> QED
    BY <1>4, <2>1, <2>2, <2>3
<1>7. instructions_written' \in 0..(N + Len(generator.pseudo))
  BY <1>3, <1>4, <1>5, <1>6
<1>8. WrittenInv'
  BY <1>1, <1>7 DEF WrittenInv, N, input
<1>9. Len(file') - instructions_written' \in {0, 1}
  BY <1>3, <1>4, <1>6
<1>10. FileMatches'
  BY <1>1, <1>9 DEF FileMatches
<1> QED
  BY <1>1, <1>8, <1>10, StopInv DEF Inv, Shape

LEMMA ExitInv == ASSUME Inv, Exit PROVE Inv'
<1> USE DEF input, queues, pool, output
<1>1. Shape' /\ AnswersInv' /\ WrittenInv'
  BY DEF Inv, Exit, Shape, Answers, N, AnswersInv, WrittenInv
<1> QED
  BY <1>1 DEF Inv, Exit, ParsingInv, FileInv, PoolInv, Working, FileMatches

-----------------------------------------------------------------------------
(* The instructions on their way *)

LEMMA FeedInv == ASSUME Inv, Feed PROVE Inv'
<1> USE DEF input, pool, output
<1>1. PICK insn \in buffer : buffer' = buffer \ {insn} /\ pipe' = pipe \cup {insn}
  BY DEF Feed
<1>2. UNCHANGED <<input, phase, pool, answers, collected, output>> /\ Shape
  BY DEF Feed, Inv
<1>3. Cardinality(pipe') <= PipeCapacity
  <2>1. IsFiniteSet(pipe)
    BY <1>2, FS_Subset DEF Shape
  <2>2. Cardinality(pipe) \in Nat /\ Cardinality(pipe) < PipeCapacity
    BY <2>1, FS_CardinalityType DEF Feed
  <2>3. Cardinality(pipe') = IF insn \in pipe THEN Cardinality(pipe) ELSE Cardinality(pipe) + 1
    BY <1>1, <2>1, FS_AddElement
  <2> QED
    BY <2>2, <2>3, PoolAssumption
<1>4. Shape'
  BY <1>1, <1>2, <1>3 DEF Shape, Answers, N
<1>5. AnswersInv' /\ WrittenInv' /\ FileInv' /\ FileMatches' /\ ParsingInv'
  BY <1>1, <1>2 DEF Inv, AnswersInv, WrittenInv, N, FileInv, Working, FileMatches, ParsingInv
<1>6. PoolInv'
  <2> SUFFICES ASSUME Working PROVE Apart' /\ NoneLost' /\ CountInv'
    BY <1>2 DEF PoolInv, Working
  <2>1. Apart /\ NoneLost /\ CountInv
    BY DEF Inv, PoolInv
  <2>2. buffer' \cup pipe' = buffer \cup pipe
    BY <1>1
  <2>3. Gone' = Gone
    BY <1>2, <2>2 DEF Gone
  <2>4. Answered' = Answered
    BY <1>2, <2>3 DEF Answered
  <2>5. Apart'
    BY <1>1, <1>2, <2>1, <2>2 DEF Apart
  <2> QED
    BY <1>2, <2>1, <2>3, <2>4, <2>5 DEF NoneLost, CountInv
<1> QED
  BY <1>4, <1>5, <1>6 DEF Inv

LEMMA GetInv == ASSUME Inv, NEW w \in Workers, Get(w) PROVE Inv'
<1> USE DEF input, output
<1>1. PICK insn \in pipe : hand' = [hand EXCEPT ![w] = {insn}] /\ pipe' = pipe \ {insn}
  BY DEF Get
<1>2. /\ UNCHANGED <<input, phase, buffer, worker, answers, collected, output>>
      /\ hand[w] = {} /\ worker[w] = "running" /\ Shape
  BY DEF Get, Inv
<1>3. hand'[w] = {insn} /\ \A v \in Workers : v # w => hand'[v] = hand[v]
  BY <1>1, <1>2 DEF Shape
<1>4. Cardinality(pipe') <= PipeCapacity
  <2>1. IsFiniteSet(pipe) /\ pipe' \in SUBSET pipe
    BY <1>1, <1>2, FS_Subset DEF Shape
  <2>2. Cardinality(pipe) \in Nat /\ Cardinality(pipe') \in Nat /\ Cardinality(pipe') <= Cardinality(pipe)
    BY <2>1, FS_Subset, FS_CardinalityType
  <2> QED
    BY <1>2, <2>2, PoolAssumption DEF Shape
<1>5. Shape'
  <2>1. hand' \in [Workers -> SUBSET assembly_instructions]
    BY <1>1, <1>2 DEF Shape
  <2>2. \A v \in Workers : \A a, b \in hand'[v] : a = b
    BY <1>2, <1>3 DEF Shape
  <2>3. pipe' \subseteq assembly_instructions
    BY <1>1, <1>2 DEF Shape
  <2> QED
    BY <1>2, <1>4, <2>1, <2>2, <2>3 DEF Shape, Answers, N
<1>6. AnswersInv' /\ WrittenInv' /\ FileInv' /\ FileMatches' /\ ParsingInv'
  BY <1>1, <1>2 DEF Inv, AnswersInv, WrittenInv, N, FileInv, Working, FileMatches, ParsingInv
<1>7. PoolInv'
  <2> SUFFICES ASSUME Working PROVE Apart' /\ NoneLost' /\ CountInv'
    BY <1>2 DEF PoolInv, Working
  <2>1. Apart /\ NoneLost /\ CountInv
    BY DEF Inv, PoolInv
  <2>2. Gone' = Gone
    BY <1>1, <1>2, <1>3, <2>1 DEF Gone, Apart
  <2>3. Answered' = Answered
    BY <1>2, <2>2 DEF Answered
  <2>4. Apart'
    BY <1>1, <1>2, <1>3, <2>1 DEF Apart
  <2> QED
    BY <1>2, <2>1, <2>2, <2>3, <2>4 DEF NoneLost, CountInv
<1> QED
  BY <1>5, <1>6, <1>7 DEF Inv

LEMMA AssembleInv == ASSUME Inv, NEW w \in Workers, Assemble(w) PROVE Inv'
<1> USE DEF input, queues, output
<1> DEFINE answer(insn) == [succ |-> kind[insn] # "rejected", insn |-> insn]
           n == Len(answers[w])
<1>1. PICK insn \in hand[w] :
         /\ hand' = [hand EXCEPT ![w] = {}]
         /\ IF kind[insn] = "crashes"
            THEN worker' = [worker EXCEPT ![w] = "dead"] /\ answers' = answers
            ELSE /\ answers' = [answers EXCEPT ![w] = Append(@, answer(insn))]
                 /\ worker' = worker
         /\ UNCHANGED <<input, phase, queues, collected, output>>
  BY DEF Assemble
<1>2. /\ Shape /\ answers[w] \in Seq(Answers) /\ n \in Nat
      /\ insn \in assembly_instructions
      /\ hand[w] = {insn}
  BY <1>1 DEF Inv, Shape
<1>3. hand'[w] = {} /\ \A v \in Workers : v # w => hand'[v] = hand[v]
  BY <1>1, <1>2 DEF Shape
<1>4. phase # "parsing"
  BY <1>1 DEF Inv, ParsingInv
<1>5. CASE kind[insn] = "crashes"
  <2>1. answers' = answers /\ worker' = [worker EXCEPT ![w] = "dead"]
    BY <1>1, <1>5
  <2>2. Shape'
    BY <1>1, <1>2, <1>3, <2>1 DEF Shape, Answers, N
  <2>3. AnswersInv' /\ WrittenInv' /\ FileInv' /\ FileMatches' /\ ParsingInv'
    BY <1>1, <1>4, <2>1 DEF Inv, AnswersInv, WrittenInv, N, FileInv, Working, FileMatches,
       ParsingInv
  <2>4. PoolInv'
    <3> SUFFICES ASSUME Working PROVE Apart' /\ NoneLost' /\ CountInv'
      BY <1>1 DEF PoolInv, Working
    <3>1. Apart /\ NoneLost /\ CountInv
      BY DEF Inv, PoolInv
    <3>2. \A i \in Gone' : i \in Gone \/ i = insn
      BY <1>1, <1>2, <1>3, <2>1 DEF Gone
    <3>3. \A i \in Gone : i \in Gone'
      BY <1>1, <1>2, <1>3, <2>1 DEF Gone
    <3>4. Answered' = Answered
      BY <1>1, <1>5, <3>2, <3>3 DEF Answered
    <3>5. Apart'
      BY <1>1, <1>3, <2>1, <3>1 DEF Apart
    <3>6. NoneLost'
      BY <1>1, <1>5, <3>1, <3>2 DEF NoneLost
    <3> QED
      BY <1>1, <3>1, <3>4, <3>5, <3>6 DEF CountInv
  <2> QED
    BY <2>2, <2>3, <2>4 DEF Inv
<1>6. CASE kind[insn] # "crashes"
  <2>1. answers' = [answers EXCEPT ![w] = Append(@, answer(insn))] /\ worker' = worker
    BY <1>1, <1>6
  <2>2. answer(insn) \in Answers
    BY <1>2 DEF Answers
  <2>3. /\ answers' \in [Workers -> Seq(Answers)]
        /\ \A v \in Workers : v # w => answers'[v] = answers[v]
        /\ Len(answers'[w]) = n + 1
        /\ \A i \in 1..n : answers'[w][i] = answers[w][i]
        /\ answers'[w][n + 1] = answer(insn)
    <3> HIDE DEF answer
    <3>1. answers'[w] = Append(answers[w], answer(insn))
      BY <1>2, <2>1 DEF Shape
    <3> QED
      BY <1>2, <2>1, <2>2, <3>1 DEF Shape
  <2>4. \A v \in Workers : \A i \in 1..Len(answers'[v]) :
           \/ i \in 1..Len(answers[v]) /\ answers'[v][i] = answers[v][i]
           \/ v = w /\ i = n + 1 /\ answers'[v][i] = answer(insn)
    BY <1>2, <2>3
  <2>5. \A v \in Workers : \A i \in 1..Len(answers[v]) :
           i \in 1..Len(answers'[v]) /\ answers'[v][i] = answers[v][i]
    BY <1>2, <2>3
  <2>6. n + 1 \in 1..Len(answers'[w])
    BY <1>2, <2>3
  <2>7. Shape'
    <3>1. hand' \in [Workers -> SUBSET assembly_instructions]
      BY <1>1, <1>2 DEF Shape
    <3>2. \A v \in Workers : \A a, b \in hand'[v] : a = b
      BY <1>2, <1>3 DEF Shape
    <3>3. answers' \in [Workers -> Seq(Answers')]
      BY <1>1, <2>3 DEF Answers
    <3> QED
      BY <1>1, <1>2, <2>1, <3>1, <3>2, <3>3 DEF Shape, N
  <2>8. AnswersInv'
    <3>1. answer(insn).insn = insn /\ (answer(insn).succ <=> kind[insn] # "rejected")
      OBVIOUS
    <3>2. AnswersInv
      BY DEF Inv
    <3> HIDE DEF answer, n
    <3>3. ASSUME NEW v \in Workers, NEW i \in 1..Len(answers'[v])
          PROVE  /\ kind[answers'[v][i].insn] # "crashes"
                 /\ answers'[v][i].succ <=> kind[answers'[v][i].insn] # "rejected"
      <4>1. CASE i \in 1..Len(answers[v]) /\ answers'[v][i] = answers[v][i]
        BY <3>2, <4>1 DEF AnswersInv
      <4>2. CASE answers'[v][i] = answer(insn)
        BY <1>6, <3>1, <4>2
      <4> QED
        BY <2>4, <4>1, <4>2
    <3> QED
      BY <1>1, <3>3 DEF AnswersInv
  <2>9. WrittenInv' /\ FileInv' /\ FileMatches' /\ ParsingInv'
    BY <1>1, <1>4 DEF Inv, WrittenInv, N, FileInv, Working, FileMatches, ParsingInv
  <2>10. PoolInv'
    <3> SUFFICES ASSUME Working PROVE Apart' /\ NoneLost' /\ CountInv'
      BY <1>1 DEF PoolInv, Working
    <3>1. Apart /\ NoneLost /\ CountInv
      BY DEF Inv, PoolInv
    <3>2. Gone' = Gone
      <4>1. ASSUME NEW i \in Gone PROVE i \in Gone'
        BY <1>1, <1>2, <1>3, <2>4 DEF Gone
      <4>2. ASSUME NEW i \in Gone' PROVE i \in Gone
        <5>1. i # insn
          BY <2>3, <2>6 DEF Gone
        <5> QED
          BY <1>1, <1>2, <1>3, <2>5, <5>1 DEF Gone
      <4> QED
        BY <4>1, <4>2
    <3>3. Answered' = Answered
      BY <1>1, <3>2 DEF Answered
    <3>4. insn \notin buffer \cup pipe /\ (\A v \in Workers : insn \notin hand'[v])
          /\ (\A v \in Workers : \A i \in 1..Len(answers[v]) : answers[v][i].insn # insn)
          /\ (\A k \in 1..Len(file) : file[k] # insn)
      BY <1>2, <1>3, <3>1 DEF Apart
    <3>5. Apart'
      <4>1. /\ buffer \cap pipe = {}
            /\ \A v \in Workers : hand'[v] \cap (buffer \cup pipe) = {}
            /\ \A u, v \in Workers : u # v => hand'[u] \cap hand'[v] = {}
            /\ \A j, k \in 1..Len(file) : file[j] = file[k] => j = k
        BY <1>3, <3>1 DEF Apart
      <4>2. \A v \in Workers : \A i \in 1..Len(answers'[v]) :
               /\ answers'[v][i].insn \notin buffer \cup pipe
               /\ \A u \in Workers : answers'[v][i].insn \notin hand'[u]
        BY <1>3, <2>4, <3>1, <3>4 DEF Apart
      <4>3. \A u, v \in Workers : \A i \in 1..Len(answers'[u]), j \in 1..Len(answers'[v]) :
               answers'[u][i].insn = answers'[v][j].insn => u = v /\ i = j
        <5> SUFFICES ASSUME NEW u \in Workers, NEW v \in Workers,
                            NEW i \in 1..Len(answers'[u]), NEW j \in 1..Len(answers'[v]),
                            answers'[u][i].insn = answers'[v][j].insn
                     PROVE  u = v /\ i = j
          OBVIOUS
        <5>1. answer(insn).insn = insn
          OBVIOUS
        <5> HIDE DEF answer, n
        <5> DEFINE old(x, k) == k \in 1..Len(answers[x]) /\ answers'[x][k] = answers[x][k]
                   new(x, k) == x = w /\ k = n + 1 /\ answers'[x][k] = answer(insn)
        <5>2. (old(u, i) \/ new(u, i)) /\ (old(v, j) \/ new(v, j))
          BY <2>4
        <5>3. CASE old(u, i) /\ old(v, j)
          BY <3>1, <5>3 DEF Apart
        <5>4. CASE new(u, i) /\ new(v, j)
          BY <5>4
        <5>5. CASE old(u, i) /\ new(v, j)
          BY <3>4, <5>1, <5>5
        <5>6. CASE new(u, i) /\ old(v, j)
          BY <3>4, <5>1, <5>6
        <5> QED
          BY <5>2, <5>3, <5>4, <5>5, <5>6
      <4>4. ASSUME NEW k \in 1..Len(file)
            PROVE  /\ file[k] \notin buffer \cup pipe
                   /\ \A v \in Workers :
                         /\ file[k] \notin hand'[v]
                         /\ \A i \in 1..Len(answers'[v]) : answers'[v][i].insn # file[k]
        <5>1. file[k] \notin buffer \cup pipe
          BY <3>1 DEF Apart
        <5>2. ASSUME NEW v \in Workers PROVE file[k] \notin hand'[v]
          BY <1>3, <3>1 DEF Apart
        <5>3. ASSUME NEW v \in Workers, NEW i \in 1..Len(answers'[v])
              PROVE  answers'[v][i].insn # file[k]
          <6>1. CASE i \in 1..Len(answers[v]) /\ answers'[v][i] = answers[v][i]
            BY <3>1, <6>1 DEF Apart
          <6>2. CASE answers'[v][i] = answer(insn)
            <7>1. answer(insn).insn = insn
              OBVIOUS
            <7> QED
              BY <3>4, <6>2, <7>1
          <6> QED
            BY <2>4, <6>1, <6>2
        <5> QED
          BY <5>1, <5>2, <5>3
      <4> QED
        BY <1>1, <4>1, <4>2, <4>3, <4>4 DEF Apart
    <3> QED
      BY <1>1, <3>1, <3>2, <3>3, <3>5 DEF NoneLost, CountInv
  <2> QED
    BY <2>7, <2>8, <2>9, <2>10 DEF Inv
<1> QED
  BY <1>5, <1>6

LEMMA CollectInv == ASSUME Inv, NEW w \in Workers, Collect(w) PROVE Inv'
<1> USE DEF input, queues, output
<1> DEFINE n == Len(answers[w])
<1>1. /\ phase = "collecting" /\ collected < N /\ answers[w] # <<>> /\ Working
      /\ Shape /\ Apart /\ NoneLost /\ CountInv /\ AnswersInv
      /\ answers[w] \in Seq(Answers)
  BY DEF Collect, Working, Inv, PoolInv, Shape
<1>2. /\ n \in Nat \ {0} /\ Head(answers[w]) = answers[w][1] /\ answers[w][1] \in Answers
  BY <1>1
<1>3. PICK a \in Answers :
         /\ a = answers[w][1]
         /\ IF a.succ /\ kind[a.insn] = "delimiter"
            THEN Raise /\ UNCHANGED <<collected, output>>
            ELSE /\ answers' = [answers EXCEPT ![w] = Tail(@)]
                 /\ file' = IF a.succ THEN Append(file, a.insn) ELSE file
                 /\ instructions_written' = instructions_written + (IF a.succ THEN 1 ELSE 0)
                 /\ collected' = collected + 1
                 /\ UNCHANGED <<phase, pool>>
         /\ UNCHANGED <<input, queues>>
  BY <1>2 DEF Collect
<1>4. file \in Seq(assembly_instructions) /\ instructions_written = Len(file)
      /\ \A i \in 1..Len(file) : kind[file[i]] = "assembles"
  BY <1>1 DEF Inv, FileInv
<1>5. a.insn \in assembly_instructions /\ a.succ \in BOOLEAN
      /\ kind[a.insn] # "crashes" /\ (a.succ <=> kind[a.insn] # "rejected")
  BY <1>1, <1>2, <1>3 DEF Answers, AnswersInv
<1>6. CASE a.succ /\ kind[a.insn] = "delimiter"
  <2>1. phase' = "raised" /\ Terminate /\ UNCHANGED <<input, queues, collected, output>>
    BY <1>3, <1>6 DEF Raise
  <2>2. collected' \in 0..N /\ WrittenInv' /\ FileMatches'
    BY <1>1, <2>1 DEF Inv, Shape, WrittenInv, N, FileMatches
  <2> QED
    BY <1>1, <2>1, <2>2, StopInv
<1>7. CASE ~(a.succ /\ kind[a.insn] = "delimiter")
  <2>1. /\ answers' = [answers EXCEPT ![w] = Tail(@)]
        /\ file' = IF a.succ THEN Append(file, a.insn) ELSE file
        /\ instructions_written' = instructions_written + (IF a.succ THEN 1 ELSE 0)
        /\ collected' = collected + 1
        /\ UNCHANGED <<phase, pool, input, queues>>
    BY <1>3, <1>7
  <2>2. /\ answers' \in [Workers -> Seq(Answers)]
        /\ \A v \in Workers : v # w => answers'[v] = answers[v]
        /\ Len(answers'[w]) = n - 1
        /\ \A i \in 1..(n - 1) : answers'[w][i] = answers[w][i + 1]
    <3>1. answers'[w] = Tail(answers[w]) /\ \A v \in Workers : v # w => answers'[v] = answers[v]
      BY <1>1, <2>1 DEF Shape
    <3>2. answers'[w] \in Seq(Answers) /\ Len(answers'[w]) = n - 1
          /\ \A i \in 1..(n - 1) : answers'[w][i] = answers[w][i + 1]
      BY <1>1, <1>2, <3>1
    <3> QED
      BY <1>1, <2>1, <3>1, <3>2 DEF Shape
  \* Each answer that is left was there before, and is not a.
  <2>3. \A v \in Workers : \A i \in 1..Len(answers'[v]) :
           \E j \in 1..Len(answers[v]) :
              /\ answers'[v][i] = answers[v][j]
              /\ j = (IF v = w THEN i + 1 ELSE i)
    BY <1>2, <2>2
  <2>4. \A v \in Workers : \A j \in 1..Len(answers[v]) :
           \/ v = w /\ j = 1
           \/ \E i \in 1..Len(answers'[v]) : answers'[v][i] = answers[v][j]
    <3> SUFFICES ASSUME NEW v \in Workers, NEW j \in 1..Len(answers[v]), ~(v = w /\ j = 1)
                 PROVE  \E i \in 1..Len(answers'[v]) : answers'[v][i] = answers[v][j]
      OBVIOUS
    <3>1. CASE v # w
      BY <2>2, <3>1
    <3>2. CASE v = w
      <4>1. j - 1 \in 1..(n - 1) /\ j = (j - 1) + 1
        BY <1>2, <3>2
      <4> QED
        BY <2>2, <3>2, <4>1
    <3> QED
      BY <3>1, <3>2
  <2>5. /\ a.insn \notin buffer \cup pipe
        /\ \A v \in Workers : a.insn \notin hand[v]
        /\ \A v \in Workers : \A i \in 1..Len(answers'[v]) : answers'[v][i].insn # a.insn
        /\ \A k \in 1..Len(file) : file[k] # a.insn
    <3>1. 1 \in 1..Len(answers[w])
      BY <1>2
    <3>2. ASSUME NEW v \in Workers, NEW i \in 1..Len(answers'[v]),
                 answers'[v][i].insn = a.insn
          PROVE  FALSE
      <4>1. PICK j \in 1..Len(answers[v]) :
               answers'[v][i] = answers[v][j] /\ j = (IF v = w THEN i + 1 ELSE i)
        BY <2>3
      <4>2. v = w /\ j = 1
        BY <1>1, <1>3, <3>1, <3>2, <4>1 DEF Apart
      <4>3. i + 1 = 1 /\ i \in Nat /\ i >= 1
        BY <4>1, <4>2
      <4> QED
        BY <4>3
    <3> QED
      BY <1>1, <1>3, <3>1, <3>2 DEF Apart
  <2>6. Gone' = Gone \cup {a.insn} /\ a.insn \notin Gone
    <3>1. ASSUME NEW i \in Gone PROVE i \in Gone' /\ i # a.insn
      <4>1. i # a.insn
        BY <1>2, <1>3 DEF Gone
      <4>2. \A v \in Workers : \A k \in 1..Len(answers'[v]) : answers'[v][k].insn # i
        BY <2>3 DEF Gone
      <4> QED
        BY <2>1, <4>1, <4>2 DEF Gone, pool
    <3>2. a.insn \in Gone'
      BY <1>5, <2>1, <2>5 DEF Gone, pool
    <3>3. ASSUME NEW i \in Gone', i # a.insn PROVE i \in Gone
      <4>1. \A v \in Workers : \A j \in 1..Len(answers[v]) : answers[v][j].insn # i
        BY <1>3, <2>4, <3>3 DEF Gone
      <4> QED
        BY <2>1, <4>1 DEF Gone, pool
    <3> QED
      BY <3>1, <3>2, <3>3
  <2>7. Answered' = Answered \cup {a.insn} /\ a.insn \notin Answered
    BY <1>5, <2>1, <2>6 DEF Answered
  <2>8. CountInv'
    <3>1. IsFiniteSet(Answered)
      <4>1. Answered \in SUBSET assembly_instructions
        BY DEF Answered, Gone
      <4> QED
        BY <1>1, <4>1, FS_Subset DEF Shape
    <3>2. Cardinality(Answered') = Cardinality(Answered) + 1
      BY <2>7, <3>1, FS_AddElement
    <3> QED
      BY <1>1, <2>1, <3>2 DEF CountInv
  \* The file, and its lines.
  <2>9. /\ file' \in Seq(assembly_instructions)
        /\ instructions_written' = Len(file')
        /\ \A i \in 1..Len(file) : i \in 1..Len(file') /\ file'[i] = file[i]
        /\ \A i \in 1..Len(file') : \/ i \in 1..Len(file) /\ file'[i] = file[i]
                                    \/ i = Len(file) + 1 /\ file'[i] = a.insn /\ a.succ
        /\ a.succ => \E i \in 1..Len(file') : file'[i] = a.insn
    <3>1. CASE a.succ
      <4>1. file' = Append(file, a.insn) /\ instructions_written' = instructions_written + 1
        BY <2>1, <3>1
      <4>2. Len(file') = Len(file) + 1 /\ file'[Len(file) + 1] = a.insn /\ Len(file) \in Nat
        BY <1>4, <1>5, <4>1
      <4>3. Len(file) + 1 \in 1..Len(file')
        BY <4>2
      <4>4. /\ file' \in Seq(assembly_instructions)
            /\ \A i \in 1..Len(file) : file'[i] = file[i]
        BY <1>4, <1>5, <4>1
      <4>5. \A i \in 1..Len(file') : i \in 1..Len(file) \/ i = Len(file) + 1
        BY <4>2
      <4>6. instructions_written' = Len(file')
        BY <1>4, <4>1, <4>2
      <4>7. \A i \in 1..Len(file) : i \in 1..Len(file')
        BY <4>2
      <4>8. \A i \in 1..Len(file') : \/ i \in 1..Len(file) /\ file'[i] = file[i]
                                     \/ i = Len(file) + 1 /\ file'[i] = a.insn /\ a.succ
        BY <3>1, <4>2, <4>4, <4>5
      <4>9. \E i \in 1..Len(file') : file'[i] = a.insn
        BY <4>2, <4>3
      <4> QED
        BY <4>4, <4>6, <4>7, <4>8, <4>9
    <3>2. CASE ~a.succ
      <4>1. file' = file /\ instructions_written' = instructions_written + 0
        BY <2>1, <3>2
      <4>2. Len(file) \in Nat /\ instructions_written' = Len(file)
        BY <1>4, <4>1
      <4>3. file' = file /\ file' \in Seq(assembly_instructions)
        BY <1>4, <4>1
      <4>4. instructions_written' = Len(file')
        BY <4>2, <4>3
      <4>5. \A i \in 1..Len(file) : i \in 1..Len(file') /\ file'[i] = file[i]
        BY <4>3
      <4>6. \A i \in 1..Len(file') : i \in 1..Len(file) /\ file'[i] = file[i]
        BY <4>3
      <4> QED
        BY <3>2, <4>3, <4>4, <4>5, <4>6
    <3> QED
      BY <3>1, <3>2
  <2>10. NoneLost'
    <3>1. ASSUME NEW i \in Gone
          PROVE  \/ kind'[i] \in {"rejected", "crashes"}
                 \/ \E k \in 1..Len(file') : file'[k] = i
      BY <1>1, <2>1, <2>9 DEF NoneLost
    <3>2. \/ kind'[a.insn] \in {"rejected", "crashes"}
          \/ \E k \in 1..Len(file') : file'[k] = a.insn
      BY <1>5, <2>1, <2>9
    <3> QED
      BY <2>6, <3>1, <3>2 DEF NoneLost
  <2>11. Apart'
    <3>1. /\ buffer' \cap pipe' = {}
          /\ \A v \in Workers : hand'[v] \cap (buffer' \cup pipe') = {}
          /\ \A u, v \in Workers : u # v => hand'[u] \cap hand'[v] = {}
      BY <1>1, <2>1 DEF Apart, pool
    <3>2. \A v \in Workers : \A i \in 1..Len(answers'[v]) :
             /\ answers'[v][i].insn \notin buffer' \cup pipe'
             /\ \A u \in Workers : answers'[v][i].insn \notin hand'[u]
      BY <1>1, <2>1, <2>3 DEF Apart, pool
    <3>3. \A u, v \in Workers : \A i \in 1..Len(answers'[u]), j \in 1..Len(answers'[v]) :
             answers'[u][i].insn = answers'[v][j].insn => u = v /\ i = j
      <4> SUFFICES ASSUME NEW u \in Workers, NEW v \in Workers,
                          NEW i \in 1..Len(answers'[u]), NEW j \in 1..Len(answers'[v]),
                          answers'[u][i].insn = answers'[v][j].insn
                   PROVE  u = v /\ i = j
        OBVIOUS
      <4>1. PICK k \in 1..Len(answers[u]) :
               answers'[u][i] = answers[u][k] /\ k = (IF u = w THEN i + 1 ELSE i)
        BY <2>3
      <4>2. PICK l \in 1..Len(answers[v]) :
               answers'[v][j] = answers[v][l] /\ l = (IF v = w THEN j + 1 ELSE j)
        BY <2>3
      <4>3. u = v /\ k = l
        BY <1>1, <4>1, <4>2 DEF Apart
      <4> QED
        BY <4>1, <4>2, <4>3
    <3>4. \A k \in 1..Len(file') :
             /\ file'[k] \notin buffer' \cup pipe'
             /\ \A v \in Workers :
                   /\ file'[k] \notin hand'[v]
                   /\ \A i \in 1..Len(answers'[v]) : answers'[v][i].insn # file'[k]
      <4> SUFFICES ASSUME NEW k \in 1..Len(file')
                   PROVE  /\ file'[k] \notin buffer' \cup pipe'
                          /\ \A v \in Workers :
                                /\ file'[k] \notin hand'[v]
                                /\ \A i \in 1..Len(answers'[v]) : answers'[v][i].insn # file'[k]
        OBVIOUS
      <4>1. CASE k \in 1..Len(file) /\ file'[k] = file[k]
        BY <1>1, <2>1, <2>3, <4>1 DEF Apart, pool
      <4>2. CASE file'[k] = a.insn
        BY <2>1, <2>5, <4>2 DEF pool
      <4> QED
        BY <2>9, <4>1, <4>2
    <3>5. \A j, k \in 1..Len(file') : file'[j] = file'[k] => j = k
      BY <1>1, <2>5, <2>9 DEF Apart
    <3> QED
      BY <3>1, <3>2, <3>3, <3>4, <3>5 DEF Apart
  <2>12. FileInv'
    <3>1. a.succ => kind[a.insn] = "assembles"
      BY <1>1, <1>5, <1>7, PoolAssumption DEF Shape, AllKinds
    <3> QED
      BY <1>4, <2>1, <2>9, <3>1 DEF FileInv
  <2>13. Shape'
    <3>1. N \in Nat /\ collected' \in 0..N
      BY <1>1, <2>1, NType DEF Shape
    <3>2. answers' \in [Workers -> Seq(Answers')]
      BY <2>1, <2>2 DEF Answers
    <3> QED
      BY <1>1, <2>1, <3>1, <3>2 DEF Shape, N, pool
  <2>14. AnswersInv'
    BY <1>1, <2>1, <2>3 DEF AnswersInv
  <2>15. WrittenInv'
    <3>1. Len(file') <= N' /\ Len(file') \in Nat
      <4>1. \A j, k \in 1..Len(file') : file'[j] = file'[k] => j = k
        BY <2>11 DEF Apart
      <4>2. file' \in Seq(assembly_instructions) /\ Len(file') \in Nat
        BY <2>9
      <4>3. Len(file') <= N
        BY <1>1, <4>1, <4>2, FileFits
      <4> QED
        BY <2>1, <4>2, <4>3 DEF N
    <3>2. Len(generator.pseudo) \in Nat /\ N \in Nat
      BY <1>1, PseudoType, NType
    <3> QED
      BY <2>1, <2>9, <3>1, <3>2 DEF WrittenInv, N
  <2> QED
    BY <1>1, <2>1, <2>8, <2>10, <2>11, <2>12, <2>13, <2>14, <2>15
    DEF Inv, ParsingInv, PoolInv, FileMatches
<1> QED
  BY <1>6, <1>7

LEMMA InterruptUncountedInv ==
    ASSUME Inv, NEW w \in Workers, InterruptUncounted(w) PROVE Inv'
<1> DEFINE insn == answers[w][1].insn
<1>1. /\ Working /\ phase' = "aborted" /\ Terminate /\ collected < N
      /\ UNCHANGED <<input, queues, instructions_written>>
      /\ collected' = collected + 1
      /\ answers[w] # <<>>
      /\ Shape /\ answers[w] \in Seq(Answers)
  BY DEF InterruptUncounted, Working, Inv, Shape
<1>2. insn \in assembly_instructions /\ Head(answers[w]) = answers[w][1]
  <2>1. Head(answers[w]) = answers[w][1] /\ answers[w][1] \in Answers
    BY <1>1
  <2> QED
    BY <2>1 DEF Answers
<1>3. file' = Append(file, insn)
  BY <1>2 DEF InterruptUncounted
<1>4. /\ file \in Seq(assembly_instructions) /\ Len(file) \in Nat
      /\ instructions_written = Len(file)
  BY <1>1 DEF Inv, FileInv
<1>5. Len(file') - instructions_written' = 1
  <2>1. Len(file') = Len(file) + 1
    BY <1>2, <1>3, <1>4
  <2> QED
    BY <1>1, <1>4, <2>1
<1>6. FileMatches'
  BY <1>1, <1>5 DEF FileMatches
<1>7. collected' \in 0..N /\ WrittenInv'
  BY <1>1, NType DEF Inv, Shape, WrittenInv, N, input
<1> QED
  BY <1>1, <1>6, <1>7, StopInv

-----------------------------------------------------------------------------
(* The theorems *)

LEMMA NextInv == ASSUME Inv, [Next]_vars PROVE Inv'
BY ParseNodeInv, LoadWorkInv, StartingInv, RaisedInv, FinishInv, InterruptPseudoInv, ExitInv,
   FeedInv, GetInv, AssembleInv, CollectInv, InterruptUncountedInv DEF Next

\* The invariant of the pool.
THEOREM Invariance == Spec => []Inv
<1>1. Init => Inv
  BY InitInv
<1>2. Inv /\ [Next]_vars => Inv'
  BY NextInv
<1> QED
  BY <1>1, <1>2, PTL DEF Spec

LEMMA Typed == Inv => TypeOK
<1> SUFFICES ASSUME Inv PROVE TypeOK
  OBVIOUS
<1>1. \A w \in Workers :
         /\ hand[w] \subseteq assembly_instructions /\ Cardinality(hand[w]) <= 1
         /\ \A i \in DOMAIN answers[w] :
               answers[w][i] \in [succ : BOOLEAN, insn : assembly_instructions]
  <2> SUFFICES ASSUME NEW w \in Workers
               PROVE  /\ hand[w] \subseteq assembly_instructions /\ Cardinality(hand[w]) <= 1
                      /\ \A i \in DOMAIN answers[w] : answers[w][i] \in Answers
    BY DEF Answers
  <2>1. hand[w] \subseteq assembly_instructions /\ answers[w] \in Seq(Answers)
    BY DEF Inv, Shape
  <2>2. Cardinality(hand[w]) <= 1
    BY AtMostOne DEF Inv, Shape
  <2> QED
    BY <2>1, <2>2
<1> QED
  BY <1>1 DEF Inv, Shape, WrittenInv, TypeOK

\* The types of WorkerPool.tla: main collects no more answers than there are
\* instructions, and its count stays within the lines there can be.
THEOREM TypesOK == Spec => []TypeOK
BY Invariance, Typed, PTL

\* The places of an instruction, one by one.
LEMMA PlacesApart == Inv => InOnePlace
<1> SUFFICES ASSUME Inv, Working, NEW insn \in assembly_instructions
             PROVE  /\ \A p, q \in Places(insn) : p = q
                    /\ Places(insn) = {} => kind[insn] \in {"rejected", "crashes"}
  BY DEF InOnePlace, Working
<1>1. Apart /\ NoneLost
  BY DEF Inv, PoolInv
<1>2. /\ \A w \in Workers : answers[w] \in Seq(Answers)
      /\ file \in Seq(assembly_instructions)
  BY DEF Inv, Shape, FileInv
<1>3. /\ \A w \in Workers : DOMAIN answers[w] = 1..Len(answers[w])
      /\ DOMAIN file = 1..Len(file)
  BY <1>2
<1>4. ASSUME NEW p \in Places(insn)
      PROVE  \/ p = <<"buffer">> /\ insn \in buffer
             \/ p = <<"pipe">> /\ insn \in pipe
             \/ \E w \in Workers : p = <<"worker", w>> /\ insn \in hand[w]
             \/ \E w \in Workers : \E i \in 1..Len(answers[w]) :
                   p = <<"answers", w, i>> /\ answers[w][i].insn = insn
             \/ \E i \in 1..Len(file) : p = <<"file", i>> /\ file[i] = insn
  BY <1>3 DEF Places
<1>5. ASSUME NEW p \in Places(insn), NEW q \in Places(insn)
      PROVE  p = q
  BY <1>1, <1>4 DEF Apart
<1>6. ASSUME Places(insn) = {}
      PROVE  kind[insn] \in {"rejected", "crashes"}
  <2>1. insn \notin buffer /\ insn \notin pipe
    BY <1>6 DEF Places
  <2>2. ASSUME NEW w \in Workers
        PROVE  insn \notin hand[w] /\ \A i \in 1..Len(answers[w]) : answers[w][i].insn # insn
    <3>1. insn \in hand[w] => <<"worker", w>> \in Places(insn)
      BY DEF Places
    <3>2. \A i \in 1..Len(answers[w]) :
             answers[w][i].insn = insn => <<"answers", w, i>> \in Places(insn)
      BY <1>3 DEF Places
    <3> QED
      BY <1>6, <3>1, <3>2
  <2>3. \A i \in 1..Len(file) : file[i] # insn
    <3>1. \A i \in 1..Len(file) : file[i] = insn => <<"file", i>> \in Places(insn)
      BY <1>3 DEF Places
    <3> QED
      BY <1>6, <3>1
  <2>4. insn \in Gone
    BY <2>1, <2>2 DEF Gone
  <2> QED
    BY <1>1, <2>3, <2>4 DEF NoneLost
<1> QED
  BY <1>5, <1>6

\* However the workers are scheduled, the queue and the pool hand each instruction to
\* one of them, and only those leave without a line that pwntools rejects or that kill
\* their worker.
THEOREM EachInOnePlace == Spec => []InOnePlace
BY Invariance, PlacesApart, PTL

\* The file that main prints the count of has every instruction that assembles, each
\* once, and the pseudo instructions, and the count is that of its lines.
THEOREM FileIsComplete == Spec => []FileMatches
<1>1. Inv => FileMatches
  BY DEF Inv
<1> QED
  BY <1>1, Invariance, PTL
=============================================================================
