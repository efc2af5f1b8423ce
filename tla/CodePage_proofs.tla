-------------------------- MODULE CodePage_proofs --------------------------
(***************************************************************************)
(* Proofs about CodePage, for every page size that is a number of words,   *)
(* all lengths and every reset_executions_amount.                          *)
(***************************************************************************)
EXTENDS CodePage, SequenceTheorems, TLAPS

LEMMA InsnAligned ==
    ASSUME NEW op \in Ops, NEW arg \in SUBSET Regs
    PROVE  Insn(op, arg) \in Aligned
  BY DEF Insn, Aligned, Insns

\* A sequence whose length is a number of words keeps the code aligned.
LEMMA SequenceAligned ==
    ASSUME NEW pg \in Shapes, NEW role \in Roles
    PROVE  Sequence(pg, role) \in Aligned
<1>1. PageShape(pg)
  BY ShapesAssumption
<1> QED
  BY <1>1 DEF PageShape, Sequence, Aligned, Insns, Ops

LEMMA MeasurementAligned ==
    ASSUME NEW pg \in Shapes
    PROVE  Measurement(pg) \in Aligned
<1>1. PageShape(pg)
  BY ShapesAssumption
<1> QED
  BY <1>1 DEF PageShape, Measurement, Aligned, Insns, Ops, Roles

LEMMA RepeatType ==
    ASSUME NEW S, NEW insn \in S, NEW n \in Nat
    PROVE  Repeat(insn, n) \in Seq(S)
  BY DEF Repeat

\* The fixed parts of every page.
LEMMA PartsAligned ==
    /\ AddProlog \in Seq(Aligned)
    /\ AddEpilog \in Seq(Aligned)
    /\ AddSerialize \in Seq(Aligned)
    /\ AddTimerStart \in Seq(Aligned)
    /\ AddTimerEnd \in Seq(Aligned)
    /\ MakeTimerResult \in Seq(Aligned)
<1>1. Bar \in Aligned /\ Ret \in Aligned
  BY InsnAligned DEF Bar, Ret, Ops
<1>2. \A p \in Pairs \cup {{v} : v \in Vector} : Push(p) \in Aligned /\ Pop(p) \in Aligned
  BY InsnAligned DEF Push, Pop, Pairs, Vector, Regs, CalleeSaved, Ops
<1>3. AddSerialize \in Seq(Aligned)
  BY <1>1 DEF AddSerialize
<1>4. \A op \in Ops, r \in Regs : Insn(op, {r}) \in Aligned
  BY InsnAligned
<1>5. {"x0", "x15", "x24", "x25", "x26", "x27", "x29"} \subseteq Regs
  BY DEF Regs, CalleeSaved, Pairs
<1>6. AddTimerStart \in Seq(Aligned)
  BY <1>1, <1>4, <1>5 DEF AddTimerStart, Ops
<1>7. AddTimerEnd \in Seq(Aligned)
  BY <1>1, <1>4, <1>5 DEF AddTimerEnd, Ops
<1>8. MakeTimerResult \in Seq(Aligned)
  BY <1>4, <1>5 DEF MakeTimerResult, Ops
<1>9. \A v \in Vector : Push({v}) \in Aligned /\ Pop({v}) \in Aligned
  BY <1>2
<1>10. \A p \in Pairs : Push(p) \in Aligned /\ Pop(p) \in Aligned
  BY <1>2
<1>11. AddProlog \in Seq(Aligned)
  <2>1. Insn("stackspace", {}) \in Aligned
    BY InsnAligned DEF Ops
  <2>2. /\ Insn("frame", {"x29"}) \in Aligned /\ Insn("base", {"x25"}) \in Aligned
        /\ Insn("base", {"x24"}) \in Aligned /\ Insn("base", {"x26"}) \in Aligned
        /\ Insn("base", {"x27"}) \in Aligned
    BY <1>4, <1>5 DEF Ops
  <2>3. /\ Push({"q15"}) \in Aligned /\ Push({"q14"}) \in Aligned
        /\ Push({"q13"}) \in Aligned /\ Push({"q12"}) \in Aligned
        /\ Push({"q11"}) \in Aligned /\ Push({"q10"}) \in Aligned
        /\ Push({"q9"}) \in Aligned /\ Push({"q8"}) \in Aligned
    BY <1>9 DEF Vector
  <2>4. /\ Push({"x27", "x28"}) \in Aligned /\ Push({"x25", "x26"}) \in Aligned
        /\ Push({"x23", "x24"}) \in Aligned /\ Push({"x21", "x22"}) \in Aligned
        /\ Push({"x19", "x20"}) \in Aligned /\ Push({"x29", "x30"}) \in Aligned
    BY <1>10 DEF Pairs
  <2> QED
    BY <2>1, <2>2, <2>3, <2>4 DEF AddProlog
<1>12. AddEpilog \in Seq(Aligned)
  <2>1. Insn("leave", {"x29"}) \in Aligned
    BY <1>4, <1>5 DEF Ops
  <2>4. /\ Pop({"q15"}) \in Aligned /\ Pop({"q14"}) \in Aligned
        /\ Pop({"q13"}) \in Aligned /\ Pop({"q12"}) \in Aligned
        /\ Pop({"q11"}) \in Aligned /\ Pop({"q10"}) \in Aligned
        /\ Pop({"q9"}) \in Aligned /\ Pop({"q8"}) \in Aligned
    BY <1>9 DEF Vector
  <2>5. /\ Pop({"x27", "x28"}) \in Aligned /\ Pop({"x25", "x26"}) \in Aligned
        /\ Pop({"x23", "x24"}) \in Aligned /\ Pop({"x21", "x22"}) \in Aligned
        /\ Pop({"x19", "x20"}) \in Aligned /\ Pop({"x29", "x30"}) \in Aligned
    BY <1>10 DEF Pairs
  <2> QED
    BY <1>1, <2>1, <2>4, <2>5 DEF AddEpilog
<1> QED
  BY <1>3, <1>6, <1>7, <1>8, <1>11, <1>12

\* Every instruction of an architectural page is a number of words long.
LEMMA ProgramAligned ==
    ASSUME NEW pg \in Shapes, pg.builder # "speculative"
    PROVE  Program(pg) \in Seq(Aligned)
<1>1. PageShape(pg)
  BY ShapesAssumption
<1>2. Repeat(Sequence(pg, "reset"), pg.amount) \in Seq(Aligned)
  <2>1. pg.amount \in Nat
    BY <1>1 DEF PageShape
  <2>2. Sequence(pg, "reset") \in Aligned
    BY SequenceAligned DEF Roles
  <2> QED
    BY <2>1, <2>2, RepeatType
<1>3. <<Sequence(pg, "trigger")>> \in Seq(Aligned)
  BY SequenceAligned DEF Roles
<1>4. Timed(pg) \in Seq(Aligned)
  BY PartsAligned, MeasurementAligned DEF Timed
<1> QED
  BY <1>1, <1>2, <1>3, <1>4, PartsAligned DEF Program, PageShape

\* The page of CreateSpeculativeTriggerTestrunCode has instructions of any length.
LEMMA ProgramType ==
    ASSUME NEW pg \in Shapes
    PROVE  Program(pg) \in Seq(Insns)
<1>1. PageShape(pg)
  BY ShapesAssumption
<1>2. \A s \in Seq(Aligned) : s \in Seq(Insns)
  BY DEF Aligned
<1>3. Repeat(Sequence(pg, "reset"), pg.amount) \in Seq(Insns)
  <2>1. Sequence(pg, "reset") \in Insns
    BY SequenceAligned DEF Roles, Aligned
  <2>2. pg.amount \in Nat
    BY <1>1 DEF PageShape
  <2> QED
    BY <2>1, <2>2, RepeatType
<1>4. Timed(pg) \in Seq(Aligned)
  BY PartsAligned, MeasurementAligned DEF Timed
<1>5. \A n \in Nat : X86(n) \in Insns
  BY DEF X86, Insns, Ops
<1>6. <<X86(1), X86(4), Sequence(pg, "trigger"), X86(1), X86(4),
        X86(3), X86(4), X86(4), X86(1)>> \in Seq(Insns)
  <2>1. Sequence(pg, "trigger") \in Insns
    BY SequenceAligned DEF Roles, Aligned
  <2> QED
    BY <1>5, <2>1
<1>7. CASE pg.builder = "speculative"
  BY <1>2, <1>3, <1>4, <1>6, <1>7, PartsAligned DEF Program
<1>8. CASE pg.builder # "speculative"
  BY <1>2, <1>8, ProgramAligned
<1> QED
  BY <1>7, <1>8

LEMMA InitIndex == Init => IndexInv
  BY ProgramAligned, ProgramType, PageSizeAssumption DEF Init, IndexInv

\* Only AddInstruction moves the index.
LEMMA NextIndex == IndexInv /\ [Next]_vars => IndexInv'
<1> SUFFICES ASSUME IndexInv, [Next]_vars PROVE IndexInv'
  OBVIOUS
<1>1. CASE AddInstruction
  <2>1. Head(todo) \in Insns /\ Tail(todo) \in Seq(Insns)
    BY <1>1 DEF AddInstruction, IndexInv
  <2>2. page.builder # "speculative" =>
          /\ Head(todo) \in Aligned
          /\ Tail(todo) \in Seq(Aligned)
    BY <1>1 DEF AddInstruction, IndexInv
  <2>3. CASE idx + Head(todo).bytes >= PageSize
    BY <1>1, <2>3 DEF AddInstruction, IndexInv
  <2>4. CASE idx + Head(todo).bytes < PageSize
    <3>1. Head(todo).bytes \in Nat
      BY <2>1 DEF Insns
    <3>2. idx' = idx + Head(todo).bytes /\ todo' = Tail(todo) /\ page' = page
      BY <1>1, <2>4, <3>1, PageSizeAssumption DEF AddInstruction, IndexInv
    <3>3. idx' \in 0..(PageSize - 1)
      BY <2>4, <3>1, <3>2, PageSizeAssumption DEF IndexInv
    <3>4. page.builder # "speculative" => idx' % 4 = 0
      <4>1. ASSUME page.builder # "speculative"
            PROVE  idx % 4 = 0 /\ Head(todo).bytes % 4 = 0
        BY <2>2, <4>1 DEF IndexInv, Aligned
      <4>2. idx \in Nat
        BY PageSizeAssumption DEF IndexInv
      <4>3. \A a, b \in Nat : a % 4 = 0 /\ b % 4 = 0 => (a + b) % 4 = 0
        OBVIOUS
      <4> QED
        BY <3>1, <3>2, <4>1, <4>2, <4>3
    <3> QED
      BY <2>1, <2>2, <3>2, <3>3, <3>4 DEF IndexInv
  <2>5. idx \in Nat /\ PageSize \in Nat /\ Head(todo).bytes \in Nat
    BY <2>1, PageSizeAssumption DEF IndexInv, Insns
  <2> QED
    BY <2>3, <2>4, <2>5
<1>2. CASE UNCHANGED <<page, todo, idx>>
  BY <1>2 DEF IndexInv
<1> QED
  BY <1>1, <1>2
  DEF Next, Ready, Barrier, Save, Frame, StackSpace, Base, Untimed, Measured,
      Pmcr, Start, Stop, Keep, Sub, Result, Leave, LoseStack, Restore, Return,
      Undefined, Done, Does, vars

\* The RET in the last word of an architectural page is never overwritten.
THEOREM GuardRetSurvives == Spec => []GuardRetIntact
<1>1. IndexInv => GuardRetIntact
  BY PageSizeAssumption DEF IndexInv, GuardRetIntact
<1> QED
  BY InitIndex, NextIndex, <1>1, PTL DEF Spec

-----------------------------------------------------------------------------
(* What a page is made of *)

\* The instructions of a page between its prolog and its timed part.
Middle(pg) ==
    LET trigger == Sequence(pg, "trigger")
        resets  == Repeat(Sequence(pg, "reset"), pg.amount)
    IN  CASE pg.builder = "testrun" ->
               AddSerialize \o resets \o AddSerialize \o <<trigger>> \o AddSerialize
          [] pg.builder = "reset" ->
               <<trigger>> \o AddSerialize \o resets \o AddSerialize
          [] OTHER ->
               AddSerialize \o resets \o AddSerialize
                 \o <<X86(1), X86(4), trigger, X86(1), X86(4),
                      X86(3), X86(4), X86(4), X86(1)>>

Resets(pg) == {insn \in {Sequence(pg, "reset")} : pg.amount > 0}

\* Whatever is there is of these.
MiddleInsns(pg) ==
    {Bar, Sequence(pg, "trigger")} \cup Resets(pg) \cup {X86(n) : n \in {1, 3, 4}}

Has(s, insn) == \E i \in 1..Len(s) : s[i] = insn

LEMMA HasConcatenated ==
    ASSUME NEW S, NEW s \in Seq(S), NEW t \in Seq(S), NEW e
    PROVE  Has(s \o t, e) <=> Has(s, e) \/ Has(t, e)
<1>1. /\ Len(s) \in Nat /\ Len(t) \in Nat /\ Len(s \o t) = Len(s) + Len(t)
      /\ \A i \in 1..(Len(s) + Len(t)) :
            (s \o t)[i] = IF i <= Len(s) THEN s[i] ELSE t[i - Len(s)]
  BY ConcatProperties
<1>2. ASSUME Has(s \o t, e) PROVE Has(s, e) \/ Has(t, e)
  <2>1. PICK i \in 1..(Len(s) + Len(t)) : (s \o t)[i] = e
    BY <1>1, <1>2 DEF Has
  <2>2. i \in 1..Len(s) \/ i - Len(s) \in 1..Len(t)
    BY <1>1
  <2> QED
    BY <1>1, <2>1, <2>2 DEF Has
<1>3. ASSUME Has(s, e) PROVE Has(s \o t, e)
  <2>1. PICK i \in 1..Len(s) : s[i] = e
    BY <1>3 DEF Has
  <2>2. i \in 1..(Len(s) + Len(t)) /\ i <= Len(s)
    BY <1>1
  <2> QED
    BY <1>1, <2>1, <2>2 DEF Has
<1>4. ASSUME Has(t, e) PROVE Has(s \o t, e)
  <2>1. PICK i \in 1..Len(t) : t[i] = e
    BY <1>4 DEF Has
  <2>2. /\ i + Len(s) \in 1..(Len(s) + Len(t)) /\ ~(i + Len(s) <= Len(s))
        /\ (i + Len(s)) - Len(s) = i
    BY <1>1
  <2> QED
    BY <1>1, <2>1, <2>2 DEF Has
<1> QED
  BY <1>2, <1>3, <1>4

LEMMA PartsType ==
    ASSUME NEW pg \in Shapes
    PROVE  LET I == MiddleInsns(pg)
               resets == Repeat(Sequence(pg, "reset"), pg.amount)
           IN  /\ AddSerialize \in Seq(I)
               /\ resets \in Seq(I)
               /\ pg.amount > 0 => Has(resets, Sequence(pg, "reset"))
               /\ <<Sequence(pg, "trigger")>> \in Seq(I)
               /\ <<X86(1), X86(4), Sequence(pg, "trigger"), X86(1), X86(4),
                    X86(3), X86(4), X86(4), X86(1)>> \in Seq(I)
<1> DEFINE I == MiddleInsns(pg)
           reset == Sequence(pg, "reset")
<1>1. pg.amount \in Nat
  BY ShapesAssumption DEF PageShape
<1>2. /\ Bar \in I /\ Sequence(pg, "trigger") \in I
      /\ X86(1) \in I /\ X86(3) \in I /\ X86(4) \in I
      /\ pg.amount > 0 => reset \in I
  BY DEF MiddleInsns, Resets
<1> HIDE DEF I, reset
<1>3. Repeat(reset, pg.amount) \in Seq(I)
  <2>1. CASE pg.amount = 0
    BY <2>1 DEF Repeat
  <2>2. CASE pg.amount > 0
    BY <1>1, <1>2, <2>2 DEF Repeat
  <2> QED
    BY <1>1, <2>1, <2>2
<1>4. pg.amount > 0 => Has(Repeat(reset, pg.amount), reset)
  <2> SUFFICES ASSUME pg.amount > 0 PROVE Has(Repeat(reset, pg.amount), reset)
    OBVIOUS
  <2>1. Len(Repeat(reset, pg.amount)) = pg.amount
    BY <1>1 DEF Repeat
  <2>2. 1 \in 1..pg.amount
    BY <1>1
  <2> QED
    BY <2>1, <2>2 DEF Has, Repeat
<1>5. AddSerialize \in Seq(I)
  BY <1>2 DEF AddSerialize
<1>6. <<Sequence(pg, "trigger")>> \in Seq(I)
  BY <1>2
<1>7. <<X86(1), X86(4), Sequence(pg, "trigger"), X86(1), X86(4),
        X86(3), X86(4), X86(4), X86(1)>> \in Seq(I)
  BY <1>2
<1> QED
  BY <1>3, <1>4, <1>5, <1>6, <1>7 DEF I, reset

\* Each sequence that should run is there, and x86 code in the transient page.
LEMMA MiddleHas ==
    ASSUME NEW pg \in Shapes
    PROVE  /\ Middle(pg) \in Seq(MiddleInsns(pg))
           /\ Has(Middle(pg), Sequence(pg, "trigger"))
           /\ pg.amount > 0 => Has(Middle(pg), Sequence(pg, "reset"))
           /\ pg.builder = "speculative" => Has(Middle(pg), X86(1))
<1> DEFINE I       == MiddleInsns(pg)
           trigger == Sequence(pg, "trigger")
           reset   == Sequence(pg, "reset")
           resets  == Repeat(Sequence(pg, "reset"), pg.amount)
           one     == <<trigger>>
           x86     == <<X86(1), X86(4), trigger, X86(1), X86(4),
                        X86(3), X86(4), X86(4), X86(1)>>
           ser     == AddSerialize
           a == ser \o resets
           b == a \o ser
           c == b \o one
           d == c \o ser
           e == one \o ser
           f == e \o resets
           g == f \o ser
           h == b \o x86
<1>1. /\ ser \in Seq(I) /\ resets \in Seq(I) /\ one \in Seq(I) /\ x86 \in Seq(I)
      /\ pg.amount > 0 => Has(resets, reset)
  BY PartsType
<1>2. Has(one, trigger) /\ Has(x86, trigger) /\ Has(x86, X86(1))
  <2>1. Len(one) = 1 /\ one[1] = trigger
    OBVIOUS
  <2>2. Len(x86) = 9 /\ x86[3] = trigger /\ x86[1] = X86(1)
    OBVIOUS
  <2>3. 1 \in 1..1 /\ 3 \in 1..9 /\ 1 \in 1..9
    OBVIOUS
  <2> HIDE DEF one, x86, trigger
  <2> QED
    BY <2>1, <2>2, <2>3 DEF Has
<1>3. Middle(pg) = CASE pg.builder = "testrun" -> d
                     [] pg.builder = "reset" -> g
                     [] OTHER -> h
  BY DEF Middle
<1> HIDE DEF I, trigger, reset, resets, one, x86, ser
<1>4. /\ a \in Seq(I) /\ b \in Seq(I) /\ c \in Seq(I) /\ d \in Seq(I)
      /\ e \in Seq(I) /\ f \in Seq(I) /\ g \in Seq(I) /\ h \in Seq(I)
  BY <1>1, ConcatProperties
<1>5. /\ pg.amount > 0 => Has(d, reset) /\ Has(g, reset) /\ Has(h, reset)
      /\ Has(d, trigger) /\ Has(g, trigger) /\ Has(h, trigger) /\ Has(h, X86(1))
  <2> DEFINE Q == Seq(I)
  <2>a. \A u, v \in Q : \A x : Has(u \o v, x) <=> Has(u, x) \/ Has(v, x)
    BY HasConcatenated
  <2>b. /\ ser \in Q /\ resets \in Q /\ one \in Q /\ x86 \in Q
        /\ a \in Q /\ b \in Q /\ c \in Q /\ e \in Q /\ f \in Q
    BY <1>1, <1>4
  <2> HIDE DEF Q
  <2>1. \A x : /\ Has(a, x) <=> Has(ser, x) \/ Has(resets, x)
               /\ Has(b, x) <=> Has(a, x) \/ Has(ser, x)
               /\ Has(c, x) <=> Has(b, x) \/ Has(one, x)
               /\ Has(d, x) <=> Has(c, x) \/ Has(ser, x)
    BY <2>a, <2>b, Zenon
  <2>2. \A x : /\ Has(e, x) <=> Has(one, x) \/ Has(ser, x)
               /\ Has(f, x) <=> Has(e, x) \/ Has(resets, x)
               /\ Has(g, x) <=> Has(f, x) \/ Has(ser, x)
               /\ Has(h, x) <=> Has(b, x) \/ Has(x86, x)
    BY <2>a, <2>b, Zenon
  <2> HIDE DEF a, b, c, d, e, f, g, h
  <2> QED
    BY <1>1, <1>2, <2>1, <2>2
<1>6. pg.builder \in {"testrun", "reset", "speculative"}
  BY ShapesAssumption DEF PageShape
<1> HIDE DEF a, b, c, d, e, f, g, h
<1> QED
  BY <1>3, <1>4, <1>5, <1>6 DEF I, trigger, reset

LEMMA MiddleInsnsType ==
    ASSUME NEW pg \in Shapes
    PROVE  MiddleInsns(pg) \subseteq Insns
<1>1. /\ Bar \in Insns /\ Sequence(pg, "trigger") \in Insns
      /\ Sequence(pg, "reset") \in Insns
  BY InsnAligned, SequenceAligned DEF Bar, Ops, Aligned, Roles
<1>2. \A n \in {1, 3, 4} : X86(n) \in Insns
  BY DEF X86, Insns, Ops
<1> QED
  BY <1>1, <1>2 DEF MiddleInsns, Resets

LEMMA MiddleType ==
    ASSUME NEW pg \in Shapes
    PROVE  Middle(pg) \in Seq(Insns)
  BY MiddleInsnsType, MiddleHas, SeqMonotonic

LEMMA TimedType ==
    ASSUME NEW pg \in Shapes
    PROVE  Timed(pg) \in Seq(Insns) /\ AddProlog \in Seq(Insns)
<1>1. Timed(pg) \in Seq(Aligned)
  BY PartsAligned, MeasurementAligned DEF Timed
<1>2. Aligned \subseteq Insns
  BY DEF Aligned
<1> QED
  BY <1>1, <1>2, PartsAligned, SeqMonotonic

LEMMA Associated ==
    ASSUME NEW a \in Seq(Insns), NEW b \in Seq(Insns), NEW c \in Seq(Insns)
    PROVE  /\ a \o b \in Seq(Insns)
           /\ (a \o b) \o c = a \o (b \o c)
  BY ConcatProperties, ConcatAssociative

LEMMA AssociatedRight ==
    ASSUME NEW p \in Seq(Insns), NEW c \in Seq(Insns)
    PROVE  \A x \in Seq(Insns) : x \o c \in Seq(Insns) /\ (p \o x) \o c = p \o (x \o c)
  BY Associated

\* What is between the prolog and the timed part can be bracketed, whether it
\* has four parts or five.
Brackets(p, a, b, c, d, e, t) ==
    /\ p \o a \o b \o c \o d \o t = p \o ((a \o b \o c \o d) \o t)
    /\ p \o a \o b \o c \o d \o e \o t = p \o ((a \o b \o c \o d \o e) \o t)

LEMMA Bracketed ==
    ASSUME NEW p \in Seq(Insns), NEW a \in Seq(Insns), NEW b \in Seq(Insns),
           NEW c \in Seq(Insns), NEW d \in Seq(Insns), NEW e \in Seq(Insns),
           NEW t \in Seq(Insns)
    PROVE  Brackets(p, a, b, c, d, e, t)
<1> DEFINE Right(y) == \A x \in Seq(Insns) :
                          x \o y \in Seq(Insns) /\ (p \o x) \o y = p \o (x \o y)
<1>1. \A y \in Seq(Insns) : Right(y)
  BY AssociatedRight
<1>2. Right(b) /\ Right(c) /\ Right(d) /\ Right(e) /\ Right(t)
  <2> HIDE DEF Right
  <2> QED
    BY <1>1
<1>3. a \o b \in Seq(Insns) /\ p \o a \o b = p \o (a \o b)
  BY <1>2, Zenon
<1>4. a \o b \o c \in Seq(Insns) /\ p \o a \o b \o c = p \o (a \o b \o c)
  BY <1>2, <1>3, Zenon
<1>5. a \o b \o c \o d \in Seq(Insns) /\ p \o a \o b \o c \o d = p \o (a \o b \o c \o d)
  BY <1>2, <1>4, Zenon
<1>6. /\ a \o b \o c \o d \o e \in Seq(Insns)
      /\ p \o a \o b \o c \o d \o e = p \o (a \o b \o c \o d \o e)
  BY <1>2, <1>5, Zenon
<1> QED
  BY <1>2, <1>5, <1>6, Zenon DEF Brackets

LEMMA ProgramParts ==
    ASSUME NEW pg \in Shapes
    PROVE  Program(pg) = AddProlog \o (Middle(pg) \o Timed(pg))
<1> DEFINE resets  == Repeat(Sequence(pg, "reset"), pg.amount)
           one     == <<Sequence(pg, "trigger")>>
           x86     == <<X86(1), X86(4), Sequence(pg, "trigger"), X86(1), X86(4),
                        X86(3), X86(4), X86(4), X86(1)>>
<1>1. /\ AddSerialize \in Seq(Insns) /\ resets \in Seq(Insns) /\ one \in Seq(Insns)
      /\ x86 \in Seq(Insns) /\ AddProlog \in Seq(Insns) /\ Timed(pg) \in Seq(Insns)
  BY MiddleInsnsType, PartsType, TimedType, SeqMonotonic
<1> HIDE DEF resets, one, x86
<1>2. pg.builder \in {"testrun", "reset", "speculative"}
  BY ShapesAssumption DEF PageShape
<1>3. CASE pg.builder = "testrun"
  <2>1. /\ Program(pg) = AddProlog \o AddSerialize \o resets \o AddSerialize
                           \o one \o AddSerialize \o Timed(pg)
        /\ Middle(pg) = AddSerialize \o resets \o AddSerialize \o one \o AddSerialize
    BY <1>3 DEF Program, Middle, resets, one, x86
  <2>2. Brackets(AddProlog, AddSerialize, resets, AddSerialize, one, AddSerialize, Timed(pg))
    BY <1>1, Bracketed
  <2> QED
    BY <2>1, <2>2 DEF Brackets
<1>4. CASE pg.builder = "reset"
  <2>1. /\ Program(pg) = AddProlog \o one \o AddSerialize \o resets \o AddSerialize
                           \o Timed(pg)
        /\ Middle(pg) = one \o AddSerialize \o resets \o AddSerialize
    BY <1>4 DEF Program, Middle, resets, one, x86
  <2>2. Brackets(AddProlog, one, AddSerialize, resets, AddSerialize, one, Timed(pg))
    BY <1>1, Bracketed
  <2> QED
    BY <2>1, <2>2 DEF Brackets
<1>5. CASE pg.builder = "speculative"
  <2>1. /\ Program(pg) = AddProlog \o AddSerialize \o resets \o AddSerialize
                           \o x86 \o Timed(pg)
        /\ Middle(pg) = AddSerialize \o resets \o AddSerialize \o x86
    BY <1>5 DEF Program, Middle, resets, one, x86
  <2>2. Brackets(AddProlog, AddSerialize, resets, AddSerialize, x86, x86, Timed(pg))
    BY <1>1, Bracketed
  <2> QED
    BY <2>1, <2>2 DEF Brackets
<1> QED
  BY <1>2, <1>3, <1>4, <1>5

\* The registers that AddProlog saves, in the order it saves them.
Saves ==
    <<{"x29", "x30"}, {"x19", "x20"}, {"x21", "x22"}, {"x23", "x24"}, {"x25", "x26"},
      {"x27", "x28"}, {"q8"}, {"q9"}, {"q10"}, {"q11"}, {"q12"}, {"q13"}, {"q14"}, {"q15"}>>

LEMMA SavesType ==
    /\ \A i \in 1..14 : Saves[i] \subseteq CalleeSaved
    /\ \A r \in CalleeSaved : \E i \in 1..14 : r \in Saves[i]
    /\ CalleeSaved \subseteq Regs
<1>1. /\ Saves[1] = {"x29", "x30"} /\ Saves[2] = {"x19", "x20"} /\ Saves[3] = {"x21", "x22"}
      /\ Saves[4] = {"x23", "x24"} /\ Saves[5] = {"x25", "x26"} /\ Saves[6] = {"x27", "x28"}
      /\ Saves[7] = {"q8"} /\ Saves[8] = {"q9"} /\ Saves[9] = {"q10"} /\ Saves[10] = {"q11"}
      /\ Saves[11] = {"q12"} /\ Saves[12] = {"q13"} /\ Saves[13] = {"q14"}
      /\ Saves[14] = {"q15"}
  BY DEF Saves
<1>2. \A i \in 1..14 : i = 1 \/ i = 2 \/ i = 3 \/ i = 4 \/ i = 5 \/ i = 6 \/ i = 7 \/ i = 8
                    \/ i = 9 \/ i = 10 \/ i = 11 \/ i = 12 \/ i = 13 \/ i = 14
  OBVIOUS
<1>3. /\ 1 \in 1..14 /\ 2 \in 1..14 /\ 3 \in 1..14 /\ 4 \in 1..14 /\ 5 \in 1..14
      /\ 6 \in 1..14 /\ 7 \in 1..14 /\ 8 \in 1..14 /\ 9 \in 1..14 /\ 10 \in 1..14
      /\ 11 \in 1..14 /\ 12 \in 1..14 /\ 13 \in 1..14 /\ 14 \in 1..14
  OBVIOUS
<1>4. ASSUME NEW i \in 1..14 PROVE Saves[i] \subseteq CalleeSaved
  BY <1>1, <1>2 DEF CalleeSaved, Vector
<1>5. ASSUME NEW r \in CalleeSaved PROVE \E i \in 1..14 : r \in Saves[i]
  BY <1>1, <1>3 DEF CalleeSaved, Vector
<1> QED
  BY <1>4, <1>5 DEF Regs

\* What AddProlog puts where.
LEMMA PrologAt ==
    ASSUME NEW i \in 1..20
    PROVE  /\ Len(AddProlog) = 20
           /\ i \in 1..14 => AddProlog[i] = Push(Saves[i])
           /\ i = 15 => AddProlog[i] = Insn("frame", {"x29"})
           /\ i = 16 => AddProlog[i] = Insn("stackspace", {})
           /\ i \in 17..20 => \E r \in {"x24", "x25", "x26", "x27"} :
                                 AddProlog[i] = Insn("base", {r})
<1>1. /\ AddProlog[1] = Push(Saves[1]) /\ AddProlog[2] = Push(Saves[2])
      /\ AddProlog[3] = Push(Saves[3]) /\ AddProlog[4] = Push(Saves[4])
      /\ AddProlog[5] = Push(Saves[5]) /\ AddProlog[6] = Push(Saves[6])
      /\ AddProlog[7] = Push(Saves[7]) /\ AddProlog[8] = Push(Saves[8])
      /\ AddProlog[9] = Push(Saves[9]) /\ AddProlog[10] = Push(Saves[10])
      /\ AddProlog[11] = Push(Saves[11]) /\ AddProlog[12] = Push(Saves[12])
      /\ AddProlog[13] = Push(Saves[13]) /\ AddProlog[14] = Push(Saves[14])
  BY DEF AddProlog, Saves
<1>2. /\ Len(AddProlog) = 20
      /\ AddProlog[15] = Insn("frame", {"x29"}) /\ AddProlog[16] = Insn("stackspace", {})
      /\ AddProlog[17] = Insn("base", {"x25"}) /\ AddProlog[18] = Insn("base", {"x24"})
      /\ AddProlog[19] = Insn("base", {"x26"}) /\ AddProlog[20] = Insn("base", {"x27"})
  BY DEF AddProlog
<1>3. /\ i \in 1..14 => \/ i = 1 \/ i = 2 \/ i = 3 \/ i = 4 \/ i = 5 \/ i = 6 \/ i = 7
                        \/ i = 8 \/ i = 9 \/ i = 10 \/ i = 11 \/ i = 12 \/ i = 13 \/ i = 14
      /\ i \in 17..20 => i = 17 \/ i = 18 \/ i = 19 \/ i = 20
  OBVIOUS
<1>4. i \in 1..14 => AddProlog[i] = Push(Saves[i])
  BY <1>1, <1>3
<1>5. i \in 17..20 => \E r \in {"x24", "x25", "x26", "x27"} : AddProlog[i] = Insn("base", {r})
  BY <1>2, <1>3
<1> QED
  BY <1>2, <1>4, <1>5

\* What AddEpilog puts where.
LEMMA EpilogAt ==
    ASSUME NEW i \in 1..20
    PROVE  /\ Len(AddEpilog) = 20
           /\ i \in 1..4 => AddEpilog[i] = Bar
           /\ i = 5 => AddEpilog[i] = Insn("leave", {"x29"})
           /\ i \in 6..19 => AddEpilog[i] = Pop(Saves[20 - i])
           /\ i = 20 => AddEpilog[i] = Ret
<1>1. /\ AddEpilog[6] = Pop(Saves[14]) /\ AddEpilog[7] = Pop(Saves[13])
      /\ AddEpilog[8] = Pop(Saves[12]) /\ AddEpilog[9] = Pop(Saves[11])
      /\ AddEpilog[10] = Pop(Saves[10]) /\ AddEpilog[11] = Pop(Saves[9])
      /\ AddEpilog[12] = Pop(Saves[8]) /\ AddEpilog[13] = Pop(Saves[7])
      /\ AddEpilog[14] = Pop(Saves[6]) /\ AddEpilog[15] = Pop(Saves[5])
      /\ AddEpilog[16] = Pop(Saves[4]) /\ AddEpilog[17] = Pop(Saves[3])
      /\ AddEpilog[18] = Pop(Saves[2]) /\ AddEpilog[19] = Pop(Saves[1])
  BY DEF AddEpilog, Saves
<1>2. /\ Len(AddEpilog) = 20
      /\ AddEpilog[1] = Bar /\ AddEpilog[2] = Bar /\ AddEpilog[3] = Bar /\ AddEpilog[4] = Bar
      /\ AddEpilog[5] = Insn("leave", {"x29"}) /\ AddEpilog[20] = Ret
  BY DEF AddEpilog
<1>3. /\ i \in 6..19 => \/ i = 6 \/ i = 7 \/ i = 8 \/ i = 9 \/ i = 10 \/ i = 11 \/ i = 12
                        \/ i = 13 \/ i = 14 \/ i = 15 \/ i = 16 \/ i = 17 \/ i = 18 \/ i = 19
      /\ i \in 1..4 => i = 1 \/ i = 2 \/ i = 3 \/ i = 4
  OBVIOUS
<1>4. /\ 20 - 6 = 14 /\ 20 - 7 = 13 /\ 20 - 8 = 12 /\ 20 - 9 = 11 /\ 20 - 10 = 10
      /\ 20 - 11 = 9 /\ 20 - 12 = 8 /\ 20 - 13 = 7 /\ 20 - 14 = 6 /\ 20 - 15 = 5
      /\ 20 - 16 = 4 /\ 20 - 17 = 3 /\ 20 - 18 = 2 /\ 20 - 19 = 1
  OBVIOUS
<1>5. i \in 6..19 => AddEpilog[i] = Pop(Saves[20 - i])
  BY <1>1, <1>3, <1>4
<1>6. i \in 1..4 => AddEpilog[i] = Bar
  BY <1>2, <1>3
<1> QED
  BY <1>2, <1>5, <1>6

\* What AddTimerStart, AddTimerEnd and MakeTimerResult put where.
LEMMA TimerAt ==
    /\ Len(AddTimerStart) = 9 /\ Len(AddTimerEnd) = 8 /\ Len(MakeTimerResult) = 1
    /\ AddTimerStart[2] = Insn("readpmcr", {"x27"})
    /\ AddTimerStart[3] = Insn("orr", {"x27"})
    /\ AddTimerStart[4] = Insn("writepmcr", {"x27"})
    /\ AddTimerStart[5] = Insn("start", {"x27"})
    /\ AddTimerStart[6] = Insn("keep", {"x26"})
    /\ \A i \in {1, 7, 8, 9} : AddTimerStart[i] = Bar
    /\ AddTimerEnd[3] = Insn("stop", {"x27"})
    /\ AddTimerEnd[4] = Insn("sub", {"x15"})
    /\ \A i \in {1, 2, 5, 6, 7, 8} : AddTimerEnd[i] = Bar
    /\ MakeTimerResult[1] = Insn("result", {"x0"})
  BY DEF AddTimerStart, AddTimerEnd, MakeTimerResult

\* What a concatenation of sequences of m and n instructions has where.
Joins(st, s, t, m, n) ==
    /\ st \in Seq(Insns)
    /\ Len(st) = m + n
    /\ \A i \in 1..m : st[i] = s[i]
    /\ \A i \in 1..n : st[m + i] = t[i]

LEMMA ConcatAt ==
    ASSUME NEW s \in Seq(Insns), NEW t \in Seq(Insns), NEW m \in Nat, NEW n \in Nat,
           Len(s) = m, Len(t) = n
    PROVE  Joins(s \o t, s, t, m, n)
<1>1. /\ s \o t \in Seq(Insns)
      /\ Len(s \o t) = Len(s) + Len(t)
      /\ \A i \in 1..(Len(s) + Len(t)) :
            (s \o t)[i] = IF i <= Len(s) THEN s[i] ELSE t[i - Len(s)]
  BY ConcatProperties
<1> DEFINE st == s \o t
<1> HIDE DEF st
<1>2. \A i \in 1..(m + n) : st[i] = IF i <= m THEN s[i] ELSE t[i - m]
  BY <1>1 DEF st
<1>3. \A i \in 1..m : st[i] = s[i]
  BY <1>2
<1>4. \A i \in 1..n : m + i \in 1..(m + n) /\ ~(m + i <= m) /\ (m + i) - m = i
  OBVIOUS
<1>5. \A i \in 1..n : st[m + i] = t[i]
  BY <1>2, <1>4
<1> QED
  BY <1>1, <1>3, <1>5 DEF st, Joins

\* What the timed part of a page has where.
LEMMA TimedAt ==
    ASSUME NEW pg \in Shapes
    PROVE  /\ Len(Timed(pg)) = 39
           /\ \A k \in 1..9 : Timed(pg)[k] = AddTimerStart[k]
           /\ Timed(pg)[10] = Measurement(pg)
           /\ \A k \in 1..8 : Timed(pg)[10 + k] = AddTimerEnd[k]
           /\ Timed(pg)[19] = MakeTimerResult[1]
           /\ \A k \in 1..20 : Timed(pg)[19 + k] = AddEpilog[k]
<1> DEFINE a == AddTimerStart
           m == <<Measurement(pg)>>
           b == AddTimerEnd
           c == MakeTimerResult
           d == AddEpilog
           am == a \o m
           amb == am \o b
           ambc == amb \o c
           t == ambc \o d
<1>1. /\ a \in Seq(Insns) /\ m \in Seq(Insns) /\ b \in Seq(Insns) /\ c \in Seq(Insns)
      /\ d \in Seq(Insns)
  <2>1. Aligned \subseteq Insns
    BY DEF Aligned
  <2>2. m \in Seq(Aligned)
    BY MeasurementAligned
  <2> HIDE DEF m
  <2> QED
    BY <2>1, <2>2, PartsAligned, SeqMonotonic
<1>2. Len(a) = 9 /\ Len(b) = 8 /\ Len(c) = 1 /\ Len(m) = 1 /\ m[1] = Measurement(pg)
  BY TimerAt
<1>3. Len(d) = 20
  <2>1. 1 \in 1..20
    OBVIOUS
  <2> QED
    BY <2>1, EpilogAt
<1>4. Timed(pg) = t
  BY DEF Timed
<1> HIDE DEF a, m, b, c, d, am, amb, ambc, t
<1>5. /\ am \in Seq(Insns) /\ Len(am) = 10
      /\ \A i \in 1..9 : am[i] = a[i]
      /\ \A i \in 1..1 : am[9 + i] = m[i]
  <2>1. Joins(am, a, m, 9, 1)
    BY <1>1, <1>2, ConcatAt DEF am
  <2> QED
    BY <2>1 DEF Joins
<1>6. /\ amb \in Seq(Insns) /\ Len(amb) = 18
      /\ \A i \in 1..10 : amb[i] = am[i]
      /\ \A i \in 1..8 : amb[10 + i] = b[i]
  <2>1. Joins(amb, am, b, 10, 8)
    BY <1>1, <1>2, <1>5, ConcatAt DEF amb
  <2> QED
    BY <2>1 DEF Joins
<1>7. /\ ambc \in Seq(Insns) /\ Len(ambc) = 19
      /\ \A i \in 1..18 : ambc[i] = amb[i]
      /\ \A i \in 1..1 : ambc[18 + i] = c[i]
  <2>1. Joins(ambc, amb, c, 18, 1)
    BY <1>1, <1>2, <1>6, ConcatAt DEF ambc
  <2> QED
    BY <2>1 DEF Joins
<1>8. /\ Len(t) = 39
      /\ \A i \in 1..19 : t[i] = ambc[i]
      /\ \A i \in 1..20 : t[19 + i] = d[i]
  <2>1. Joins(t, ambc, d, 19, 20)
    BY <1>1, <1>3, <1>7, ConcatAt DEF t
  <2> QED
    BY <2>1 DEF Joins
<1>9. ASSUME NEW k \in 1..9 PROVE t[k] = a[k]
  <2>1. k \in 1..19 /\ k \in 1..18 /\ k \in 1..10
    OBVIOUS
  <2>2. t[k] = ambc[k] /\ ambc[k] = amb[k]
    BY <1>7, <1>8, <2>1, Zenon
  <2>3. amb[k] = am[k] /\ am[k] = a[k]
    BY <1>5, <1>6, <2>1, Zenon
  <2> QED
    BY <2>2, <2>3
<1>10. t[10] = m[1]
  <2>1. am[10] = m[1]
    <3>1. 1 \in 1..1 /\ 9 + 1 = 10
      OBVIOUS
    <3> QED
      BY <1>5, <3>1
  <2>2. 10 \in 1..19 /\ 10 \in 1..18 /\ 10 \in 1..10
    OBVIOUS
  <2> QED
    BY <1>6, <1>7, <1>8, <2>1, <2>2
<1>11. ASSUME NEW k \in 1..8 PROVE t[10 + k] = b[k]
  <2>1. 10 + k \in 1..19 /\ 10 + k \in 1..18
    OBVIOUS
  <2>2. amb[10 + k] = b[k]
    BY <1>6
  <2>3. ambc[10 + k] = amb[10 + k]
    BY <1>7, <2>1
  <2>4. t[10 + k] = ambc[10 + k]
    BY <1>8, <2>1
  <2> QED
    BY <2>2, <2>3, <2>4
<1>12. t[19] = c[1]
  <2>1. ambc[19] = c[1]
    <3>1. 1 \in 1..1 /\ 18 + 1 = 19
      OBVIOUS
    <3> QED
      BY <1>7, <3>1
  <2>2. 19 \in 1..19
    OBVIOUS
  <2> QED
    BY <1>8, <2>1, <2>2
<1> QED
  BY <1>2, <1>4, <1>8, <1>9, <1>10, <1>11, <1>12 DEF a, b, c, d

\* The number of instructions before the timed part.
Body(pg) == Len(Program(pg)) - 39

LEMMA Layout ==
    ASSUME NEW pg \in Shapes
    PROVE  /\ Body(pg) \in Nat /\ Body(pg) >= 20
           /\ Len(Program(pg)) = Body(pg) + 39
           /\ Len(Middle(pg)) = Body(pg) - 20
           /\ \A i \in 1..20 : Program(pg)[i] = AddProlog[i]
           /\ \A i \in 1..(Body(pg) - 20) : Program(pg)[20 + i] = Middle(pg)[i]
           /\ \A i \in 1..39 : Program(pg)[Body(pg) + i] = Timed(pg)[i]
<1> DEFINE p == AddProlog
           m == Middle(pg)
           t == Timed(pg)
           mt == m \o t
           c == p \o mt
           n == Len(m)
<1>1. /\ p \in Seq(Insns) /\ m \in Seq(Insns) /\ t \in Seq(Insns)
      /\ Len(p) = 20 /\ Len(t) = 39 /\ n \in Nat
  <2>1. 1 \in 1..20
    OBVIOUS
  <2> QED
    BY <2>1, TimedType, MiddleType, PrologAt, TimedAt
<1>2. Program(pg) = c
  BY ProgramParts
<1>3. Body(pg) = Len(c) - 39
  BY <1>2 DEF Body
<1> HIDE DEF p, m, t, mt, c
<1>4. /\ mt \in Seq(Insns) /\ Len(mt) = n + 39
      /\ \A i \in 1..n : mt[i] = m[i]
      /\ \A i \in 1..39 : mt[n + i] = t[i]
  <2>1. Joins(mt, m, t, n, 39)
    BY <1>1, ConcatAt DEF mt
  <2> QED
    BY <2>1 DEF Joins
<1>5. /\ Len(c) = 20 + (n + 39)
      /\ \A i \in 1..20 : c[i] = p[i]
      /\ \A i \in 1..(n + 39) : c[20 + i] = mt[i]
  <2>1. n + 39 \in Nat
    BY <1>1
  <2>2. Joins(c, p, mt, 20, n + 39)
    BY <1>1, <1>4, <2>1, ConcatAt DEF c
  <2> QED
    BY <2>2 DEF Joins
<1> HIDE DEF n
<1>6. Body(pg) = n + 20
  BY <1>1, <1>3, <1>5
<1>7. \A i \in 1..n : c[20 + i] = m[i]
  BY <1>1, <1>4, <1>5
<1>8. \A i \in 1..39 : c[(n + 20) + i] = t[i]
  <2> SUFFICES ASSUME NEW i \in 1..39 PROVE c[(n + 20) + i] = t[i]
    OBVIOUS
  <2>1. n + i \in 1..(n + 39) /\ 20 + (n + i) = (n + 20) + i
    BY <1>1
  <2> QED
    BY <1>4, <1>5, <2>1
<1>9. n + 20 \in Nat /\ n + 20 >= 20 /\ (n + 20) - 20 = n /\ 20 + (n + 39) = (n + 20) + 39
  BY <1>1
<1> QED
  BY <1>2, <1>5, <1>6, <1>7, <1>8, <1>9 DEF p, m, t, n

\* Where the instructions that do op are, and the registers they name there.
Placed(pg, op, i) ==
    LET B == Body(pg)
    IN  /\ op = "push" => i \in 1..14
        /\ op = "frame" => i = 15
        /\ op = "stackspace" => i = 16
        /\ op = "base" => i \in 17..20
        /\ op \in {"sequence", "x86"} => i \in 21..B
        /\ op = "readpmcr" => i = B + 2
        /\ op = "orr" => i = B + 3
        /\ op = "writepmcr" => i = B + 4
        /\ op = "start" => i = B + 5
        /\ op = "keep" => i = B + 6
        /\ op = "measurement" => i = B + 10
        /\ op = "stop" => i = B + 13
        /\ op = "sub" => i = B + 14
        /\ op = "result" => i = B + 19
        /\ op = "leave" => i = B + 24
        /\ op = "pop" => i \in (B + 25)..(B + 38)
        /\ op = "ret" => i = B + 39
        /\ op = "barrier" => i \in (21..(B + 23)) \ {B + 5, B + 6, B + 10, B + 13, B + 14, B + 19}

Named(pg, op, i, arg) ==
    /\ op = "push" => arg = Saves[i]
    /\ op = "frame" => arg = {"x29"}
    /\ op = "base" => \E r \in {"x24", "x25", "x26", "x27"} : arg = {r}
    /\ op \in {"readpmcr", "orr", "writepmcr", "start", "stop"} => arg = {"x27"}
    /\ op = "keep" => arg = {"x26"}
    /\ op = "measurement" => arg = pg.clobber["measure"]
    /\ op = "sequence" => \/ arg = pg.clobber["trigger"]
                          \/ arg = pg.clobber["reset"] /\ pg.amount > 0
    /\ op = "sub" => arg = {"x15"}
    /\ op = "result" => arg = {"x0"}
    /\ op = "pop" => arg = Saves[Body(pg) + 39 - i]

Fits(pg, i, insn) ==
    insn.op \in Ops /\ Placed(pg, insn.op, i) /\ Named(pg, insn.op, i, insn.arg)

LEMMA PrologPositions ==
    ASSUME NEW pg \in Shapes, NEW i \in 1..20
    PROVE  Fits(pg, i, Program(pg)[i])
<1>1. Program(pg)[i] = AddProlog[i]
  BY Layout
<1>2. CASE i \in 1..14
  <2>1. Program(pg)[i] = Push(Saves[i])
    BY <1>1, <1>2, PrologAt
  <2> QED
    BY <1>2, <2>1 DEF Push, Insn, Fits, Ops, Placed, Named
<1>3. CASE i = 15
  <2>1. Program(pg)[i] = Insn("frame", {"x29"})
    BY <1>1, <1>3, PrologAt
  <2> QED
    BY <1>3, <2>1 DEF Insn, Fits, Ops, Placed, Named
<1>4. CASE i = 16
  <2>1. Program(pg)[i] = Insn("stackspace", {})
    BY <1>1, <1>4, PrologAt
  <2> QED
    BY <1>4, <2>1 DEF Insn, Fits, Ops, Placed, Named
<1>5. CASE i \in 17..20
  <2>1. \E r \in {"x24", "x25", "x26", "x27"} : Program(pg)[i] = Insn("base", {r})
    BY <1>1, <1>5, PrologAt
  <2> QED
    BY <1>5, <2>1 DEF Insn, Fits, Ops, Placed, Named
<1> QED
  BY <1>2, <1>3, <1>4, <1>5

LEMMA MiddlePositions ==
    ASSUME NEW pg \in Shapes, NEW i \in 21..Body(pg)
    PROVE  Fits(pg, i, Program(pg)[i])
<1> DEFINE insn == Program(pg)[i]
           B    == Body(pg)
<1>1. insn \in MiddleInsns(pg)
  <2>1. /\ B \in Nat /\ Len(Middle(pg)) = B - 20
        /\ \A k \in 1..(B - 20) : Program(pg)[20 + k] = Middle(pg)[k]
    BY Layout
  <2>2. i - 20 \in 1..(B - 20) /\ 20 + (i - 20) = i
    BY <2>1
  <2>3. Middle(pg)[i - 20] \in MiddleInsns(pg)
    BY <2>1, <2>2, MiddleHas
  <2> QED
    BY <2>1, <2>2, <2>3
<1>2. i \in (21..(B + 23)) \ {B + 5, B + 6, B + 10, B + 13, B + 14, B + 19}
  <2>1. B \in Nat
    BY Layout
  <2> QED
    BY <2>1
<1> SUFFICES Fits(pg, i, insn)
  BY DEF insn
<1> HIDE DEF insn, B
<1>3. CASE insn = Bar
  BY <1>2, <1>3 DEF Bar, Insn, Fits, Ops, Placed, Named, B
<1>4. CASE insn = Sequence(pg, "trigger")
  BY <1>4 DEF Sequence, Fits, Ops, Placed, Named
<1>5. CASE insn = Sequence(pg, "reset") /\ pg.amount > 0
  BY <1>5 DEF Sequence, Fits, Ops, Placed, Named
<1>6. CASE \E n \in {1, 3, 4} : insn = X86(n)
  BY <1>6 DEF X86, Fits, Ops, Placed, Named
<1> QED
  BY <1>1, <1>3, <1>4, <1>5, <1>6 DEF MiddleInsns, Resets, insn

LEMMA TimedPositions ==
    ASSUME NEW pg \in Shapes, NEW k \in 1..39
    PROVE  Fits(pg, Body(pg) + k, Program(pg)[Body(pg) + k])
<1> DEFINE B    == Body(pg)
           insn == Program(pg)[B + k]
<1>1. B \in Nat /\ B >= 20 /\ insn = Timed(pg)[k]
  BY Layout
<1> SUFFICES Fits(pg, B + k, insn)
  BY DEF B, insn
<1> HIDE DEF B, insn
<1>2. CASE k \in 1..9
  <2>1. insn = AddTimerStart[k]
    BY <1>1, <1>2, TimedAt
  <2>2. k = 2 \/ k = 3 \/ k = 4 \/ k = 5 \/ k = 6 \/ k \in {1, 7, 8, 9}
    BY <1>2
  <2>3. CASE k = 2
    BY <2>1, <2>3, TimerAt DEF Insn, Fits, Ops, Placed, Named, B
  <2>4. CASE k = 3
    BY <2>1, <2>4, TimerAt DEF Insn, Fits, Ops, Placed, Named, B
  <2>5. CASE k = 4
    BY <2>1, <2>5, TimerAt DEF Insn, Fits, Ops, Placed, Named, B
  <2>6. CASE k = 5
    BY <2>1, <2>6, TimerAt DEF Insn, Fits, Ops, Placed, Named, B
  <2>7. CASE k = 6
    BY <2>1, <2>7, TimerAt DEF Insn, Fits, Ops, Placed, Named, B
  <2>8. CASE k \in {1, 7, 8, 9}
    <3>1. insn = Bar
      BY <2>1, <2>8, TimerAt
    <3>2. B + k \in (21..(B + 23)) \ {B + 5, B + 6, B + 10, B + 13, B + 14, B + 19}
      BY <1>1, <2>8
    <3> QED
      BY <3>1, <3>2 DEF Bar, Insn, Fits, Ops, Placed, Named, B
  <2> QED
    BY <2>2, <2>3, <2>4, <2>5, <2>6, <2>7, <2>8
<1>3. CASE k = 10
  <2>1. insn = Measurement(pg)
    BY <1>1, <1>3, TimedAt
  <2> QED
    BY <1>3, <2>1 DEF Measurement, Fits, Ops, Placed, Named, B
<1>4. CASE k \in 11..18
  <2>1. k - 10 \in 1..8 /\ 10 + (k - 10) = k
    BY <1>4
  <2>2. insn = AddTimerEnd[k - 10]
    BY <1>1, <2>1, TimedAt
  <2>3. k = 13 \/ k = 14 \/ k - 10 \in {1, 2, 5, 6, 7, 8}
    BY <2>1
  <2>4. CASE k = 13
    <3>1. insn = AddTimerEnd[3]
      BY <2>2, <2>4
    <3> QED
      BY <2>4, <3>1, TimerAt DEF Insn, Fits, Ops, Placed, Named, B
  <2>5. CASE k = 14
    <3>1. insn = AddTimerEnd[4]
      BY <2>2, <2>5
    <3> QED
      BY <2>5, <3>1, TimerAt DEF Insn, Fits, Ops, Placed, Named, B
  <2>6. CASE k - 10 \in {1, 2, 5, 6, 7, 8}
    <3>1. insn = Bar
      BY <2>2, <2>6, TimerAt
    <3>2. B + k \in (21..(B + 23)) \ {B + 5, B + 6, B + 10, B + 13, B + 14, B + 19}
      BY <1>1, <1>4, <2>6
    <3> QED
      BY <3>1, <3>2 DEF Bar, Insn, Fits, Ops, Placed, Named, B
  <2> QED
    BY <2>3, <2>4, <2>5, <2>6
<1>5. CASE k = 19
  <2>1. insn = MakeTimerResult[1]
    BY <1>1, <1>5, TimedAt
  <2> QED
    BY <1>5, <2>1, TimerAt DEF Insn, Fits, Ops, Placed, Named, B
<1>6. CASE k \in 20..39
  <2>1. k - 19 \in 1..20 /\ 19 + (k - 19) = k
    BY <1>6
  <2>2. insn = AddEpilog[k - 19]
    BY <1>1, <2>1, TimedAt
  <2>3. CASE k - 19 \in 1..4
    <3>1. insn = Bar
      BY <2>1, <2>2, <2>3, EpilogAt
    <3>2. B + k \in (21..(B + 23)) \ {B + 5, B + 6, B + 10, B + 13, B + 14, B + 19}
      BY <1>1, <2>1, <2>3
    <3> QED
      BY <3>1, <3>2 DEF Bar, Insn, Fits, Ops, Placed, Named, B
  <2>4. CASE k - 19 = 5
    <3>1. insn = Insn("leave", {"x29"}) /\ k = 24
      BY <2>1, <2>2, <2>4, EpilogAt
    <3> QED
      BY <3>1 DEF Insn, Fits, Ops, Placed, Named, B
  <2>5. CASE k - 19 \in 6..19
    <3>1. insn = Pop(Saves[20 - (k - 19)])
      BY <2>1, <2>2, <2>5, EpilogAt
    <3>2. 20 - (k - 19) = B + 39 - (B + k) /\ B + k \in (B + 25)..(B + 38)
      BY <1>1, <2>1, <2>5
    <3>3. insn = Pop(Saves[B + 39 - (B + k)])
      BY <3>1, <3>2
    <3> QED
      BY <3>2, <3>3 DEF Pop, Insn, Fits, Ops, Placed, Named, B
  <2>6. CASE k - 19 = 20
    <3>1. insn = Ret /\ k = 39
      BY <2>1, <2>2, <2>6, EpilogAt
    <3> QED
      BY <3>1 DEF Ret, Insn, Fits, Ops, Placed, Named, B
  <2> QED
    BY <2>1, <2>3, <2>4, <2>5, <2>6
<1> QED
  BY <1>2, <1>3, <1>4, <1>5, <1>6 DEF B, insn

\* Every instruction of a page is where it belongs.
LEMMA Positions ==
    ASSUME NEW pg \in Shapes, NEW i \in 1..Len(Program(pg))
    PROVE  Fits(pg, i, Program(pg)[i])
<1>1. Body(pg) \in Nat /\ Body(pg) >= 20 /\ Len(Program(pg)) = Body(pg) + 39
  BY Layout
<1>2. CASE i \in 1..20
  BY <1>2, PrologPositions
<1>3. CASE i \in 21..Body(pg)
  BY <1>3, MiddlePositions
<1>4. CASE i \in (Body(pg) + 1)..(Body(pg) + 39)
  <2> DEFINE B == Body(pg)
  <2>1. B \in Nat /\ i \in (B + 1)..(B + 39)
    BY <1>1, <1>4
  <2> HIDE DEF B
  <2>2. i - B \in 1..39 /\ B + (i - B) = i
    BY <2>1
  <2> QED
    BY <2>2, TimedPositions DEF B
<1> QED
  BY <1>1, <1>2, <1>3, <1>4

-----------------------------------------------------------------------------
(* What running a page preserves *)

\* None of the first n instructions of a page overwrites x29.
Clean(pg, n) ==
    \A i \in 21..n : Program(pg)[i].op \in {"sequence", "measurement"} =>
                        "x29" \notin Program(pg)[i].arg

\* A sequence that the page runs overwrites x29.
Disturbed(pg) ==
    \E role \in Roles : /\ "x29" \in pg.clobber[role]
                        /\ role = "reset" => pg.amount > 0

\* The measurement leaves the first reading alone.
Kept(pg) == "x26" \notin pg.clobber["measure"]

LEMMA MiddleRuns ==
    ASSUME NEW pg \in Shapes, NEW insn, Has(Middle(pg), insn)
    PROVE  \E i \in 21..Body(pg) : Program(pg)[i] = insn
<1> DEFINE B == Body(pg)
<1>1. /\ B \in Nat /\ Len(Middle(pg)) = B - 20
      /\ \A k \in 1..(B - 20) : Program(pg)[20 + k] = Middle(pg)[k]
  BY Layout
<1>2. PICK k \in 1..(B - 20) : Middle(pg)[k] = insn
  BY <1>1 DEF Has
<1>3. B \in Nat /\ Program(pg)[20 + k] = insn
  BY <1>1, <1>2
<1> HIDE DEF B
<1>4. 20 + k \in 21..B
  BY <1>2, <1>3
<1> QED
  BY <1>3, <1>4 DEF B

\* A page runs its trigger, its measurement and, if asked, its reset: x29
\* stays as it is if and only if these leave it alone.
LEMMA CleanPage ==
    ASSUME NEW pg \in Shapes
    PROVE  Clean(pg, Body(pg) + 23) <=> ~Disturbed(pg)
<1> DEFINE B == Body(pg)
<1>1. /\ B \in Nat /\ B >= 20 /\ Len(Program(pg)) = B + 39
      /\ Program(pg)[B + 10] = Measurement(pg)
  <2>1. 10 \in 1..39
    OBVIOUS
  <2> QED
    BY <2>1, Layout, TimedAt
<1>2. ASSUME Disturbed(pg) PROVE ~Clean(pg, B + 23)
  <2>1. PICK role \in Roles : /\ "x29" \in pg.clobber[role]
                              /\ role = "reset" => pg.amount > 0
    BY <1>2 DEF Disturbed
  <2>2. CASE role = "measure"
    <3>1. B + 10 \in 21..(B + 23)
      BY <1>1
    <3>2. /\ Program(pg)[B + 10].op = "measurement"
          /\ "x29" \in Program(pg)[B + 10].arg
      BY <1>1, <2>1, <2>2 DEF Measurement
    <3> QED
      BY <3>1, <3>2 DEF Clean
  <2>3. CASE role # "measure"
    <3>1. Has(Middle(pg), Sequence(pg, role))
      BY <2>1, <2>3, MiddleHas DEF Roles
    <3>2. PICK i \in 21..B : Program(pg)[i] = Sequence(pg, role)
      BY <3>1, MiddleRuns
    <3>3. i \in 21..(B + 23)
      BY <1>1, <3>2
    <3>4. /\ Program(pg)[i].op = "sequence"
          /\ "x29" \in Program(pg)[i].arg
      BY <2>1, <3>2 DEF Sequence
    <3> QED
      BY <3>3, <3>4 DEF Clean
  <2> QED
    BY <2>2, <2>3
<1>3. ASSUME ~Clean(pg, B + 23) PROVE Disturbed(pg)
  <2>1. PICK i \in 21..(B + 23) : /\ Program(pg)[i].op \in {"sequence", "measurement"}
                                  /\ "x29" \in Program(pg)[i].arg
    BY <1>3 DEF Clean
  <2>2. i \in 1..Len(Program(pg))
    BY <1>1, <2>1
  <2>3. Fits(pg, i, Program(pg)[i])
    BY <2>2, Positions
  <2>4. \/ "x29" \in pg.clobber["measure"]
        \/ "x29" \in pg.clobber["trigger"]
        \/ "x29" \in pg.clobber["reset"] /\ pg.amount > 0
    BY <2>1, <2>3 DEF Fits, Named
  <2> QED
    BY <2>4 DEF Disturbed, Roles
<1> QED
  BY <1>2, <1>3

\* A transient page has x86 code in front of its timed part.
LEMMA TransientHasX86 ==
    ASSUME NEW pg \in Shapes, pg.builder = "speculative"
    PROVE  \E i \in 21..Body(pg) : Program(pg)[i].op = "x86"
<1>1. PICK i \in 21..Body(pg) : Program(pg)[i] = X86(1)
  BY MiddleHas, MiddleRuns
<1> QED
  BY <1>1 DEF X86

\* Only a sequence or the measurement can make a page unclean.
LEMMA CleanStep ==
    ASSUME NEW pg \in Shapes, NEW i \in 21..(Body(pg) + 39)
    PROVE  Clean(pg, i) <=>
             /\ Clean(pg, i - 1)
             /\ Program(pg)[i].op \in {"sequence", "measurement"} =>
                   "x29" \notin Program(pg)[i].arg
<1> DEFINE B == Body(pg)
<1>1. B \in Nat
  BY Layout
<1> HIDE DEF B
<1>2. 21..i = 21..(i - 1) \cup {i}
  BY <1>1 DEF B
<1> QED
  BY <1>2 DEF Clean

\* What the registers of the i-th save hold when it is made, and the stack after
\* n saves.
Saved(i)  == [r \in Saves[i] |-> "caller"]
Frames(n) == [i \in 1..n |-> Saved(i)]

\* What is added and what is still to add make up the page, which is complete
\* when it runs.
CodeInv ==
    /\ mode = "building" =>
         /\ code \in Seq(Insns)
         /\ code \o todo = Program(page)
         /\ at = 1
         /\ regs = [r \in Regs |-> "caller"]
         /\ stack = <<>>
    /\ mode \notin {"building", "aborted"} => code = Program(page)

PositionInv ==
    mode = "running" =>
      /\ at \in 1..(Body(page) + 39)
      /\ \A i \in 1..(at - 1) : Program(page)[i].op # "x86"

\* The stack grows by one save after the other, then by the stack space, and
\* shrinks the same way; x29 holds the frame until a sequence overwrites it.
StackInv ==
    mode = "running" =>
      LET B == Body(page)
      IN  /\ at <= 15 => regs = [r \in Regs |-> "caller"] /\ stack = Frames(at - 1)
          /\ at = 16 => stack = Frames(14)
          /\ at \in 17..(B + 24) => stack = Append(Frames(14), [r \in {} |-> "junk"])
          /\ at \in 16..(B + 24) => depth = 14 /\ (regs["x29"] = "frame" <=> Clean(page, at - 1))
          /\ at \in (B + 25)..(B + 39) =>
               /\ Clean(page, B + 23)
               /\ stack = Frames(B + 39 - at)
               /\ \A i \in (B + 40 - at)..14 : \A r \in Saves[i] : regs[r] = "caller"

\* The first reading is in x27, then also in x26, until the measurement; what
\* Sub computes from it and the second one goes through x15 to x0.
TimerInv ==
    mode = "running" =>
      LET B == Body(page)
      IN  /\ at <= B + 5 => \A r \in Regs : regs[r] # "t0"
          /\ at \in (B + 6)..(B + 10) => regs["x27"] = "t0"
          /\ at \in (B + 7)..(B + 10) => regs["x26"] = "t0"
          /\ at \in (B + 11)..(B + 14) => (regs["x26"] = "t0" <=> Kept(page))
          /\ at = B + 14 => regs["x27"] = "t1"
          /\ at \in (B + 15)..(B + 19) => (regs["x15"] = "elapsed" <=> Kept(page))
          /\ at \in (B + 20)..(B + 39) => (regs["x0"] = "elapsed" <=> Kept(page))

EndInv ==
    /\ mode = "returned" =>
         /\ stack = <<>>
         /\ \A r \in CalleeSaved : regs[r] = "caller"
         /\ regs["x0"] = "elapsed" <=> Kept(page)
         /\ ~Disturbed(page)
    /\ mode = "lost" => Disturbed(page)
    /\ mode \in {"returned", "lost"} => page.builder # "speculative"

Inv ==
    /\ IndexInv /\ TypeOK /\ CodeInv
    /\ PositionInv /\ StackInv /\ TimerInv /\ EndInv

LEMMA InitInv == Init => Inv
<1> SUFFICES ASSUME Init PROVE Inv
  OBVIOUS
<1>1. IndexInv
  BY InitIndex
<1>2. TypeOK
  BY <1>1 DEF Init, TypeOK, IndexInv, Values
<1>3. CodeInv
  <2>1. <<>> \in Seq(Insns) /\ <<>> \o Program(page) = Program(page)
    BY ProgramType DEF Init
  <2> QED
    BY <2>1 DEF Init, CodeInv
<1>4. PositionInv /\ StackInv /\ TimerInv /\ EndInv
  BY DEF Init, PositionInv, StackInv, TimerInv, EndInv
<1> QED
  BY <1>1, <1>2, <1>3, <1>4 DEF Inv

\* Adding the head of what is left leaves the page as it was.
LEMMA OneMore ==
    ASSUME NEW c \in Seq(Insns), NEW t \in Seq(Insns), t # <<>>
    PROVE  /\ Append(c, Head(t)) \in Seq(Insns)
           /\ Append(c, Head(t)) \o Tail(t) = c \o t
<1>1. Head(t) \in Insns /\ Tail(t) \in Seq(Insns) /\ t = <<Head(t)>> \o Tail(t)
  OBVIOUS
<1>2. Append(c, Head(t)) = c \o <<Head(t)>>
  BY <1>1
<1>3. <<Head(t)>> \in Seq(Insns)
  BY <1>1
<1> DEFINE h == <<Head(t)>>
           r == Tail(t)
<1> HIDE DEF h, r
<1>4. c \o h \in Seq(Insns) /\ (c \o h) \o r = c \o (h \o r)
  BY <1>1, <1>3, Associated DEF h, r
<1> QED
  BY <1>1, <1>2, <1>4 DEF h, r

LEMMA BuildingInv ==
    ASSUME Inv, AddInstruction \/ Ready
    PROVE  TypeOK' /\ CodeInv' /\ PositionInv' /\ StackInv' /\ TimerInv' /\ EndInv'
<1>0. IndexInv'
  BY NextIndex DEF Inv, Next
<1>1. /\ mode = "building" /\ page' = page /\ page \in Shapes
      /\ at' = at /\ regs' = regs /\ stack' = stack /\ depth' = depth
      /\ at = 1 /\ regs = [r \in Regs |-> "caller"] /\ stack = <<>>
      /\ code \in Seq(Insns) /\ todo \in Seq(Insns) /\ code \o todo = Program(page)
  BY DEF Inv, CodeInv, IndexInv, AddInstruction, Ready
<1>2. TypeOK'
  <2>1. mode' \in {"building", "aborted", "running"}
    BY <1>1 DEF AddInstruction, Ready
  <2> QED
    BY <1>0, <1>1, <2>1 DEF Inv, TypeOK, IndexInv
<1>3. CASE AddInstruction
  <2>1. \/ mode' = "aborted"
        \/ /\ mode' = "building" /\ todo # <<>>
           /\ code' = Append(code, Head(todo)) /\ todo' = Tail(todo)
    <3>1. CASE idx + Head(todo).bytes >= PageSize
      BY <1>3, <3>1, Zenon DEF AddInstruction
    <3>2. CASE ~(idx + Head(todo).bytes >= PageSize)
      BY <1>3, <3>2, Zenon DEF AddInstruction
    <3> QED
      BY <3>1, <3>2, Zenon
  <2>2. CodeInv'
    <3>1. CASE mode' = "aborted"
      BY <3>1 DEF CodeInv
    <3>2. CASE mode' = "building"
      <4>1. code' = Append(code, Head(todo)) /\ todo' = Tail(todo) /\ todo # <<>>
        BY <2>1, <3>2
      <4>2. code' \in Seq(Insns) /\ code' \o todo' = code \o todo
        BY <1>1, <4>1, OneMore
      <4> QED
        BY <1>1, <3>2, <4>2 DEF CodeInv
    <3> QED
      BY <2>1, <3>1, <3>2
  <2> QED
    BY <1>2, <2>1, <2>2 DEF PositionInv, StackInv, TimerInv, EndInv
<1>4. CASE Ready
  <2>1. mode' = "running" /\ code' = code /\ todo = <<>>
    BY <1>4 DEF Ready
  <2>2. code' = Program(page)
    <3>1. code \o <<>> = code
      BY <1>1
    <3> QED
      BY <1>1, <2>1, <3>1
  <2>3. CodeInv'
    BY <1>1, <2>1, <2>2 DEF CodeInv
  <2>4. Body(page) \in Nat /\ Body(page) >= 20
    BY <1>1, Layout
  <2>5. PositionInv'
    BY <1>1, <2>1, <2>4 DEF PositionInv
  <2>6. StackInv'
    <3>1. Frames(0) = <<>>
      BY DEF Frames
    <3> QED
      BY <1>1, <2>1, <2>4, <3>1 DEF StackInv
  <2>7. TimerInv'
    BY <1>1, <2>1, <2>4 DEF TimerInv
  <2>8. EndInv'
    BY <2>1 DEF EndInv
  <2> QED
    BY <1>2, <2>3, <2>5, <2>6, <2>7, <2>8
<1> QED
  BY <1>3, <1>4

\* The instruction at hand does not end the run.
Steps ==
    /\ mode = "running"
    /\ code[at].op \notin {"x86", "ret"}
    /\ at' = at + 1
    /\ depth' = IF code[at].op = "frame" THEN Len(stack) ELSE depth
    /\ UNCHANGED <<page, mode, todo, code, idx>>

LEMMA StepFacts ==
    ASSUME Inv, Steps
    PROVE  /\ page \in Shapes /\ Body(page) \in Nat /\ Body(page) >= 20
           /\ at \in 1..(Body(page) + 38)
           /\ code = Program(page)
           /\ Fits(page, at, code[at])
           /\ IndexInv' /\ CodeInv' /\ PositionInv' /\ EndInv'
<1>1. page \in Shapes /\ code = Program(page) /\ at \in 1..(Body(page) + 39)
  BY DEF Inv, IndexInv, CodeInv, PositionInv, Steps
<1>2. Body(page) \in Nat /\ Body(page) >= 20 /\ Len(code) = Body(page) + 39
  BY <1>1, Layout
<1>3. Fits(page, at, code[at])
  BY <1>1, <1>2, Positions
<1>4. at \in 1..(Body(page) + 38)
  <2>1. CASE at = Body(page) + 39
    <3>1. 39 \in 1..39 /\ 20 \in 1..20 /\ 19 + 20 = 39
      OBVIOUS
    <3>2. code[at] = Ret
      <4>1. code[at] = Timed(page)[39]
        BY <1>1, <2>1, <3>1, Layout
      <4>2. Timed(page)[19 + 20] = AddEpilog[20] /\ AddEpilog[20] = Ret
        BY <1>1, <3>1, TimedAt, EpilogAt
      <4> QED
        BY <3>1, <4>1, <4>2
    <3> QED
      BY <3>2 DEF Steps, Ret, Insn
  <2> DEFINE B == Body(page)
  <2>2. B \in Nat /\ at \in 1..(B + 39) /\ at # B + 39
    BY <1>1, <1>2, <2>1
  <2> HIDE DEF B
  <2>3. at \in 1..(B + 38)
    BY <2>2
  <2> QED
    BY <2>3 DEF B
<1>5. IndexInv'
  BY DEF Inv, IndexInv, Steps
<1>6. CodeInv'
  BY DEF Inv, CodeInv, Steps
<1>7. PositionInv'
  <2> DEFINE B == Body(page)
             P == Program(page)
  <2>1. B \in Nat /\ at \in 1..(B + 38)
    BY <1>2, <1>4
  <2>2. /\ \A i \in 1..(at - 1) : P[i].op # "x86"
        /\ P[at].op # "x86"
    BY <1>1 DEF Inv, PositionInv, Steps
  <2>3. at' = at + 1 /\ page' = page
    BY DEF Steps
  <2> HIDE DEF B, P
  <2>4. at + 1 \in 1..(B + 39) /\ 1..((at + 1) - 1) = 1..(at - 1) \cup {at}
    BY <2>1
  <2>5. at + 1 \in 1..(B + 39) /\ \A i \in 1..((at + 1) - 1) : P[i].op # "x86"
    BY <2>2, <2>4
  <2> QED
    BY <2>3, <2>5 DEF PositionInv, B, P
<1>8. EndInv'
  BY DEF EndInv, Steps
<1> QED
  BY <1>1, <1>2, <1>3, <1>4, <1>5, <1>6, <1>7, <1>8

\* Instructions between the stack space and `leave` change neither the stack
\* nor, if they are no sequence, x29.
LEMMA PlainStack ==
    ASSUME Inv, Steps, stack' = stack,
           at \in 17..(Body(page) + 23),
           regs'["x29"] = "frame" <=>
             /\ regs["x29"] = "frame"
             /\ code[at].op \in {"sequence", "measurement"} => "x29" \notin code[at].arg
    PROVE  StackInv'
<1> DEFINE B == Body(page)
<1>1. /\ page \in Shapes /\ B \in Nat /\ B >= 20 /\ code = Program(page)
      /\ Fits(page, at, code[at])
  BY StepFacts
<1>2. /\ at' = at + 1 /\ page' = page /\ mode = "running"
      /\ depth' = IF code[at].op = "frame" THEN Len(stack) ELSE depth
  BY DEF Steps
<1>3. code[at].op # "frame"
  BY <1>1 DEF Fits, Placed
<1>4. depth' = depth
  BY <1>2, <1>3
<1>5. /\ stack = Append(Frames(14), [r \in {} |-> "junk"])
      /\ depth = 14
      /\ regs["x29"] = "frame" <=> Clean(page, at - 1)
  <2>1. at \in 17..(B + 24) /\ at \in 16..(B + 24)
    BY <1>1
  <2> QED
    BY <1>2, <2>1 DEF Inv, StackInv
<1>6. regs'["x29"] = "frame" <=> Clean(page, at)
  <2>1. CASE at \in 21..(B + 39)
    BY <1>1, <1>5, <2>1, CleanStep
  <2>2. CASE at <= 20
    <3>1. Clean(page, at) /\ Clean(page, at - 1)
      BY <2>2 DEF Clean
    <3>2. code[at].op \notin {"sequence", "measurement"}
      BY <1>1, <2>2 DEF Fits, Placed
    <3> QED
      BY <1>5, <3>1, <3>2
  <2> QED
    BY <1>1, <2>1, <2>2
<1>7. /\ stack' = Append(Frames(14), [r \in {} |-> "junk"])
      /\ depth' = 14
      /\ regs'["x29"] = "frame" <=> Clean(page, at' - 1)
  <2>1. at' - 1 = at
    BY <1>2
  <2> QED
    BY <1>4, <1>5, <1>6, <2>1
<1>8. at' \in 18..(B + 24)
  BY <1>1, <1>2
<1> HIDE DEF B
<1>9. /\ ~(at' <= 15) /\ at' # 16 /\ at' \notin (B + 25)..(B + 39)
      /\ at' \in 17..(B + 24) /\ at' \in 16..(B + 24)
  BY <1>1, <1>8
<1> QED
  BY <1>2, <1>7, <1>9 DEF StackInv, B

LEMMA FramesType ==
    ASSUME NEW n \in Nat
    PROVE  /\ Len(Frames(n)) = n
           /\ Append(Frames(n), Saved(n + 1)) = Frames(n + 1)
           /\ \A e : SubSeq(Append(Frames(n), e), 1, n) = Frames(n)
           /\ n > 0 => /\ Frames(n) # <<>>
                       /\ Frames(n)[n] = Saved(n)
                       /\ SubSeq(Frames(n), 1, n - 1) = Frames(n - 1)
<1> DEFINE S == {Saved(i) : i \in Nat}
<1>1. \A m \in Nat : Frames(m) \in Seq(S) /\ Len(Frames(m)) = m
  BY DEF Frames
<1>2. \A m \in Nat : \A i \in 1..m : Frames(m)[i] = Saved(i)
  BY DEF Frames
<1> QED
  BY <1>1, <1>2 DEF Frames

LEMMA StepType ==
    ASSUME Inv, Steps, regs' \in [Regs -> Values]
    PROVE  TypeOK'
<1>1. /\ page \in Shapes /\ Fits(page, at, code[at]) /\ at \in Nat \ {0}
      /\ depth \in Nat
  BY StepFacts DEF Inv, TypeOK
<1>2. depth' \in Nat
  <2>1. CASE code[at].op = "frame"
    <3>1. at = 15
      BY <1>1, <2>1 DEF Fits, Placed
    <3>2. stack = Frames(14)
      BY <3>1 DEF Inv, StackInv, Steps
    <3> QED
      BY <2>1, <3>2, FramesType DEF Steps
  <2>2. CASE code[at].op # "frame"
    BY <1>1, <2>2 DEF Steps
  <2> QED
    BY <2>1, <2>2
<1>3. at' \in Nat \ {0}
  BY <1>1 DEF Steps
<1>4. IndexInv'
  BY StepFacts
<1> QED
  BY <1>2, <1>3, <1>4 DEF Inv, TypeOK, IndexInv, Steps

\* Instructions that leave the registers of the timing alone.
LEMMA QuietTimer ==
    ASSUME Inv, Steps,
           LET B == Body(page) IN at \notin {B + 5, B + 6, B + 10, B + 13, B + 14, B + 19},
           at < Body(page) + 5 => \A r \in Regs : regs'[r] # "t0",
           at > Body(page) + 5 =>
             \A r \in {"x0", "x15", "x26", "x27"} : regs'[r] = regs[r]
    PROVE  TimerInv'
<1> DEFINE B == Body(page)
<1>1. /\ B \in Nat /\ at \in 1..(B + 38) /\ at' = at + 1 /\ page' = page
      /\ mode = "running" /\ mode' = "running"
      /\ at \notin {B + 5, B + 6, B + 10, B + 13, B + 14, B + 19}
  BY StepFacts DEF Steps
<1>2. /\ at < B + 5 => \A r \in Regs : regs'[r] # "t0"
      /\ at > B + 5 => /\ regs'["x0"] = regs["x0"] /\ regs'["x15"] = regs["x15"]
                       /\ regs'["x26"] = regs["x26"] /\ regs'["x27"] = regs["x27"]
  OBVIOUS
<1>3. /\ at \in (B + 6)..(B + 10) => regs["x27"] = "t0"
      /\ at \in (B + 7)..(B + 10) => regs["x26"] = "t0"
      /\ at \in (B + 11)..(B + 14) => (regs["x26"] = "t0" <=> Kept(page))
      /\ at = B + 14 => regs["x27"] = "t1"
      /\ at \in (B + 15)..(B + 19) => (regs["x15"] = "elapsed" <=> Kept(page))
      /\ at \in (B + 20)..(B + 39) => (regs["x0"] = "elapsed" <=> Kept(page))
  BY <1>1 DEF Inv, TimerInv
<1> HIDE DEF B
<1>4. /\ at' <= B + 5 => at < B + 5
      /\ at' \in (B + 6)..(B + 10) => at \in (B + 6)..(B + 10) /\ at > B + 5
      /\ at' \in (B + 7)..(B + 10) => at \in (B + 7)..(B + 10) /\ at > B + 5
      /\ at' \in (B + 11)..(B + 14) => at \in (B + 11)..(B + 14) /\ at > B + 5
      /\ at' # B + 14
      /\ at' \in (B + 15)..(B + 19) => at \in (B + 15)..(B + 19) /\ at > B + 5
      /\ at' \in (B + 20)..(B + 39) => at \in (B + 20)..(B + 39) /\ at > B + 5
  BY <1>1
<1>5. /\ at' <= B + 5 => \A r \in Regs : regs'[r] # "t0"
      /\ at' \in (B + 6)..(B + 10) => regs'["x27"] = "t0"
      /\ at' \in (B + 7)..(B + 10) => regs'["x26"] = "t0"
      /\ at' \in (B + 11)..(B + 14) => (regs'["x26"] = "t0" <=> Kept(page))
      /\ at' \in (B + 15)..(B + 19) => (regs'["x15"] = "elapsed" <=> Kept(page))
      /\ at' \in (B + 20)..(B + 39) => (regs'["x0"] = "elapsed" <=> Kept(page))
  BY <1>2, <1>3, <1>4
<1> QED
  BY <1>1, <1>4, <1>5 DEF TimerInv, B

LEMMA RegsType ==
    /\ {"x0", "x15", "x24", "x25", "x26", "x27", "x29", "x30"} \subseteq Regs
    /\ \A i \in 1..14 : Saves[i] \subseteq Regs
    /\ \A i \in 1..14 : Saves[i] \cap {"x0", "x15"} = {}
<1>1. {"x0", "x15"} \cap CalleeSaved = {}
  BY DEF CalleeSaved, Vector
<1>2. {"x0", "x15", "x24", "x25", "x26", "x27", "x29", "x30"} \subseteq Regs
  BY DEF Regs, CalleeSaved
<1>3. \A i \in 1..14 : Saves[i] \subseteq CalleeSaved
  BY SavesType
<1> QED
  BY <1>1, <1>2, <1>3, SavesType

LEMMA SetsType ==
    ASSUME Inv
    PROVE  /\ \A r, v : v \in Values => Sets(r, v) \in [Regs -> Values]
           /\ \A r, v : \A x \in Regs : Sets(r, v)[x] = IF x \in r THEN v ELSE regs[x]
  BY DEF Inv, TypeOK, Sets

\* An instruction that is not the timing's, between the stack space and `leave`.
LEMMA QuietInv ==
    ASSUME Inv, Barrier \/ Base \/ Untimed
    PROVE  TypeOK' /\ CodeInv' /\ PositionInv' /\ StackInv' /\ TimerInv' /\ EndInv'
<1> DEFINE B == Body(page)
<1>1. Steps /\ stack' = stack
  BY DEF Barrier, Base, Untimed, Does, Steps
<1>2. /\ B \in Nat /\ B >= 20 /\ Fits(page, at, code[at])
  BY <1>1, StepFacts
<1>3. {"x0", "x15", "x26", "x27", "x29"} \subseteq Regs /\ regs \in [Regs -> Values]
  BY RegsType DEF Inv, TypeOK
<1>4. CASE Barrier
  <2>1. regs' = regs /\ code[at].op = "barrier"
    BY <1>4 DEF Barrier, Does
  <2>2. at \in (21..(B + 23)) \ {B + 5, B + 6, B + 10, B + 13, B + 14, B + 19}
    BY <1>2, <2>1 DEF Fits, Placed
  <2> HIDE DEF B
  <2>3. at \in 17..(B + 23)
    BY <1>2, <2>2
  <2>4. at < B + 5 => at <= B + 5
    BY <1>2, <2>2
  <2>5. at < B + 5 => \A r \in Regs : regs'[r] # "t0"
    BY <1>1, <2>1, <2>4 DEF Inv, TimerInv, Steps, B
  <2>6. StackInv'
    BY <1>1, <2>1, <2>3, PlainStack DEF B
  <2>7. TimerInv'
    BY <1>1, <2>1, <2>2, <2>5, QuietTimer DEF B
  <2> QED
    BY <1>1, <1>3, <2>1, <2>6, <2>7, StepFacts, StepType
<1>5. CASE Base
  <2>1. regs' = Sets(Arg, "data") /\ code[at].op = "base" /\ Arg = code[at].arg
    BY <1>5 DEF Base, Does, Arg
  <2>2. at \in 17..20 /\ \E r \in {"x24", "x25", "x26", "x27"} : Arg = {r}
    BY <1>2, <2>1 DEF Fits, Placed, Named
  <2> HIDE DEF B
  <2>3. /\ at \in 17..(B + 23) /\ at <= B + 5 /\ ~(at > B + 5)
        /\ at \notin {B + 5, B + 6, B + 10, B + 13, B + 14, B + 19}
    BY <1>2, <2>2
  <2>4. \A r \in Regs : regs[r] # "t0"
    BY <1>1, <2>3 DEF Inv, TimerInv, Steps, B
  <2>5. \A r \in Regs : regs'[r] # "t0"
    BY <2>1, <2>4, SetsType
  <2>6. regs'["x29"] = regs["x29"]
    BY <1>3, <2>1, <2>2, SetsType
  <2>7. regs' \in [Regs -> Values]
    BY <2>1, SetsType DEF Values
  <2>8. StackInv'
    BY <1>1, <2>1, <2>3, <2>6, PlainStack DEF B
  <2>9. TimerInv'
    BY <1>1, <2>3, <2>5, QuietTimer DEF B
  <2> QED
    BY <1>1, <2>7, <2>8, <2>9, StepFacts, StepType
<1>6. CASE Untimed
  <2>1. regs' = Sets(Arg, "junk") /\ code[at].op = "sequence" /\ Arg = code[at].arg
    BY <1>6 DEF Untimed, Does, Arg
  <2>2. at \in 21..B
    BY <1>2, <2>1 DEF Fits, Placed
  <2> HIDE DEF B
  <2>3. /\ at \in 17..(B + 23) /\ at <= B + 5 /\ ~(at > B + 5)
        /\ at \notin {B + 5, B + 6, B + 10, B + 13, B + 14, B + 19}
    BY <1>2, <2>2
  <2>4. \A r \in Regs : regs[r] # "t0"
    BY <1>1, <2>3 DEF Inv, TimerInv, Steps, B
  <2>5. \A r \in Regs : regs'[r] # "t0"
    BY <2>1, <2>4, SetsType
  <2>6. regs'["x29"] = "frame" <=> regs["x29"] = "frame" /\ "x29" \notin code[at].arg
    BY <1>3, <2>1, SetsType
  <2>7. regs' \in [Regs -> Values]
    BY <2>1, SetsType DEF Values
  <2>8. StackInv'
    BY <1>1, <2>1, <2>3, <2>6, PlainStack DEF B
  <2>9. TimerInv'
    BY <1>1, <2>3, <2>5, QuietTimer DEF B
  <2> QED
    BY <1>1, <2>7, <2>8, <2>9, StepFacts, StepType
<1> QED
  BY <1>4, <1>5, <1>6

\* Pmcr, Start, Keep, Stop, Sub and Result: the registers they write, and when.
TimerWrites ==
    LET B == Body(page) IN
    \/ at \in (B + 2)..(B + 4) /\ (regs' = regs \/ regs' = Sets({"x27"}, "pmcr"))
    \/ at = B + 5  /\ regs' = Sets({"x27"}, "t0")
    \/ at = B + 6  /\ regs' = Sets({"x26"}, regs["x27"])
    \/ at = B + 13 /\ regs' = Sets({"x27"}, "t1")
    \/ at = B + 14 /\ regs' = Sets({"x15"}, IF regs["x27"] = "t1" /\ regs["x26"] = "t0"
                                            THEN "elapsed" ELSE "junk")
    \/ at = B + 19 /\ regs' = Sets({"x0"}, regs["x15"])

LEMMA TimerSteps ==
    ASSUME Inv, Pmcr \/ Start \/ Keep \/ Stop \/ Sub \/ Result
    PROVE  /\ Steps /\ stack' = stack
           /\ code[at].op \notin {"sequence", "measurement"}
           /\ TimerWrites
<1>1. CASE Pmcr
  <2>1. PICK op \in {"readpmcr", "orr", "writepmcr"} :
               Does(op, IF op = "writepmcr" THEN regs ELSE Sets(Arg, "pmcr"), stack)
    BY <1>1 DEF Pmcr
  <2>2. /\ Steps /\ stack' = stack /\ code[at].op = op
        /\ regs' = regs \/ regs' = Sets(Arg, "pmcr")
    BY <2>1 DEF Does, Steps
  <2>3. Fits(page, at, code[at]) /\ Body(page) \in Nat
    BY <2>2, StepFacts
  <2>4. at \in (Body(page) + 2)..(Body(page) + 4) /\ Arg = {"x27"}
    <3> DEFINE B == Body(page)
    <3>1. (at = B + 2 \/ at = B + 3 \/ at = B + 4) /\ B \in Nat
      BY <2>2, <2>3 DEF Fits, Placed
    <3> HIDE DEF B
    <3>2. at \in (B + 2)..(B + 4)
      BY <3>1
    <3> QED
      BY <2>2, <2>3, <3>2 DEF Fits, Named, Arg, B
  <2> QED
    BY <2>2, <2>4 DEF TimerWrites
<1>2. CASE Start
  <2>1. Steps /\ stack' = stack /\ code[at].op = "start" /\ regs' = Sets(Arg, "t0")
    BY <1>2 DEF Start, Does, Steps
  <2>2. at = Body(page) + 5 /\ Arg = {"x27"}
    BY <2>1, StepFacts DEF Fits, Placed, Named, Arg
  <2> QED
    BY <2>1, <2>2 DEF TimerWrites
<1>3. CASE Keep
  <2>1. Steps /\ stack' = stack /\ code[at].op = "keep" /\ regs' = Sets(Arg, regs["x27"])
    BY <1>3 DEF Keep, Does, Steps
  <2>2. at = Body(page) + 6 /\ Arg = {"x26"}
    BY <2>1, StepFacts DEF Fits, Placed, Named, Arg
  <2> QED
    BY <2>1, <2>2 DEF TimerWrites
<1>4. CASE Stop
  <2>1. Steps /\ stack' = stack /\ code[at].op = "stop" /\ regs' = Sets(Arg, "t1")
    BY <1>4 DEF Stop, Does, Steps
  <2>2. at = Body(page) + 13 /\ Arg = {"x27"}
    BY <2>1, StepFacts DEF Fits, Placed, Named, Arg
  <2> QED
    BY <2>1, <2>2 DEF TimerWrites
<1>5. CASE Sub
  <2>1. /\ Steps /\ stack' = stack /\ code[at].op = "sub"
        /\ regs' = Sets(Arg, IF regs["x27"] = "t1" /\ regs["x26"] = "t0"
                             THEN "elapsed" ELSE "junk")
    BY <1>5 DEF Sub, Does, Steps
  <2>2. at = Body(page) + 14 /\ Arg = {"x15"}
    BY <2>1, StepFacts DEF Fits, Placed, Named, Arg
  <2> QED
    BY <2>1, <2>2 DEF TimerWrites
<1>6. CASE Result
  <2>1. Steps /\ stack' = stack /\ code[at].op = "result" /\ regs' = Sets(Arg, regs["x15"])
    BY <1>6 DEF Result, Does, Steps
  <2>2. at = Body(page) + 19 /\ Arg = {"x0"}
    BY <2>1, StepFacts DEF Fits, Placed, Named, Arg
  <2> QED
    BY <2>1, <2>2 DEF TimerWrites
<1> QED
  BY <1>1, <1>2, <1>3, <1>4, <1>5, <1>6

LEMMA TimingInv ==
    ASSUME Inv, Pmcr \/ Start \/ Keep \/ Stop \/ Sub \/ Result
    PROVE  TypeOK' /\ CodeInv' /\ PositionInv' /\ StackInv' /\ TimerInv' /\ EndInv'
<1> DEFINE B == Body(page)
<1>1. /\ Steps /\ stack' = stack /\ TimerWrites
      /\ code[at].op \notin {"sequence", "measurement"}
  BY TimerSteps
<1>2. /\ B \in Nat /\ B >= 20 /\ at \in 1..(B + 38)
      /\ mode = "running" /\ mode' = "running" /\ page' = page /\ at' = at + 1
  BY <1>1, StepFacts DEF Steps
<1>3. /\ {"x0", "x15", "x26", "x27", "x29"} \subseteq Regs /\ regs \in [Regs -> Values]
      /\ \A r, v : \A x \in Regs : Sets(r, v)[x] = IF x \in r THEN v ELSE regs[x]
  BY RegsType, SetsType DEF Inv, TypeOK
<1>4. at \in 17..(B + 23) /\ regs'["x29"] = regs["x29"]
  <2>1. regs'["x29"] = regs["x29"]
    BY <1>1, <1>3 DEF TimerWrites
  <2> HIDE DEF B
  <2>2. at \in 17..(B + 23)
    BY <1>1, <1>2 DEF TimerWrites, B
  <2> QED
    BY <2>1, <2>2
<1>5. StackInv'
  BY <1>1, <1>4, PlainStack
<1>6. regs' \in [Regs -> Values]
  <2>1. regs["x27"] \in Values /\ regs["x15"] \in Values
    BY <1>3
  <2>2. {"pmcr", "t0", "t1", "elapsed", "junk"} \subseteq Values
    BY DEF Values
  <2> QED
    BY <1>1, <1>3, <2>1, <2>2, SetsType DEF TimerWrites
<1>7. TimerInv'
  <2>1. CASE at \in (B + 2)..(B + 4) /\ (regs' = regs \/ regs' = Sets({"x27"}, "pmcr"))
    <3> HIDE DEF B
    <3>1. /\ at <= B + 5 /\ ~(at > B + 5)
          /\ at \notin {B + 5, B + 6, B + 10, B + 13, B + 14, B + 19}
      BY <1>2, <2>1
    <3>2. \A r \in Regs : regs[r] # "t0"
      BY <1>2, <3>1 DEF Inv, TimerInv, B
    <3>3. \A r \in Regs : regs'[r] # "t0"
      BY <1>3, <2>1, <3>2
    <3> QED
      BY <1>1, <3>1, <3>3, QuietTimer DEF B
  <2>2. CASE at = B + 5 /\ regs' = Sets({"x27"}, "t0")
    <3>1. regs'["x27"] = "t0"
      BY <1>3, <2>2
    <3> HIDE DEF B
    <3>2. /\ at' = B + 6 /\ ~(at' <= B + 5) /\ at' \notin (B + 7)..(B + 10)
          /\ at' \notin (B + 11)..(B + 14) /\ at' # B + 14 /\ at' \notin (B + 15)..(B + 19)
          /\ at' \notin (B + 20)..(B + 39)
      BY <1>2, <2>2
    <3> QED
      BY <1>2, <3>1, <3>2 DEF TimerInv, B
  <2>3. CASE at = B + 6 /\ regs' = Sets({"x26"}, regs["x27"])
    <3>1. regs'["x26"] = regs["x27"] /\ regs'["x27"] = regs["x27"]
      BY <1>3, <2>3
    <3> HIDE DEF B
    <3>2. /\ at \in (B + 6)..(B + 10) /\ at' = B + 7 /\ ~(at' <= B + 5)
          /\ at' \notin (B + 11)..(B + 14) /\ at' # B + 14 /\ at' \notin (B + 15)..(B + 19)
          /\ at' \notin (B + 20)..(B + 39)
      BY <1>2, <2>3
    <3>3. regs["x27"] = "t0"
      BY <1>2, <3>2 DEF Inv, TimerInv, B
    <3> QED
      BY <1>2, <3>1, <3>2, <3>3 DEF TimerInv, B
  <2>4. CASE at = B + 13 /\ regs' = Sets({"x27"}, "t1")
    <3>1. regs'["x26"] = regs["x26"] /\ regs'["x27"] = "t1"
      BY <1>3, <2>4
    <3> HIDE DEF B
    <3>2. /\ at \in (B + 11)..(B + 14) /\ at' = B + 14 /\ ~(at' <= B + 5)
          /\ at' \notin (B + 6)..(B + 10) /\ at' \notin (B + 7)..(B + 10)
          /\ at' \notin (B + 15)..(B + 19) /\ at' \notin (B + 20)..(B + 39)
      BY <1>2, <2>4
    <3>3. regs["x26"] = "t0" <=> Kept(page)
      BY <1>2, <3>2 DEF Inv, TimerInv, B
    <3> QED
      BY <1>2, <3>1, <3>2, <3>3 DEF TimerInv, B
  <2>5. CASE /\ at = B + 14
             /\ regs' = Sets({"x15"}, IF regs["x27"] = "t1" /\ regs["x26"] = "t0"
                                      THEN "elapsed" ELSE "junk")
    <3>1. regs'["x15"] = IF regs["x27"] = "t1" /\ regs["x26"] = "t0"
                         THEN "elapsed" ELSE "junk"
      BY <1>3, <2>5
    <3> HIDE DEF B
    <3>2. /\ at \in (B + 11)..(B + 14) /\ at' = B + 15 /\ ~(at' <= B + 5)
          /\ at' \notin (B + 6)..(B + 10) /\ at' \notin (B + 7)..(B + 10)
          /\ at' \notin (B + 11)..(B + 14) /\ at' # B + 14 /\ at' \notin (B + 20)..(B + 39)
      BY <1>2, <2>5
    <3>3. (regs["x26"] = "t0" <=> Kept(page)) /\ regs["x27"] = "t1"
      BY <1>2, <2>5, <3>2 DEF Inv, TimerInv, B
    <3>4. regs'["x15"] = "elapsed" <=> Kept(page)
      BY <3>1, <3>3
    <3> QED
      BY <1>2, <3>2, <3>4 DEF TimerInv, B
  <2>6. CASE at = B + 19 /\ regs' = Sets({"x0"}, regs["x15"])
    <3>1. regs'["x0"] = regs["x15"]
      BY <1>3, <2>6
    <3> HIDE DEF B
    <3>2. /\ at \in (B + 15)..(B + 19) /\ at' = B + 20 /\ ~(at' <= B + 5)
          /\ at' \notin (B + 6)..(B + 10) /\ at' \notin (B + 7)..(B + 10)
          /\ at' \notin (B + 11)..(B + 14) /\ at' # B + 14 /\ at' \notin (B + 15)..(B + 19)
      BY <1>2, <2>6
    <3>3. regs["x15"] = "elapsed" <=> Kept(page)
      BY <1>2, <3>2 DEF Inv, TimerInv, B
    <3> QED
      BY <1>2, <3>1, <3>2, <3>3 DEF TimerInv, B
  <2> QED
    BY <1>1, <2>1, <2>2, <2>3, <2>4, <2>5, <2>6 DEF TimerWrites
<1> QED
  BY <1>1, <1>5, <1>6, <1>7, StepFacts, StepType

\* The measurement overwrites what it overwrites, but for the second reading,
\* which is still to come.
LEMMA MeasuredInv ==
    ASSUME Inv, Measured
    PROVE  TypeOK' /\ CodeInv' /\ PositionInv' /\ StackInv' /\ TimerInv' /\ EndInv'
<1> DEFINE B == Body(page)
<1>1. /\ Steps /\ stack' = stack /\ code[at].op = "measurement"
      /\ regs' = Sets(code[at].arg, "junk")
  BY DEF Measured, Does, Steps, Arg
<1>2. /\ B \in Nat /\ B >= 20 /\ at = B + 10 /\ code[at].arg = page.clobber["measure"]
      /\ mode = "running" /\ mode' = "running" /\ page' = page /\ at' = at + 1
  BY <1>1, StepFacts DEF Steps, Fits, Placed, Named
<1>3. /\ {"x26", "x29"} \subseteq Regs
      /\ \A r, v : \A x \in Regs : Sets(r, v)[x] = IF x \in r THEN v ELSE regs[x]
  BY RegsType, SetsType
<1>4. StackInv'
  <2>1. regs'["x29"] = "frame" <=> regs["x29"] = "frame" /\ "x29" \notin code[at].arg
    BY <1>1, <1>3
  <2> HIDE DEF B
  <2>2. at \in 17..(B + 23)
    BY <1>2
  <2> QED
    BY <1>1, <2>1, <2>2, PlainStack DEF B
<1>5. regs' \in [Regs -> Values]
  BY <1>1, SetsType DEF Values
<1>6. TimerInv'
  <2>1. regs'["x26"] = IF "x26" \in page.clobber["measure"] THEN "junk" ELSE regs["x26"]
    BY <1>1, <1>2, <1>3
  <2> HIDE DEF B
  <2>2. /\ at \in (B + 7)..(B + 10) /\ at' = B + 11 /\ ~(at' <= B + 5)
        /\ at' \notin (B + 6)..(B + 10) /\ at' \notin (B + 7)..(B + 10) /\ at' # B + 14
        /\ at' \notin (B + 15)..(B + 19) /\ at' \notin (B + 20)..(B + 39)
    BY <1>2
  <2>3. regs["x26"] = "t0"
    BY <1>2, <2>2 DEF Inv, TimerInv, B
  <2>4. regs'["x26"] = "t0" <=> Kept(page)
    BY <2>1, <2>3 DEF Kept
  <2> QED
    BY <1>2, <2>2, <2>4 DEF TimerInv, B
<1> QED
  BY <1>1, <1>4, <1>5, <1>6, StepFacts, StepType

\* The prolog saves the registers its caller left, one save after the other.
LEMMA SaveInv ==
    ASSUME Inv, Save
    PROVE  TypeOK' /\ CodeInv' /\ PositionInv' /\ StackInv' /\ TimerInv' /\ EndInv'
<1> DEFINE B == Body(page)
<1>1. /\ Steps /\ code[at].op = "push" /\ regs' = regs
      /\ stack' = Append(stack, [r \in code[at].arg |-> regs[r]])
  BY DEF Save, Does, Steps, Arg
<1>2. /\ B \in Nat /\ B >= 20 /\ at \in 1..14 /\ code[at].arg = Saves[at]
      /\ mode = "running" /\ mode' = "running" /\ page' = page /\ at' = at + 1
  BY <1>1, StepFacts DEF Steps, Fits, Placed, Named
<1>3. regs = [r \in Regs |-> "caller"] /\ stack = Frames(at - 1)
  BY <1>2 DEF Inv, StackInv
<1>4. stack' = Frames(at' - 1)
  <2>1. [r \in code[at].arg |-> regs[r]] = Saved(at)
    BY <1>2, <1>3, RegsType DEF Saved
  <2>2. at - 1 \in Nat /\ (at - 1) + 1 = at /\ at' - 1 = at
    BY <1>2
  <2>3. Append(Frames(at - 1), Saved((at - 1) + 1)) = Frames((at - 1) + 1)
    BY <2>2, FramesType
  <2> QED
    BY <1>1, <1>3, <2>1, <2>2, <2>3
<1> HIDE DEF B
<1>5. /\ at' \in 2..15 /\ at' <= 15 /\ at' # 16 /\ at' \notin 17..(B + 24)
      /\ at' \notin 16..(B + 24) /\ at' \notin (B + 25)..(B + 39)
      /\ at <= B + 5 /\ ~(at > B + 5)
      /\ at \notin {B + 5, B + 6, B + 10, B + 13, B + 14, B + 19}
  BY <1>2
<1>6. StackInv'
  BY <1>1, <1>2, <1>3, <1>4, <1>5 DEF StackInv, B
<1>7. TimerInv'
  <2>1. \A r \in Regs : regs'[r] # "t0"
    BY <1>1, <1>3
  <2> QED
    BY <1>1, <1>5, <2>1, QuietTimer DEF B
<1>8. regs' \in [Regs -> Values]
  BY <1>1 DEF Inv, TypeOK
<1> QED
  BY <1>1, <1>6, <1>7, <1>8, StepFacts, StepType

\* x29 is set to the frame, and the stack space is taken from above it.
LEMMA FrameInv ==
    ASSUME Inv, Frame \/ StackSpace
    PROVE  TypeOK' /\ CodeInv' /\ PositionInv' /\ StackInv' /\ TimerInv' /\ EndInv'
<1> DEFINE B == Body(page)
<1>1. Steps
  BY DEF Frame, StackSpace, Does, Steps
<1>2. /\ B \in Nat /\ B >= 20 /\ Fits(page, at, code[at])
      /\ mode = "running" /\ mode' = "running" /\ page' = page /\ at' = at + 1
  BY <1>1, StepFacts DEF Steps
<1>3. "x29" \in Regs
  BY RegsType
<1>4. CASE Frame
  <2>1. /\ code[at].op = "frame" /\ regs' = Sets(code[at].arg, "frame") /\ stack' = stack
        /\ depth' = Len(stack)
    BY <1>4 DEF Frame, Does, Arg
  <2>2. at = 15 /\ code[at].arg = {"x29"}
    BY <1>2, <2>1 DEF Fits, Placed, Named
  <2>3. regs = [r \in Regs |-> "caller"] /\ stack = Frames(14)
    BY <1>2, <2>2 DEF Inv, StackInv
  <2>4. stack' = Frames(14) /\ depth' = 14 /\ regs'["x29"] = "frame"
    BY <1>3, <2>1, <2>2, <2>3, SetsType, FramesType
  <2>5. Clean(page, 15)
    BY DEF Clean
  <2> HIDE DEF B
  <2>6. /\ at' = 16 /\ ~(at' <= 15) /\ at' \notin 17..(B + 24) /\ at' - 1 = 15
        /\ at' \notin (B + 25)..(B + 39)
        /\ at <= B + 5 /\ ~(at > B + 5)
        /\ at \notin {B + 5, B + 6, B + 10, B + 13, B + 14, B + 19}
    BY <1>2, <2>2
  <2>7. StackInv'
    BY <1>2, <2>4, <2>5, <2>6 DEF StackInv, B
  <2>8. TimerInv'
    <3>1. \A r \in Regs : regs'[r] # "t0"
      BY <2>1, <2>3, SetsType
    <3> QED
      BY <1>1, <2>6, <3>1, QuietTimer DEF B
  <2>9. regs' \in [Regs -> Values]
    BY <2>1, SetsType DEF Values
  <2> QED
    BY <1>1, <2>7, <2>8, <2>9, StepFacts, StepType
<1>5. CASE StackSpace
  <2>1. /\ code[at].op = "stackspace" /\ regs' = regs
        /\ stack' = Append(stack, [r \in {} |-> "junk"]) /\ depth' = depth
    BY <1>5 DEF StackSpace, Does
  <2>2. at = 16
    BY <1>2, <2>1 DEF Fits, Placed
  <2> HIDE DEF B
  <2>3. /\ at' = 17 /\ ~(at' <= 15) /\ at' # 16 /\ at' \in 17..(B + 24) /\ at' - 1 = 16
        /\ at' \in 16..(B + 24) /\ at' \notin (B + 25)..(B + 39)
        /\ at - 1 = 15 /\ at \in 16..(B + 24)
        /\ at <= B + 5 /\ ~(at > B + 5)
        /\ at \notin {B + 5, B + 6, B + 10, B + 13, B + 14, B + 19}
    BY <1>2, <2>2
  <2>4. stack = Frames(14) /\ depth = 14 /\ (regs["x29"] = "frame" <=> Clean(page, 15))
    BY <1>2, <2>2, <2>3 DEF Inv, StackInv, B
  <2>5. Clean(page, 15) /\ Clean(page, 16)
    BY DEF Clean
  <2>6. StackInv'
    BY <1>2, <2>1, <2>3, <2>4, <2>5 DEF StackInv, B
  <2>7. TimerInv'
    <3>1. \A r \in Regs : regs[r] # "t0"
      BY <1>2, <2>3 DEF Inv, TimerInv, B
    <3> QED
      BY <1>1, <2>1, <2>3, <3>1, QuietTimer DEF B
  <2>8. regs' \in [Regs -> Values]
    BY <2>1 DEF Inv, TypeOK
  <2> QED
    BY <1>1, <2>6, <2>7, <2>8, StepFacts, StepType
<1> QED
  BY <1>4, <1>5

\* `leave` takes the stack back to the frame, if x29 still holds it.
LEMMA LeaveInv ==
    ASSUME Inv, Leave
    PROVE  TypeOK' /\ CodeInv' /\ PositionInv' /\ StackInv' /\ TimerInv' /\ EndInv'
<1> DEFINE B == Body(page)
<1>1. /\ Steps /\ code[at].op = "leave" /\ regs' = regs /\ regs["x29"] = "frame"
      /\ stack' = SubSeq(stack, 1, depth)
  BY DEF Leave, Does, Steps
<1>2. /\ B \in Nat /\ B >= 20 /\ at = B + 24
      /\ mode = "running" /\ mode' = "running" /\ page' = page /\ at' = at + 1
  BY <1>1, StepFacts DEF Steps, Fits, Placed
<1> HIDE DEF B
<1>3. /\ at \in 17..(B + 24) /\ at \in 16..(B + 24) /\ at - 1 = B + 23
      /\ at' = B + 25 /\ ~(at' <= 15) /\ at' # 16 /\ at' \notin 17..(B + 24)
      /\ at' \notin 16..(B + 24) /\ B + 39 - at' = 14 /\ B + 40 - at' = 15 /\ 15..14 = {}
      /\ ~(at < B + 5) /\ at \notin {B + 5, B + 6, B + 10, B + 13, B + 14, B + 19}
  BY <1>2
<1>4. /\ stack = Append(Frames(14), [r \in {} |-> "junk"]) /\ depth = 14
      /\ Clean(page, B + 23)
  BY <1>1, <1>2, <1>3 DEF Inv, StackInv, B
<1>5. stack' = Frames(14)
  BY <1>1, <1>4, FramesType
<1>6. StackInv'
  BY <1>2, <1>3, <1>4, <1>5 DEF StackInv, B
<1>7. TimerInv'
  BY <1>1, <1>3, QuietTimer DEF B
<1>8. regs' \in [Regs -> Values]
  BY <1>1 DEF Inv, TypeOK
<1> QED
  BY <1>1, <1>6, <1>7, <1>8, StepFacts, StepType

\* The epilog takes off the stack what the prolog put there, last first.
LEMMA RestoreInv ==
    ASSUME Inv, Restore
    PROVE  TypeOK' /\ CodeInv' /\ PositionInv' /\ StackInv' /\ TimerInv' /\ EndInv'
<1> DEFINE B == Body(page)
           n == B + 39 - at
           top == stack[Len(stack)]
<1>1. /\ Steps /\ code[at].op = "pop"
      /\ regs' = [r \in Regs |-> IF r \notin code[at].arg THEN regs[r]
                                 ELSE IF r \in DOMAIN top THEN top[r] ELSE "junk"]
      /\ stack' = SubSeq(stack, 1, Len(stack) - 1)
  BY DEF Restore, Does, Steps, Arg
<1>2. /\ B \in Nat /\ B >= 20 /\ at \in (B + 25)..(B + 38) /\ code[at].arg = Saves[n]
      /\ mode = "running" /\ mode' = "running" /\ page' = page /\ at' = at + 1
  BY <1>1, StepFacts DEF Steps, Fits, Placed, Named
<1> HIDE DEF B
<1>3. /\ n \in 1..14 /\ at \in (B + 25)..(B + 39) /\ B + 40 - at = n + 1
      /\ B + 39 - at' = n - 1 /\ B + 40 - at' = n /\ n \in Nat /\ n > 0
      /\ at' \in (B + 25)..(B + 39) /\ ~(at' <= 15) /\ at' # 16
      /\ at' \notin 17..(B + 24) /\ at' \notin 16..(B + 24)
      /\ n..14 = {n} \cup (n + 1)..14
  BY <1>2
<1>4. /\ Clean(page, B + 23)
      /\ stack = Frames(n)
      /\ \A i \in (n + 1)..14 : \A r \in Saves[i] : regs[r] = "caller"
  BY <1>2, <1>3 DEF Inv, StackInv, B
<1> HIDE DEF n, top
<1>5. top = Saved(n) /\ stack' = Frames(n - 1)
  <2>1. Len(stack) = n /\ Frames(n)[n] = Saved(n) /\ SubSeq(Frames(n), 1, n - 1) = Frames(n - 1)
    BY <1>3, <1>4, FramesType
  <2> QED
    BY <1>1, <1>4, <2>1 DEF top
<1>6. \A r \in Regs : regs'[r] = IF r \in Saves[n] THEN "caller" ELSE regs[r]
  BY <1>1, <1>2, <1>5 DEF Saved
<1>7. \A i \in n..14 : \A r \in Saves[i] : regs'[r] = "caller"
  <2>1. ASSUME NEW i \in n..14, NEW r \in Saves[i] PROVE regs'[r] = "caller"
    <3>1. r \in Regs
      <4>1. i \in 1..14
        BY <1>3
      <4> QED
        BY <4>1, RegsType
    <3> QED
      BY <1>3, <1>4, <1>6, <3>1
  <2> QED
    BY <2>1
<1>8. StackInv'
  BY <1>2, <1>3, <1>4, <1>5, <1>7 DEF StackInv, B
<1>9. TimerInv'
  <2>1. /\ at \in (B + 20)..(B + 39) /\ at' \notin (B + 6)..(B + 10)
        /\ at' \notin (B + 7)..(B + 10) /\ at' \notin (B + 11)..(B + 14)
        /\ at' # B + 14 /\ at' \notin (B + 15)..(B + 19) /\ ~(at' <= B + 5)
    BY <1>2
  <2>2. regs["x0"] = "elapsed" <=> Kept(page)
    BY <1>2, <2>1 DEF Inv, TimerInv, B
  <2>3. regs'["x0"] = regs["x0"]
    <3>1. "x0" \in Regs /\ "x0" \notin Saves[n]
      BY <1>3, RegsType
    <3> QED
      BY <1>6, <3>1
  <2> QED
    BY <1>2, <2>1, <2>2, <2>3 DEF TimerInv, B
<1>10. regs' \in [Regs -> Values]
  <2>1. regs \in [Regs -> Values] /\ "caller" \in Values
    BY DEF Inv, TypeOK, Values
  <2>2. \A r \in Regs : regs'[r] \in Values
    BY <1>6, <2>1
  <2> QED
    BY <1>1, <2>2
<1> QED
  BY <1>1, <1>8, <1>9, <1>10, StepFacts, StepType

\* However the run ends: at `ret` with everything restored, at `leave` with an
\* overwritten x29, or at the first x86 instruction.
LEMMA EndsInv ==
    ASSUME Inv, Return \/ LoseStack \/ Undefined
    PROVE  TypeOK' /\ CodeInv' /\ PositionInv' /\ StackInv' /\ TimerInv' /\ EndInv'
<1> DEFINE B == Body(page)
<1>1. /\ mode = "running" /\ page' = page /\ code' = code /\ idx' = idx /\ at' = at
      /\ regs' = regs /\ stack' = stack /\ depth' = depth /\ todo' = todo
      /\ mode' \in {"returned", "lost", "sigill"}
  BY DEF Return, LoseStack, Undefined
<1>2. /\ page \in Shapes /\ code = Program(page) /\ at \in 1..(B + 39)
      /\ \A i \in 1..(at - 1) : Program(page)[i].op # "x86"
  BY <1>1 DEF Inv, IndexInv, CodeInv, PositionInv
<1>3. B \in Nat /\ B >= 20 /\ Len(code) = B + 39
  BY <1>2, Layout
<1>4. Fits(page, at, code[at])
  BY <1>2, <1>3, Positions
<1>5. TypeOK' /\ CodeInv' /\ PositionInv' /\ StackInv' /\ TimerInv'
  BY <1>1 DEF Inv, TypeOK, CodeInv, PositionInv, StackInv, TimerInv
<1>6. ASSUME at > B PROVE page.builder # "speculative"
  <2>1. ASSUME page.builder = "speculative" PROVE FALSE
    <3>1. PICK i \in 21..B : Program(page)[i].op = "x86"
      BY <1>2, <2>1, TransientHasX86
    <3> HIDE DEF B
    <3>2. i \in 1..(at - 1)
      BY <1>2, <1>3, <1>6, <3>1
    <3> QED
      BY <1>2, <3>1, <3>2
  <2> QED
    BY <2>1
<1>7. CASE Return
  <2>1. at = B + 39 /\ mode' = IF regs["x30"] = "caller" THEN "returned" ELSE "lost"
    BY <1>4, <1>7 DEF Return, Fits, Placed
  <2> HIDE DEF B
  <2>2. /\ at \in (B + 25)..(B + 39) /\ B + 39 - at = 0 /\ B + 40 - at = 1 /\ at > B
        /\ at \in (B + 20)..(B + 39)
    BY <1>3, <2>1
  <2>3. /\ Clean(page, B + 23) /\ stack = Frames(0)
        /\ \A i \in 1..14 : \A r \in Saves[i] : regs[r] = "caller"
    BY <1>1, <2>2 DEF Inv, StackInv, B
  <2>4. regs["x0"] = "elapsed" <=> Kept(page)
    BY <1>1, <2>2 DEF Inv, TimerInv, B
  <2>5. stack = <<>> /\ \A r \in CalleeSaved : regs[r] = "caller"
    <3>1. Frames(0) = <<>>
      BY DEF Frames
    <3> QED
      BY <2>3, <3>1, SavesType
  <2>6. ~Disturbed(page)
    BY <1>2, <2>3, CleanPage DEF B
  <2>7. mode' = "returned"
    <3>1. "x30" \in CalleeSaved
      BY DEF CalleeSaved
    <3> QED
      BY <2>1, <2>5, <3>1
  <2>8. page.builder # "speculative"
    BY <1>6, <2>2
  <2>9. EndInv'
    BY <1>1, <2>4, <2>5, <2>6, <2>7, <2>8 DEF EndInv
  <2> QED
    BY <1>5, <2>9
<1>8. CASE LoseStack
  <2>1. at = B + 24 /\ regs["x29"] # "frame" /\ mode' = "lost"
    BY <1>4, <1>8 DEF LoseStack, Fits, Placed
  <2> HIDE DEF B
  <2>2. at \in 16..(B + 24) /\ at - 1 = B + 23 /\ at > B
    BY <1>3, <2>1
  <2>3. ~Clean(page, B + 23)
    BY <1>1, <2>1, <2>2 DEF Inv, StackInv, B
  <2>4. Disturbed(page)
    BY <1>2, <2>3, CleanPage DEF B
  <2>5. page.builder # "speculative"
    BY <1>6, <2>2
  <2>6. EndInv'
    BY <1>1, <2>1, <2>4, <2>5 DEF EndInv
  <2> QED
    BY <1>5, <2>6
<1>9. CASE Undefined
  <2>1. EndInv'
    BY <1>9 DEF Undefined, EndInv
  <2> QED
    BY <1>5, <2>1
<1> QED
  BY <1>7, <1>8, <1>9

LEMMA NextInv == Inv /\ [Next]_vars => Inv'
<1> SUFFICES ASSUME Inv, [Next]_vars PROVE Inv'
  OBVIOUS
<1>1. IndexInv'
  BY NextIndex DEF Inv
<1>2. CASE UNCHANGED vars
  <2>1. TypeOK' /\ CodeInv'
    BY <1>2 DEF Inv, vars, TypeOK, CodeInv
  <2>2. PositionInv' /\ StackInv'
    BY <1>2 DEF Inv, vars, PositionInv, StackInv
  <2>3. TimerInv' /\ EndInv'
    BY <1>2 DEF Inv, vars, TimerInv, EndInv
  <2> QED
    BY <1>1, <2>1, <2>2, <2>3 DEF Inv
<1>3. CASE AddInstruction \/ Ready
  BY <1>1, <1>3, BuildingInv DEF Inv
<1>4. CASE Barrier \/ Base \/ Untimed
  BY <1>1, <1>4, QuietInv DEF Inv
<1>5. CASE Pmcr \/ Start \/ Keep \/ Stop \/ Sub \/ Result
  BY <1>1, <1>5, TimingInv DEF Inv
<1>6. CASE Measured
  BY <1>1, <1>6, MeasuredInv DEF Inv
<1>7. CASE Save
  BY <1>1, <1>7, SaveInv DEF Inv
<1>8. CASE Frame \/ StackSpace
  BY <1>1, <1>8, FrameInv DEF Inv
<1>9. CASE Leave
  BY <1>1, <1>9, LeaveInv DEF Inv
<1>10. CASE Restore
  BY <1>1, <1>10, RestoreInv DEF Inv
<1>11. CASE Return \/ LoseStack \/ Undefined
  BY <1>1, <1>11, EndsInv DEF Inv
<1> QED
  BY <1>2, <1>3, <1>4, <1>5, <1>6, <1>7, <1>8, <1>9, <1>10, <1>11 DEF Next, Done

THEOREM Invariance == Spec => []Inv
  BY InitInv, NextInv, PTL DEF Spec

\* Types of the page being built and run.
THEOREM TypesOK == Spec => []TypeOK
<1>1. Inv => TypeOK
  BY DEF Inv
<1> QED
  BY <1>1, Invariance, PTL

\* Whatever the lengths of the sequences and the reset executions, a page comes
\* back with the stack and the callee-saved registers its caller left, unless a
\* sequence it runs overwrites x29; and then it does not come back.
THEOREM CallerIsRestored == Spec => []ReturnsRestored
<1>1. Inv => ReturnsRestored
  BY DEF Inv, EndInv, ReturnsRestored, Disturbed
<1> QED
  BY <1>1, Invariance, PTL

\* What the trigger and the reset overwrite never reaches the timing: a page
\* returns the elapsed time unless its measurement overwrites x26.
THEOREM ElapsedTimeReturned == Spec => []ReturnsElapsedTime
<1>1. Inv => ReturnsElapsedTime
  BY DEF Inv, EndInv, ReturnsElapsedTime, Kept
<1> QED
  BY <1>1, Invariance, PTL

\* The measurement, and nothing else that is tested, runs between the readings.
THEOREM OnlyMeasurementTimed == Spec => TimerCoversMeasurement
<1> DEFINE A == /\ Measured => regs["x26"] = "t0" /\ regs["x27"] = "t0"
                /\ Untimed => regs["x26"] # "t0"
           B == Body(page)
<1>1. Inv /\ [Next]_vars => [A]_vars
  <2> SUFFICES ASSUME Inv PROVE A
    OBVIOUS
  <2>1. ASSUME Measured PROVE regs["x26"] = "t0" /\ regs["x27"] = "t0"
    <3>1. Steps /\ code[at].op = "measurement"
      BY <2>1 DEF Measured, Does, Steps
    <3>2. at = B + 10 /\ B \in Nat /\ mode = "running"
      BY <3>1, StepFacts DEF Fits, Placed, Steps
    <3> HIDE DEF B
    <3>3. at \in (B + 6)..(B + 10) /\ at \in (B + 7)..(B + 10)
      BY <3>2
    <3> QED
      BY <3>2, <3>3 DEF Inv, TimerInv, B
  <2>2. ASSUME Untimed PROVE regs["x26"] # "t0"
    <3>1. Steps /\ code[at].op = "sequence"
      BY <2>2 DEF Untimed, Does, Steps
    <3>2. at \in 21..B /\ B \in Nat /\ mode = "running"
      BY <3>1, StepFacts DEF Fits, Placed, Steps
    <3> HIDE DEF B
    <3>3. at <= B + 5
      BY <3>2
    <3> QED
      BY <3>2, <3>3, RegsType DEF Inv, TimerInv, B
  <2> QED
    BY <2>1, <2>2
<1> QED
  BY <1>1, Invariance, PTL DEF Spec, TimerCoversMeasurement
=============================================================================
