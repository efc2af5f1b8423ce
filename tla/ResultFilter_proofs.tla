------------------------ MODULE ResultFilter_proofs ------------------------
(***************************************************************************)
(* Proof that the assertions of the two filters that keep one line of each *)
(* kind hold, and that what they leave has no two lines of a kind, for any *)
(* files and any list of calls.                                            *)
(*                                                                         *)
(* Nothing ever clears the maps of best lines.  What saves the filters is  *)
(* that a file they are applied to again is what is left of one that they  *)
(* have filtered before: it holds, of each kind, lines of the best timing  *)
(* only, and the map does not change any more (Settled).                   *)
(***************************************************************************)
EXTENDS ResultFilter, FiniteSetTheorems, TLAPS

AllLines == (UNION {ToSet(f.lines) : f \in Inputs}) \cup {Stale}
Files    == [kind : {"missing", "headless", "csv"}, lines : Seq(AllLines)]

Shape ==
    /\ calls \in Seq(Calls)
    /\ active \in Seq(ResultFilterFunctions)
    /\ DOMAIN best = ResultFilterFunctions
    /\ files \in Seq(Files)
    /\ applied \in Nat
    /\ mode = "caller" => Len(files) = applied + Applications(calls) + 1
    /\ mode \in {"prefilter", "filter"} =>
          /\ Len(files) = applied + Applications(calls) + 2
          /\ line_no \in 0..Len(Input.lines)

\* The map of f has an entry for the kind of the line, with its timing.
Known(f, line) ==
    Kind(f, line) \in DOMAIN best[f] /\ best[f][Kind(f, line)].timing = line.timing

\* The file that is read has gone through f before.
Settled(f) == \A i \in 1..Len(Input.lines) : Known(f, Input.lines[i])

\* The map of f is made of the first n lines of the file that is read.
MadeOf(f, n) ==
    /\ \A i \in 1..n : Kind(f, Input.lines[i]) \in DOMAIN best[f]
    /\ \A k \in DOMAIN best[f] :
          /\ best[f][k].line_no \in 0..(n - 1)
          /\ best[f][k].timing = Input.lines[best[f][k].line_no + 1].timing

MapInv ==
    \A f \in Keeping :
        /\ mode = "caller" => DOMAIN best[f] = {} \/ Settled(f)
        /\ mode = "prefilter" =>
              \/ Settled(f)
              \/ IF Contains(active, f) THEN MadeOf(f, line_no) ELSE DOMAIN best[f] = {}
        /\ mode = "filter" =>
              \/ Settled(f)
              \/ IF Contains(active, f) THEN MadeOf(f, Len(Input.lines))
                                        ELSE DOMAIN best[f] = {}

\* What has been copied so far.
OutputInv ==
    /\ mode = "prefilter" => Output.lines = <<>>
    /\ mode = "filter" =>
        \A f \in Keeping :
            /\ Contains(active, f) \/ DOMAIN best[f] # {} =>
                  \A j \in 1..Len(Output.lines) : Known(f, Output.lines[j])
            /\ Contains(active, f) =>
                  /\ \A j \in 1..Len(Output.lines) :
                        best[f][Kind(f, Output.lines[j])].line_no \in 0..(line_no - 1)
                  /\ \A j, k \in 1..Len(Output.lines) :
                        Kind(f, Output.lines[j]) = Kind(f, Output.lines[k]) => j = k

Inv == Shape /\ MapInv /\ OutputInv /\ AssertionsHold

-----------------------------------------------------------------------------
(* Sets and sequences *)

LEMMA LeastNatural ==
    ASSUME NEW S \in SUBSET Nat, S # {}
    PROVE  \E x \in S : \A y \in S : x <= y
<1>1. PICK x \in S : \A y \in S : <<y, x>> \notin OpToRel(<, Nat)
  BY NatLessThanWellFounded, WFMin
<1>2. \A y \in S : ~(y < x)
  BY <1>1 DEF OpToRel
<1> QED
  BY <1>2

LEMMA Concatenated ==
    ASSUME NEW S, NEW a \in Seq(S), NEW b \in Seq(S)
    PROVE  /\ Len(a \o b) = Len(a) + Len(b)
           /\ \A i \in 1..(Len(a) + Len(b)) :
                 (a \o b)[i] = IF i <= Len(a) THEN a[i] ELSE b[i - Len(a)]
  OBVIOUS

LEMMA Appended ==
    ASSUME NEW S, NEW s \in Seq(S), NEW e \in S
    PROVE  Append(s, e) = [i \in 1..(Len(s) + 1) |-> IF i <= Len(s) THEN s[i] ELSE e]
<1> DEFINE t == Append(s, e)
<1>1. /\ t \in Seq(S) /\ Len(s) \in Nat /\ Len(t) = Len(s) + 1
      /\ \A i \in 1..Len(s) : t[i] = s[i]
      /\ t[Len(s) + 1] = e
  OBVIOUS
<1> HIDE DEF t
<1>2. t = [i \in 1..(Len(s) + 1) |-> t[i]]
  BY <1>1
<1>3. \A i \in 1..(Len(s) + 1) : t[i] = IF i <= Len(s) THEN s[i] ELSE e
  BY <1>1
<1>4. t = [i \in 1..(Len(s) + 1) |-> IF i <= Len(s) THEN s[i] ELSE e]
  BY <1>2, <1>3
<1> QED
  BY <1>4 DEF t

LEMMA RemoveFirstType ==
    ASSUME NEW S, NEW s \in Seq(S), NEW e
    PROVE  LET t == RemoveFirst(s, e)
           IN  /\ t \in Seq(S)
               /\ (\A i, j \in 1..Len(s) : s[i] = s[j] => i = j)
                     => (\A i, j \in 1..Len(t) : t[i] = t[j] => i = j)
<1>1. CASE \A i \in 1..Len(s) : s[i] # e
  BY <1>1 DEF RemoveFirst
<1>2. CASE \E i \in 1..Len(s) : s[i] = e
  <2> DEFINE I == {i \in 1..Len(s) : s[i] = e}
             k == SelectInSeq(s, LAMBDA v : v = e)
             t == RemoveFirst(s, e)
  <2>1. I \in SUBSET Nat /\ I # {}
    BY <1>2
  <2>2. k = CHOOSE x \in I : \A y \in I : x <= y
    BY <1>2 DEF SelectInSeq, Min
  <2>3. k \in I
    BY <2>1, <2>2, LeastNatural
  <2>4. k \in 1..Len(s)
    BY <2>3
  <2>5. t = SubSeq(s, 1, k - 1) \o SubSeq(s, k + 1, Len(s))
    BY <1>2 DEF RemoveFirst, RemoveAt
  <2> HIDE DEF I, k, t
  <2>6. /\ SubSeq(s, 1, k - 1) \in Seq(S) /\ Len(SubSeq(s, 1, k - 1)) = k - 1
        /\ SubSeq(s, k + 1, Len(s)) \in Seq(S) /\ Len(SubSeq(s, k + 1, Len(s))) = Len(s) - k
    BY <2>4
  <2>7. t \in Seq(S)
    BY <2>5, <2>6
  <2>8. /\ Len(t) = Len(s) - 1
        /\ \A i \in 1..(Len(s) - 1) : t[i] = s[IF i < k THEN i ELSE i + 1]
    <3> DEFINE a == SubSeq(s, 1, k - 1)
               b == SubSeq(s, k + 1, Len(s))
    <3>1. /\ a \in Seq(S) /\ Len(a) = k - 1 /\ b \in Seq(S) /\ Len(b) = Len(s) - k
          /\ t = a \o b
      BY <2>5, <2>6
    <3>2. /\ \A i \in 1..(k - 1) : a[i] = s[i]
          /\ \A i \in 1..(Len(s) - k) : b[i] = s[i + k]
      BY <2>4
    <3> HIDE DEF a, b
    <3>3. /\ Len(t) = Len(s) - 1
          /\ \A i \in 1..(Len(s) - 1) : t[i] = IF i < k THEN a[i] ELSE b[i - (k - 1)]
      <4>1. /\ Len(t) = Len(a) + Len(b)
            /\ \A i \in 1..(Len(a) + Len(b)) :
                  t[i] = IF i <= Len(a) THEN a[i] ELSE b[i - Len(a)]
        BY <3>1, Concatenated
      <4>2. k \in Int /\ Len(s) \in Nat /\ (k - 1) + (Len(s) - k) = Len(s) - 1
        BY <2>4
      <4> QED
        BY <3>1, <4>1, <4>2
    <3>4. ASSUME NEW i \in 1..(Len(s) - 1)
          PROVE  t[i] = s[IF i < k THEN i ELSE i + 1]
      <4>1. CASE i < k
        BY <2>4, <3>2, <3>3, <4>1
      <4>2. CASE ~(i < k)
        <5>1. i - (k - 1) \in 1..(Len(s) - k) /\ (i - (k - 1)) + k = i + 1
          BY <2>4, <4>2
        <5> QED
          BY <3>2, <3>3, <4>2, <5>1
      <4> QED
        BY <4>1, <4>2
    <3> QED
      BY <3>3, <3>4
  <2>9. \A i \in 1..(Len(s) - 1) : (IF i < k THEN i ELSE i + 1) \in 1..Len(s)
    BY <2>4
  <2>10. (\A i, j \in 1..Len(s) : s[i] = s[j] => i = j)
            => (\A i, j \in 1..Len(t) : t[i] = t[j] => i = j)
    BY <2>4, <2>8, <2>9
  <2> QED
    BY <2>7, <2>10 DEF t
<1> QED
  BY <1>1, <1>2

\* The line that follows all lines of the selection comes last.
LEMMA AtExtended ==
    ASSUME NEW lines, NEW m \in Nat, NEW is \in SUBSET (1..m)
    PROVE  /\ Cardinality(is) \in 0..m
           /\ At(lines, is \cup {m + 1}) =
                 [n \in 1..(Cardinality(is) + 1) |->
                    IF n <= Cardinality(is) THEN At(lines, is)[n] ELSE lines[m + 1]]
<1> DEFINE new == is \cup {m + 1}
           c   == Cardinality(is)
           below(S, i) == {j \in S : j < i}
<1>1. IsFiniteSet(is) /\ c \in 0..m /\ c \in Nat
  <2>1. IsFiniteSet(1..m) /\ Cardinality(1..m) = m
    BY FS_Interval
  <2>2. IsFiniteSet(is) /\ c \in Nat /\ c <= m
    BY <2>1, FS_Subset, FS_CardinalityType
  <2> QED
    BY <2>2
<1>2. m + 1 \notin is /\ Cardinality(new) = c + 1
  <2>1. m + 1 \notin is
    OBVIOUS
  <2> QED
    BY <1>1, <2>1, FS_AddElement
<1>3. \A i \in is : below(new, i) = below(is, i)
  OBVIOUS
<1>4. below(new, m + 1) = is
  <2>1. \A j \in is : j \in Int /\ j < m + 1
    OBVIOUS
  <2>2. ~(m + 1 < m + 1)
    OBVIOUS
  <2> QED
    BY <2>1, <2>2
<1>5. ASSUME NEW i \in is PROVE Cardinality(below(is, i)) \in Nat /\ Cardinality(below(is, i)) < c
  <2>1. below(is, i) \subseteq is \ {i}
    OBVIOUS
  <2> HIDE DEF below
  <2>2. IsFiniteSet(is \ {i}) /\ Cardinality(is \ {i}) = c - 1
    BY <1>1, FS_RemoveElement
  <2>3. IsFiniteSet(below(is, i)) /\ Cardinality(below(is, i)) <= c - 1
    BY <2>1, <2>2, FS_Subset
  <2> QED
    BY <1>1, <2>3, FS_CardinalityType
<1> DEFINE pos(S, n) == CHOOSE i \in S : Cardinality(below(S, i)) = n - 1
<1>6. ASSUME NEW n \in 1..c PROVE pos(new, n) = pos(is, n)
  <2>1. \A i : (i \in new /\ Cardinality(below(new, i)) = n - 1)
               = (i \in is /\ Cardinality(below(is, i)) = n - 1)
    <3> SUFFICES ASSUME NEW i
                 PROVE  i \in new /\ Cardinality(below(new, i)) = n - 1
                        <=> i \in is /\ Cardinality(below(is, i)) = n - 1
      OBVIOUS
    <3>1. CASE i \in is
      BY <1>3, <3>1
    <3>2. CASE i = m + 1
      <4>1. c # n - 1
        BY <1>1
      <4> QED
        BY <1>2, <1>4, <3>2, <4>1
    <3> QED
      BY <3>1, <3>2
  <2> HIDE DEF new, below
  <2> QED
    BY <2>1
<1>7. pos(new, c + 1) = m + 1
  <2>1. (c + 1) - 1 = c
    BY <1>1
  <2>2. \A i \in new : Cardinality(below(new, i)) = c <=> i = m + 1
    <3> SUFFICES ASSUME NEW i \in is PROVE Cardinality(below(new, i)) # c
      BY <1>4
    <3> HIDE DEF below
    <3> QED
      BY <1>1, <1>3, <1>5
  <2>3. m + 1 \in new
    OBVIOUS
  <2> HIDE DEF new, below, c
  <2> QED
    BY <2>1, <2>2, <2>3
<1>8. /\ At(lines, new) = [n \in 1..(c + 1) |-> lines[pos(new, n)]]
      /\ At(lines, is) = [n \in 1..c |-> lines[pos(is, n)]]
  BY <1>2 DEF At
<1> HIDE DEF new, pos, c, below
<1>9. ASSUME NEW n \in 1..(c + 1)
      PROVE  lines[pos(new, n)] = IF n <= c THEN At(lines, is)[n] ELSE lines[m + 1]
  <2>1. CASE n \in 1..c
    BY <1>1, <1>6, <1>8, <2>1
  <2>2. CASE n = c + 1
    BY <1>1, <1>7, <2>2
  <2> QED
    BY <1>1, <2>1, <2>2
<1>10. At(lines, new) = [n \in 1..(c + 1) |-> IF n <= c THEN At(lines, is)[n] ELSE lines[m + 1]]
  BY <1>8, <1>9
<1> QED
  BY <1>1, <1>10 DEF new, c

LEMMA ApplicationsType ==
    ASSUME NEW s \in Seq(Calls)
    PROVE  /\ IsFiniteSet({i \in DOMAIN s : s[i].op = "apply"})
           /\ Applications(s) \in Nat
<1>1. DOMAIN s = 1..Len(s) /\ Len(s) \in Nat
  OBVIOUS
<1>2. IsFiniteSet(1..Len(s))
  BY <1>1, FS_Interval
<1>3. {i \in DOMAIN s : s[i].op = "apply"} \in SUBSET (1..Len(s))
  BY <1>1
<1> QED
  BY <1>2, <1>3, FS_Subset, FS_CardinalityType DEF Applications

\* The caller makes one application less.
LEMMA ApplicationsOfTail ==
    ASSUME NEW s \in Seq(Calls), s # <<>>
    PROVE  Applications(s) =
              Applications(Tail(s)) + (IF Head(s).op = "apply" THEN 1 ELSE 0)
<1> DEFINE t == Tail(s)
           T == {i \in DOMAIN t : t[i].op = "apply"}
           S == {i \in DOMAIN s : s[i].op = "apply"}
           U == S \ {1}
           f == [i \in T |-> i + 1]
<1>1. /\ DOMAIN s = 1..Len(s) /\ Len(s) \in Nat \ {0}
      /\ t \in Seq(Calls) /\ DOMAIN t = 1..(Len(s) - 1)
      /\ \A i \in 1..(Len(s) - 1) : t[i] = s[i + 1]
      /\ Head(s) = s[1]
  OBVIOUS
<1> HIDE DEF t
<1>2. f \in Bijection(T, U)
  <2>1. \A i \in T : i + 1 \in U
    BY <1>1
  <2>2. \A j \in U : j - 1 \in T /\ (j - 1) + 1 = j
    BY <1>1
  <2>3. \A i, j \in T : i + 1 = j + 1 => i = j
    BY <1>1
  <2> HIDE DEF T, U
  <2>4. f \in [T -> U]
    BY <2>1
  <2>5. \A j \in U : \E i \in T : f[i] = j
    BY <2>2
  <2>6. \A i, j \in T : f[i] = f[j] => i = j
    BY <2>3
  <2> QED
    BY <2>4, <2>5, <2>6 DEF Bijection, Injection, Surjection, IsInjective
<1>3. IsFiniteSet(T) /\ Cardinality(T) = Applications(t) /\ Cardinality(T) \in Nat
  BY <1>1, ApplicationsType DEF Applications
<1>4. IsFiniteSet(U) /\ Cardinality(U) = Cardinality(T)
  <2> HIDE DEF T, U, f
  <2>1. ExistsBijection(T, U)
    BY <1>2 DEF ExistsBijection
  <2> QED
    BY <1>3, <2>1, FS_Bijection
<1>5. S = IF Head(s).op = "apply" THEN U \cup {1} ELSE U
  BY <1>1
<1>6. Cardinality(U \cup {1}) = Cardinality(U) + 1
  <2>1. 1 \notin U
    OBVIOUS
  <2> HIDE DEF U
  <2> QED
    BY <1>4, <2>1, FS_AddElement
<1>7. Applications(s) = Cardinality(S)
  BY DEF Applications
<1> HIDE DEF T, S, U, f
<1>8. Applications(s) = Applications(t) + (IF Head(s).op = "apply" THEN 1 ELSE 0)
  BY <1>3, <1>4, <1>5, <1>6, <1>7
<1> QED
  BY <1>8 DEF t

-----------------------------------------------------------------------------
(* One line *)

\* The lines of the files have timings.
LEMMA TimingType == \A line \in AllLines : line.timing \in Int
<1> SUFFICES ASSUME NEW line \in AllLines PROVE line.timing \in Int
  OBVIOUS
<1>1. CASE line = Stale
  BY <1>1 DEF Stale
<1>2. CASE \E f \in Inputs : line \in ToSet(f.lines)
  BY <1>2, InputsAssumption DEF File, ResultLineData, ToSet
<1> QED
  BY <1>1, <1>2 DEF AllLines

LEMMA FilesType ==
    ASSUME Shape, mode \in {"prefilter", "filter"}
    PROVE  /\ applied + 1 \in 1..Len(files) /\ applied + 2 \in 1..Len(files)
           /\ Input \in Files /\ Output \in Files
           /\ Len(Input.lines) \in Nat
           /\ \A i \in 1..Len(Input.lines) : Input.lines[i] \in AllLines
<1>1. Applications(calls) \in Nat
  BY ApplicationsType DEF Shape
<1>2. applied + 1 \in 1..Len(files) /\ applied + 2 \in 1..Len(files)
  BY <1>1 DEF Shape
<1>3. Input \in Files /\ Output \in Files
  <2> HIDE DEF Files
  <2> QED
    BY <1>2 DEF Shape, Input, Output
<1>4. Input.lines \in Seq(AllLines)
  BY <1>3 DEF Files
<1> QED
  BY <1>2, <1>3, <1>4

\* A line that no filter takes out has been shown to all of them.
LEMMA AllEvaluated ==
    ASSUME Shape, NEW line, \A f \in Evaluated(line) : ~FiltersOut(f, line),
           NEW f, Contains(active, f)
    PROVE  f \in Evaluated(line)
<1> DEFINE B == {j \in 1..Len(active) : FiltersOut(active[j], line)}
<1>1. DOMAIN active = 1..Len(active)
  BY DEF Shape
<1>2. CASE B # {}
  <2>1. B \in SUBSET Nat
    OBVIOUS
  <2>2. PICK m \in B : \A j \in B : m <= j
    BY <1>2, <2>1, LeastNatural
  <2>3. \A k \in 1..(m - 1) : ~FiltersOut(active[k], line)
    <3> SUFFICES ASSUME NEW k \in 1..(m - 1), k \in B
                 PROVE  FALSE
      BY <2>2
    <3> QED
      BY <2>2
  <2>4. active[m] \in Evaluated(line)
    BY <1>1, <2>2, <2>3 DEF Evaluated
  <2> QED
    BY <2>2, <2>4
<1>3. CASE B = {}
  <2>1. PICK i \in 1..Len(active) : active[i] = f
    BY DEF Contains
  <2>2. \A k \in 1..(i - 1) : ~FiltersOut(active[k], line)
    <3> SUFFICES ASSUME NEW k \in 1..(i - 1)
                 PROVE  k \notin B => ~FiltersOut(active[k], line)
      BY <1>3
    <3>1. k \in 1..Len(active)
      BY <2>1
    <3> QED
      BY <3>1
  <2> QED
    BY <1>1, <2>1, <2>2 DEF Evaluated
<1> QED
  BY <1>2, <1>3

\* While lines are copied, the map of an active filter knows of every line: its
\* kind, and if the line is the best of it, the timing.
LEMMA KnownWhileFiltering ==
    ASSUME Shape, MapInv, mode = "filter", line_no < Len(Input.lines),
           NEW f \in Keeping, Contains(active, f)
    PROVE  /\ Kind(f, Line) \in DOMAIN best[f]
           /\ IsBest(f, Line) => Known(f, Line)
<1>1. line_no + 1 \in 1..Len(Input.lines) /\ line_no \in Nat
  BY FilesType DEF Shape
<1>2. CASE Settled(f)
  BY <1>1, <1>2 DEF Settled, Line, Known
<1>3. CASE MadeOf(f, Len(Input.lines))
  BY <1>1, <1>3 DEF MadeOf, Line, Known, IsBest
<1> QED
  BY <1>2, <1>3 DEF MapInv

\* The assertion of a filter that is evaluated holds.
LEMMA NoAssertion ==
    ASSUME Shape, MapInv, mode = "filter", line_no < Len(Input.lines),
           NEW f \in Evaluated(Line)
    PROVE  ~Asserts(f, Line)
<1>1. Contains(active, f)
  BY DEF Evaluated, Contains, Shape
<1> QED
  BY <1>1, KnownWhileFiltering DEF Asserts, Known

-----------------------------------------------------------------------------
(* The invariant *)

LEMMA InitInv == Init => Inv
<1> SUFFICES ASSUME Init PROVE Inv
  OBVIOUS
<1>1. calls \in Seq(Calls) /\ Applications(calls) \in Nat /\ calls = program
  BY ApplicationsType, ProgramsAssumption DEF Init
<1>2. PICK input \in Inputs :
         files = <<input>> \o [n \in 1..Applications(program) |->
                                 [kind |-> "csv", lines |-> <<Stale>>]]
  BY DEF Init
<1>3. input \in Files
  <2>1. /\ input = [kind |-> input.kind, lines |-> input.lines]
        /\ input.kind \in {"missing", "headless", "csv"}
        /\ input.lines \in Seq(ToSet(input.lines))
    BY InputsAssumption DEF File
  <2>2. ToSet(input.lines) \subseteq AllLines
    BY DEF AllLines
  <2>3. input.lines \in Seq(AllLines)
    <3> DEFINE S == ToSet(input.lines)
    <3> HIDE DEF S
    <3>1. input.lines \in Seq(S) /\ S \subseteq AllLines
      BY <2>1, <2>2 DEF S
    <3> QED
      BY <3>1
  <2> QED
    BY <2>1, <2>3 DEF Files
<1>4. [kind |-> "csv", lines |-> <<Stale>>] \in Files
  <2>1. Stale \in AllLines
    BY DEF AllLines
  <2> HIDE DEF AllLines
  <2>2. <<Stale>> \in Seq(AllLines)
    BY <2>1
  <2> QED
    BY <2>2 DEF Files
<1>5. files \in Seq(Files) /\ Len(files) = 1 + Applications(calls)
  <2> DEFINE m == Applications(program)
             stale == [kind |-> "csv", lines |-> <<Stale>>]
             later == [n \in 1..m |-> stale]
  <2> HIDE DEF Files, m, stale
  <2>1. m \in Nat /\ stale \in Files
    BY <1>1, <1>4 DEF m, stale
  <2>2. later \in Seq(Files) /\ Len(later) = m
    BY <2>1
  <2>3. files = <<input>> \o later
    BY <1>2 DEF m, stale
  <2> HIDE DEF later
  <2>4. files \in Seq(Files) /\ Len(files) = 1 + m
    BY <1>3, <2>1, <2>2, <2>3
  <2> QED
    BY <1>1, <2>4 DEF m
<1>6. Shape
  BY <1>1, <1>5 DEF Init, Shape
<1>7. MapInv
  BY DEF Init, MapInv, Keeping, ResultFilterFunctions
<1> QED
  BY <1>6, <1>7 DEF Init, Inv, OutputInv, AssertionsHold

\* A call that only changes which filters are active, or the last step.
LEMMA CallInv ==
    ASSUME Inv, mode = "caller", mode' \in {"caller", "done", "exited"},
           calls' \in Seq(Calls), active' \in Seq(ResultFilterFunctions),
           mode' = "caller" => Applications(calls') = Applications(calls),
           best' = best, applied' = applied,
           files' \in Seq(Files), mode' = "caller" => files' = files
    PROVE  Inv'
<1>1. Shape'
  BY DEF Inv, Shape
<1>2. MapInv'
  <2> SUFFICES ASSUME NEW f \in Keeping, mode' = "caller"
               PROVE  DOMAIN best'[f] = {} \/ Settled(f)'
    BY DEF MapInv
  <2>1. DOMAIN best[f] = {} \/ Settled(f)
    BY DEF Inv, MapInv
  <2> QED
    BY <2>1 DEF Settled, Known, Input
<1> QED
  BY <1>1, <1>2 DEF Inv, OutputInv, AssertionsHold

LEMMA CallerInv ==
    ASSUME Inv, EnableFilter \/ DisableFilter \/ ClearAllFilters \/ Finish
    PROVE  Inv'
<1> USE DEF Called
<1>1. calls \in Seq(Calls) /\ active \in Seq(ResultFilterFunctions) /\ files \in Seq(Files)
  BY DEF Inv, Shape
<1>2. calls # <<>> => /\ Head(calls) \in Calls /\ Tail(calls) \in Seq(Calls)
                      /\ Applications(calls) = Applications(Tail(calls))
                           + (IF Head(calls).op = "apply" THEN 1 ELSE 0)
                      /\ Applications(Tail(calls)) \in Nat
  <2> SUFFICES ASSUME calls # <<>>
               PROVE  /\ Head(calls) \in Calls /\ Tail(calls) \in Seq(Calls)
                      /\ Applications(calls) = Applications(Tail(calls))
                           + (IF Head(calls).op = "apply" THEN 1 ELSE 0)
                      /\ Applications(Tail(calls)) \in Nat
    OBVIOUS
  <2> HIDE DEF Calls
  <2>1. Head(calls) \in Calls /\ Tail(calls) \in Seq(Calls)
    BY <1>1
  <2>2. Applications(calls) = Applications(Tail(calls))
           + (IF Head(calls).op = "apply" THEN 1 ELSE 0)
    BY <1>1, ApplicationsOfTail
  <2>3. Applications(Tail(calls)) \in Nat
    BY <2>1, ApplicationsType
  <2> QED
    BY <2>1, <2>2, <2>3
<1>3. calls # <<>> /\ Head(calls).op \in {"enable", "disable"} =>
         Head(calls).filter \in ResultFilterFunctions
  BY <1>2 DEF Calls, Clear, Apply
<1>4. CASE EnableFilter
  <2>1. active' \in Seq(ResultFilterFunctions)
    BY <1>1, <1>3, <1>4 DEF EnableFilter
  <2> QED
    BY <1>1, <1>2, <1>4, <2>1, CallInv DEF EnableFilter
<1>5. CASE DisableFilter
  <2>1. active' \in Seq(ResultFilterFunctions)
    BY <1>1, <1>5, RemoveFirstType DEF DisableFilter
  <2> QED
    BY <1>1, <1>2, <1>5, <2>1, CallInv DEF DisableFilter
<1>6. CASE ClearAllFilters
  <2>1. active' \in Seq(ResultFilterFunctions)
    BY <1>6 DEF ClearAllFilters
  <2> QED
    BY <1>1, <1>2, <1>6, <2>1, CallInv DEF ClearAllFilters
<1>7. CASE Finish
  BY <1>1, <1>7, CallInv DEF Finish
<1> QED
  BY <1>4, <1>5, <1>6, <1>7

LEMMA OpenFilesInv == ASSUME Inv, OpenFiles PROVE Inv'
<1>1. /\ mode = "caller" /\ calls # <<>> /\ calls \in Seq(Calls)
      /\ Head(calls).op = "apply" /\ calls' = Tail(calls)
      /\ active \in Seq(ResultFilterFunctions) /\ files \in Seq(Files)
      /\ applied \in Nat /\ active' = active /\ best' = best /\ applied' = applied
      /\ Len(files) = applied + Applications(calls) + 1
  BY DEF Inv, Shape, OpenFiles, Called
<1>2. /\ calls' \in Seq(Calls)
      /\ Applications(calls') \in Nat
      /\ Applications(calls) = Applications(calls') + 1
  <2>1. calls' \in Seq(Calls)
    BY <1>1
  <2>2. Applications(calls') \in Nat
    BY <2>1, ApplicationsType
  <2>3. Applications(calls) = Applications(Tail(calls))
           + (IF Head(calls).op = "apply" THEN 1 ELSE 0)
    BY <1>1, ApplicationsOfTail
  <2> QED
    BY <1>1, <2>1, <2>2, <2>3
<1>3. applied + 1 \in 1..Len(files) /\ applied + 2 \in 1..Len(files)
  BY <1>1, <1>2
<1>4. Truncated \in Files
  <2>1. <<>> \in Seq(AllLines)
    OBVIOUS
  <2> QED
    BY <2>1 DEF Truncated, Files
<1>5. files' \in Seq(Files) /\ Len(files') = Len(files)
  <2> HIDE DEF Files
  <2>1. [files EXCEPT ![applied + 2] = Truncated] \in Seq(Files)
    BY <1>1, <1>3, <1>4
  <2>2. Len([files EXCEPT ![applied + 2] = Truncated]) = Len(files)
    BY <1>1, <1>3
  <2> QED
    BY <1>1, <2>1, <2>2 DEF OpenFiles
<1>6. CASE mode' = "exited"
  BY <1>1, <1>2, <1>5, <1>6, CallInv
<1>7. CASE mode' = "prefilter" /\ Input.kind = "csv"
  <2>1. files' = [files EXCEPT ![applied + 2] = Truncated] /\ line_no' = 0
    BY <1>7 DEF OpenFiles
  <2>2. Input' = Input /\ Output' = Truncated
    <3>1. files'[applied + 1] = files[applied + 1] /\ files'[applied + 2] = Truncated
      BY <1>1, <1>3, <2>1
    <3> QED
      BY <1>1, <3>1 DEF Input, Output
  <2>3. Input \in Files
    <3> HIDE DEF Files
    <3> QED
      BY <1>1, <1>3 DEF Input
  <2>4. Len(Input.lines) \in Nat
    BY <2>3 DEF Files
  <2>5. Shape'
    BY <1>1, <1>2, <1>5, <1>7, <2>1, <2>2, <2>4 DEF Inv, Shape
  <2>6. MapInv'
    <3> SUFFICES ASSUME NEW f \in Keeping
                 PROVE  \/ Settled(f)'
                        \/ IF Contains(active, f)' THEN MadeOf(f, 0)'
                           ELSE DOMAIN best'[f] = {}
      BY <1>7, <2>1 DEF MapInv, MadeOf
    <3>1. CASE DOMAIN best[f] = {}
      BY <1>1, <3>1 DEF MadeOf
    <3>2. CASE Settled(f)
      BY <1>1, <2>2, <3>2 DEF Settled, Known
    <3> QED
      BY <1>1, <3>1, <3>2 DEF Inv, MapInv
  <2>7. OutputInv'
    BY <1>7, <2>2 DEF OutputInv, Truncated
  <2> QED
    BY <1>7, <2>5, <2>6, <2>7 DEF Inv, AssertionsHold
<1> QED
  BY <1>6, <1>7 DEF OpenFiles

\* A line that parses: a map that is settled stays as it is, one that is made
\* of the lines before is made of this one too.
LEMMA PrefilterMap ==
    ASSUME Inv, PrefilterLine, mode' = "prefilter", NEW f \in Keeping
    PROVE  \/ Settled(f)'
           \/ IF Contains(active', f) THEN MadeOf(f, line_no)' ELSE DOMAIN best'[f] = {}
<1>1. /\ mode = "prefilter" /\ Shape /\ MapInv /\ line_no < Len(Input.lines)
      /\ active' = active /\ files' = files /\ applied' = applied
      /\ line_no' = line_no + 1
      /\ best' = [g \in ResultFilterFunctions |->
                    IF Contains(active, g) THEN Prefilter(g, Line) ELSE best[g]]
  BY DEF Inv, PrefilterLine
<1>2. Input' = Input
  BY <1>1 DEF Input
<1>3. best'[f] = IF Contains(active, f) THEN Prefilter(f, Line) ELSE best[f]
  BY <1>1 DEF ResultFilterFunctions
<1>4. /\ Len(Input.lines) \in Nat /\ line_no \in Nat
      /\ line_no + 1 \in 1..Len(Input.lines)
      /\ \A i \in 1..Len(Input.lines) : Input.lines[i].timing \in Int
  BY <1>1, FilesType, TimingType, SMTT(20) DEF Shape
<1>5. Line = Input.lines[line_no + 1] /\ Line.timing \in Int
  BY <1>4 DEF Line
<1>6. CASE Settled(f)
  <2>1. Known(f, Line)
    BY <1>4, <1>5, <1>6 DEF Settled
  <2>2. Prefilter(f, Line) = best[f]
    BY <1>5, <2>1 DEF Prefilter, Known, AbsTiming
  <2>3. best'[f] = best[f]
    BY <1>3, <2>2
  <2> QED
    BY <1>2, <1>6, <2>3 DEF Settled, Known
<1>7. CASE ~Contains(active, f) /\ DOMAIN best[f] = {}
  BY <1>1, <1>3, <1>7
<1>8. CASE Contains(active, f) /\ MadeOf(f, line_no)
  <2> DEFINE K == Kind(f, Line)
  <2> SUFFICES /\ \A i \in 1..(line_no + 1) : Kind(f, Input.lines[i]) \in DOMAIN best'[f]
               /\ \A k \in DOMAIN best'[f] :
                    /\ best'[f][k].line_no \in 0..line_no
                    /\ best'[f][k].timing = Input.lines[best'[f][k].line_no + 1].timing
    <3>1. (line_no + 1) - 1 = line_no
      BY <1>4
    <3> QED
      BY <1>1, <1>2, <1>8, <3>1 DEF MadeOf
  <2>1. /\ \A i \in 1..line_no : Kind(f, Input.lines[i]) \in DOMAIN best[f]
        /\ \A k \in DOMAIN best[f] :
              /\ best[f][k].line_no \in 0..line_no
              /\ best[f][k].timing = Input.lines[best[f][k].line_no + 1].timing
    BY <1>4, <1>8 DEF MadeOf
  <2>2. \A i \in 1..(line_no + 1) : i \in 1..line_no \/ Kind(f, Input.lines[i]) = K
    BY <1>4, <1>5
  <2>3. CASE best'[f] = best[f] /\ K \in DOMAIN best[f]
    BY <2>1, <2>2, <2>3
  <2>4. CASE best'[f] = [k \in DOMAIN best[f] \cup {K} |->
                 IF k = K THEN [line_no |-> line_no, timing |-> Line.timing] ELSE best[f][k]]
    <3> HIDE DEF K
    <3>1. DOMAIN best'[f] = DOMAIN best[f] \cup {K}
      BY <2>4
    <3>2. /\ best'[f][K] = [line_no |-> line_no, timing |-> Line.timing]
          /\ \A k \in DOMAIN best[f] : k # K => best'[f][k] = best[f][k]
      BY <2>4
    <3>3. best'[f][K].line_no \in 0..line_no /\ best'[f][K].line_no = line_no
      BY <1>4, <3>2
    <3>4. best'[f][K].timing = Input.lines[best'[f][K].line_no + 1].timing
      BY <1>5, <3>2, <3>3
    <3> QED
      BY <2>1, <2>2, <3>1, <3>2, <3>3, <3>4
  <2> QED
    BY <1>3, <1>8, <2>3, <2>4 DEF Prefilter
<1> QED
  BY <1>1, <1>6, <1>7, <1>8 DEF MapInv

LEMMA PrefilterLineInv == ASSUME Inv, PrefilterLine PROVE Inv'
<1>1. /\ mode = "prefilter" /\ Shape /\ line_no < Len(Input.lines)
      /\ active' = active /\ files' = files /\ applied' = applied /\ calls' = calls
  BY DEF Inv, PrefilterLine
<1>2. CASE mode' = "exited"
  BY <1>1, <1>2 DEF Inv, Shape, MapInv, OutputInv, AssertionsHold, PrefilterLine
<1>3. CASE mode' = "prefilter" /\ line_no' = line_no + 1
  <2>1. Shape'
    <3>1. DOMAIN best' = ResultFilterFunctions
      BY <1>1, <1>3 DEF PrefilterLine, Shape
    <3>2. line_no' \in 0..Len(Input.lines)
      BY <1>1, <1>3, FilesType DEF Shape
    <3> QED
      BY <1>1, <1>3, <3>1, <3>2 DEF Shape, Input
  <2>2. MapInv'
    BY <1>1, <1>3, PrefilterMap DEF MapInv
  <2>3. OutputInv'
    BY <1>1, <1>3 DEF Inv, OutputInv, Output
  <2> QED
    BY <1>3, <2>1, <2>2, <2>3 DEF Inv, AssertionsHold
<1> QED
  BY <1>1, <1>2, <1>3 DEF PrefilterLine

LEMMA RewindInv == ASSUME Inv, Rewind PROVE Inv'
<1>1. /\ mode = "prefilter" /\ mode' = "filter" /\ Shape /\ MapInv
      /\ line_no = Len(Input.lines) /\ line_no' = 0
      /\ files' = [files EXCEPT ![applied + 2].kind = "csv"]
      /\ calls' = calls /\ active' = active /\ best' = best /\ applied' = applied
      /\ Output.lines = <<>>
  BY DEF Inv, Rewind, OutputInv
<1>2. /\ applied + 1 \in 1..Len(files) /\ applied + 2 \in 1..Len(files)
      /\ Output \in Files /\ Len(Input.lines) \in Nat /\ files \in Seq(Files)
      /\ applied \in Nat
  BY <1>1, FilesType DEF Shape
<1> DEFINE out == [Output EXCEPT !.kind = "csv"]
<1>3. out \in Files /\ out.lines = <<>>
  BY <1>1, <1>2 DEF Files
<1>4. files' = [files EXCEPT ![applied + 2] = out]
  BY <1>1 DEF Output
<1> HIDE DEF out
<1>5. /\ files' \in Seq(Files) /\ Len(files') = Len(files)
      /\ files'[applied + 1] = files[applied + 1] /\ files'[applied + 2] = out
  <2> HIDE DEF Files
  <2> QED
    BY <1>2, <1>3, <1>4
<1>6. Input' = Input /\ Output' = out
  BY <1>1, <1>5 DEF Input, Output
<1>7. Shape'
  BY <1>1, <1>2, <1>5, <1>6 DEF Shape
<1>8. MapInv'
  <2> SUFFICES ASSUME NEW f \in Keeping
               PROVE  \/ Settled(f)'
                      \/ IF Contains(active, f) THEN MadeOf(f, Len(Input.lines))'
                         ELSE DOMAIN best[f] = {}
    BY <1>1 DEF MapInv
  <2>1. \/ Settled(f)
        \/ IF Contains(active, f) THEN MadeOf(f, Len(Input.lines)) ELSE DOMAIN best[f] = {}
    BY <1>1 DEF MapInv
  <2> QED
    BY <1>1, <1>6, <2>1 DEF Settled, MadeOf, Known
<1>9. OutputInv'
  BY <1>1, <1>3, <1>6 DEF OutputInv
<1> QED
  BY <1>1, <1>7, <1>8, <1>9 DEF Inv, AssertionsHold

\* A line is copied when every active filter takes it for the best of its kind.
LEMMA LineCopied ==
    ASSUME Inv, FilterLine, mode' = "filter", NEW f \in Keeping,
           ~\E g \in Evaluated(Line) : FiltersOut(g, Line),
           Contains(active, f) \/ DOMAIN best[f] # {}
    PROVE  /\ Known(f, Line)
           /\ Contains(active, f) => IsBest(f, Line)
<1>1. /\ mode = "filter" /\ Shape /\ MapInv /\ line_no < Len(Input.lines)
      /\ line_no + 1 \in 1..Len(Input.lines)
  BY FilesType DEF Inv, FilterLine, Shape
<1>2. CASE Contains(active, f)
  <2>1. ~FiltersOut(f, Line)
    BY <1>1, <1>2, AllEvaluated
  <2>2. IsBest(f, Line)
    BY <2>1 DEF FiltersOut, Keeping
  <2> QED
    BY <1>1, <1>2, <2>2, KnownWhileFiltering
<1>3. CASE ~Contains(active, f)
  BY <1>1, <1>3 DEF MapInv, Settled, Line
<1> QED
  BY <1>2, <1>3

LEMMA FilterLineInv == ASSUME Inv, FilterLine PROVE Inv'
<1>1. /\ mode = "filter" /\ Shape /\ MapInv /\ OutputInv /\ line_no < Len(Input.lines)
      /\ calls' = calls /\ active' = active /\ best' = best /\ applied' = applied
  BY DEF Inv, FilterLine
<1>2. /\ mode' = "filter" /\ line_no' = line_no + 1
      /\ files' = IF \E f \in Evaluated(Line) : FiltersOut(f, Line) THEN files
                  ELSE [files EXCEPT ![applied + 2].lines = Append(@, Line)]
  BY <1>1, NoAssertion DEF FilterLine
<1>3. /\ applied + 1 \in 1..Len(files) /\ applied + 2 \in 1..Len(files)
      /\ Output \in Files /\ Len(Input.lines) \in Nat /\ files \in Seq(Files)
      /\ applied \in Nat /\ line_no \in Nat /\ line_no + 1 \in 1..Len(Input.lines)
      /\ Line \in AllLines
  <2>1. line_no \in Nat /\ line_no + 1 \in 1..Len(Input.lines)
    BY <1>1, FilesType DEF Shape
  <2>2. Line \in AllLines
    BY <1>1, <2>1, FilesType DEF Line
  <2> QED
    BY <1>1, <2>1, <2>2, FilesType DEF Shape
<1>4. /\ Output.lines \in Seq(AllLines) /\ Len(Output.lines) \in Nat
  <2>1. Output.lines \in Seq(AllLines)
    <3> HIDE DEF AllLines
    <3> QED
      BY <1>3 DEF Files
  <2> QED
    BY <2>1
<1>5. /\ files' \in Seq(Files) /\ Len(files') = Len(files) /\ Input' = Input
      /\ Output'.lines = IF \E f \in Evaluated(Line) : FiltersOut(f, Line)
                         THEN Output.lines ELSE Append(Output.lines, Line)
  <2>1. CASE \E f \in Evaluated(Line) : FiltersOut(f, Line)
    BY <1>1, <1>2, <1>3, <2>1 DEF Input, Output
  <2>2. CASE ~\E f \in Evaluated(Line) : FiltersOut(f, Line)
    <3> DEFINE copied == Append(Output.lines, Line)
               out == [Output EXCEPT !.lines = copied]
    <3>1. copied \in Seq(AllLines)
      <4> HIDE DEF AllLines
      <4> QED
        BY <1>3, <1>4
    <3> HIDE DEF copied
    <3>2. out \in Files /\ out.lines = copied
      <4> HIDE DEF AllLines
      <4> QED
        BY <1>3, <3>1 DEF Files
    <3>3. files' = [files EXCEPT ![applied + 2] = out]
      BY <1>2, <2>2 DEF Output, copied
    <3> HIDE DEF out
    <3>4. /\ files' \in Seq(Files) /\ Len(files') = Len(files)
          /\ files'[applied + 1] = files[applied + 1] /\ files'[applied + 2] = out
      <4> HIDE DEF Files
      <4> QED
        BY <1>3, <3>2, <3>3
    <3>5. Output' = out /\ Input' = Input
      BY <1>1, <3>4 DEF Input, Output
    <3> QED
      BY <2>2, <3>2, <3>4, <3>5 DEF copied
  <2> QED
    BY <2>1, <2>2
<1>6. Shape'
  <2>1. line_no' \in 0..Len(Input.lines)
    BY <1>2, <1>3
  <2> QED
    BY <1>1, <1>2, <1>5, <2>1 DEF Shape
<1>7. MapInv'
  <2> SUFFICES ASSUME NEW f \in Keeping
               PROVE  \/ Settled(f)'
                      \/ IF Contains(active, f) THEN MadeOf(f, Len(Input.lines))'
                         ELSE DOMAIN best[f] = {}
    BY <1>1, <1>2 DEF MapInv
  <2>1. \/ Settled(f)
        \/ IF Contains(active, f) THEN MadeOf(f, Len(Input.lines)) ELSE DOMAIN best[f] = {}
    BY <1>1 DEF MapInv
  <2> QED
    BY <1>1, <1>5, <2>1 DEF Settled, MadeOf, Known
<1>8. OutputInv'
  <2> SUFFICES ASSUME NEW f \in Keeping
               PROVE  /\ Contains(active, f) \/ DOMAIN best[f] # {} =>
                           \A j \in 1..Len(Output'.lines) : Known(f, Output'.lines[j])
                      /\ Contains(active, f) =>
                           /\ \A j \in 1..Len(Output'.lines) :
                                 best[f][Kind(f, Output'.lines[j])].line_no \in 0..line_no
                           /\ \A j, k \in 1..Len(Output'.lines) :
                                 Kind(f, Output'.lines[j]) = Kind(f, Output'.lines[k])
                                   => j = k
    <3>1. (line_no + 1) - 1 = line_no
      BY <1>3
    <3> QED
      BY <1>1, <1>2, <3>1 DEF OutputInv, Known
  <2> DEFINE old == Output.lines
  <2>1. /\ Contains(active, f) \/ DOMAIN best[f] # {} =>
              \A j \in 1..Len(old) : Known(f, old[j])
        /\ Contains(active, f) =>
              /\ \A j \in 1..Len(old) :
                    best[f][Kind(f, old[j])].line_no \in 0..(line_no - 1)
              /\ \A j, k \in 1..Len(old) : Kind(f, old[j]) = Kind(f, old[k]) => j = k
    BY <1>1 DEF OutputInv
  <2>2. CASE \E g \in Evaluated(Line) : FiltersOut(g, Line)
    <3>1. Output'.lines = old
      BY <1>5, <2>2
    <3>2. \A x \in 0..(line_no - 1) : x \in 0..line_no
      BY <1>3
    <3> QED
      BY <2>1, <3>1, <3>2
  <2>3. CASE ~\E g \in Evaluated(Line) : FiltersOut(g, Line)
    <3>1. /\ Len(Output'.lines) = Len(old) + 1
          /\ \A j \in 1..Len(old) : Output'.lines[j] = old[j]
          /\ Output'.lines[Len(old) + 1] = Line
      <4> HIDE DEF AllLines
      <4>1. Output'.lines = Append(old, Line)
        BY <1>5, <2>3
      <4> QED
        BY <1>3, <1>4, <4>1
    <3>2. \A j \in 1..Len(Output'.lines) : j \in 1..Len(old) \/ j = Len(old) + 1
      BY <1>4, <3>1
    <3>3. Contains(active, f) \/ DOMAIN best[f] # {} =>
             Known(f, Line) /\ (Contains(active, f) => IsBest(f, Line))
      BY <1>2, <2>3, LineCopied
    <3>4. Contains(active, f) => best[f][Kind(f, Line)].line_no = line_no
      BY <3>3 DEF IsBest
    <3>5. ASSUME Contains(active, f), NEW j \in 1..Len(old)
          PROVE  /\ best[f][Kind(f, old[j])].line_no \in 0..line_no
                 /\ Kind(f, old[j]) # Kind(f, Line)
      <4>1. best[f][Kind(f, old[j])].line_no \in 0..(line_no - 1)
        BY <2>1, <3>5
      <4>2. Kind(f, old[j]) # Kind(f, Line)
        BY <1>3, <3>4, <3>5, <4>1
      <4> QED
        BY <1>3, <4>1, <4>2
    <3>6. Contains(active, f) \/ DOMAIN best[f] # {} =>
             \A j \in 1..Len(Output'.lines) : Known(f, Output'.lines[j])
      BY <2>1, <3>1, <3>2, <3>3
    <3>7. Contains(active, f) => \A j \in 1..Len(Output'.lines) :
             best[f][Kind(f, Output'.lines[j])].line_no \in 0..line_no
      <4> SUFFICES ASSUME Contains(active, f), NEW j \in 1..Len(Output'.lines)
                   PROVE  best[f][Kind(f, Output'.lines[j])].line_no \in 0..line_no
        OBVIOUS
      <4>1. CASE j \in 1..Len(old)
        BY <3>1, <3>5, <4>1
      <4>2. CASE j = Len(old) + 1
        <5>1. line_no \in 0..line_no
          BY <1>3
        <5> QED
          BY <3>1, <3>4, <4>2, <5>1
      <4> QED
        BY <3>2, <4>1, <4>2
    <3>8. Contains(active, f) => \A j, k \in 1..Len(Output'.lines) :
             Kind(f, Output'.lines[j]) = Kind(f, Output'.lines[k]) => j = k
      BY <2>1, <3>1, <3>2, <3>5
    <3> QED
      BY <3>6, <3>7, <3>8
  <2> QED
    BY <2>2, <2>3
<1> QED
  BY <1>2, <1>6, <1>7, <1>8 DEF Inv, AssertionsHold

\* What was written is read next: a filter that was active, or whose map held
\* anything, finds the timing of every line there.
LEMMA CloseFilesInv == ASSUME Inv, CloseFiles PROVE Inv'
<1>1. /\ mode = "filter" /\ mode' = "caller" /\ Shape /\ MapInv /\ OutputInv
      /\ applied' = applied + 1
      /\ calls' = calls /\ active' = active /\ best' = best /\ files' = files
  BY DEF Inv, CloseFiles
<1>2. applied \in Nat /\ (applied + 1) + 1 = applied + 2
  BY <1>1 DEF Shape
<1>3. Input' = Output
  BY <1>1, <1>2 DEF Input, Output
<1>4. Shape'
  <2>1. Applications(calls) \in Nat
    BY <1>1, ApplicationsType DEF Shape
  <2> QED
    BY <1>1, <2>1 DEF Shape
<1>5. MapInv'
  BY <1>1, <1>3 DEF MapInv, OutputInv, Settled, Known
<1> QED
  BY <1>1, <1>4, <1>5 DEF Inv, OutputInv, AssertionsHold

LEMMA NextInv == Inv /\ [Next]_vars => Inv'
<1> SUFFICES ASSUME Inv, [Next]_vars PROVE Inv'
  OBVIOUS
<1>1. CASE EnableFilter \/ DisableFilter \/ ClearAllFilters \/ Finish
  BY <1>1, CallerInv
<1>2. CASE OpenFiles
  BY <1>2, OpenFilesInv
<1>3. CASE PrefilterLine
  BY <1>3, PrefilterLineInv
<1>4. CASE Rewind
  BY <1>4, RewindInv
<1>5. CASE FilterLine
  BY <1>5, FilterLineInv
<1>6. CASE CloseFiles
  BY <1>6, CloseFilesInv
<1>7. CASE UNCHANGED vars
  <2> USE <1>7 DEF vars
  <2>1. Shape'
    BY DEF Inv, Shape, Input
  <2>2. MapInv'
    BY DEF Inv, MapInv, Settled, MadeOf, Known, Input
  <2>3. OutputInv'
    BY DEF Inv, OutputInv, Known, Output
  <2> QED
    BY <2>1, <2>2, <2>3 DEF Inv, AssertionsHold
<1> QED
  BY <1>1, <1>2, <1>3, <1>4, <1>5, <1>6, <1>7 DEF Next, Ended

-----------------------------------------------------------------------------
(* The theorems *)

\* In every state a map of best lines is empty, made of the lines read so far,
\* or settled by an earlier application to the chain of files.
THEOREM Invariance == Spec => []Inv
<1> QED
  BY InitInv, NextInv, PTL DEF Spec

\* The assertions of the filters (filter.cc:109, 144) hold for any files, any
\* list of calls and any filters that are active together.
THEOREM AssertionsNeverFail == Spec => []AssertionsHold
<1>1. Inv => AssertionsHold
  BY DEF Inv
<1> QED
  BY <1>1, Invariance, PTL

\* A file written with a filter that keeps one line of each kind has no two
\* lines of a kind, for any files and any list of calls.
THEOREM NoTwoOfAKind == Spec => NeverTwoOfAKind
<1> DEFINE Distinct == mode = "filter" /\ mode' = "caller" =>
              \A i \in DOMAIN active : active[i] \in Keeping =>
                 \A j, k \in DOMAIN Output.lines :
                    Kind(active[i], Output.lines[j]) = Kind(active[i], Output.lines[k])
                      => j = k
<1>1. Inv => Distinct
  <2> SUFFICES ASSUME Inv, mode = "filter",
                      NEW i \in DOMAIN active, active[i] \in Keeping
               PROVE  \A j, k \in DOMAIN Output.lines :
                        Kind(active[i], Output.lines[j]) = Kind(active[i], Output.lines[k])
                          => j = k
    OBVIOUS
  <2>1. Contains(active, active[i])
    BY DEF Inv, Shape, Contains
  <2>2. Output \in Files
    BY FilesType DEF Inv
  <2>3. DOMAIN Output.lines = 1..Len(Output.lines)
    <3> HIDE DEF AllLines
    <3> QED
      BY <2>2 DEF Files
  <2> QED
    BY <2>1, <2>3 DEF Inv, OutputInv
<1>2. Inv => [Distinct]_vars
  BY <1>1
<1> QED
  BY <1>2, Invariance, PTL DEF NeverTwoOfAKind

-----------------------------------------------------------------------------
(* Types, and the order of the lines *)

\* The file has, in order, some of the first n lines of the other.
CopyOf(new, old, n) == \E is \in SUBSET (1..n) : new.lines = At(old.lines, is)

OrderInv ==
    /\ \A n \in 1..applied : CopyOf(files[n + 1], files[n], Len(files[n].lines))
    /\ mode = "filter" => CopyOf(Output, Input, line_no)

\* A file has at most as many lines as the input of the first application, so
\* that line_no stays within it.
StepInv ==
    /\ program \in Programs
    /\ mode \in {"caller", "prefilter", "filter", "done", "exited", "aborted"}
    /\ \A i, j \in 1..Len(active) : active[i] = active[j] => i = j
    /\ Len(files) = Applications(program) + 1
    /\ applied \in 0..Applications(program)
    /\ line_no \in 0..Len(files[1].lines)
    /\ mode \in {"caller", "prefilter", "filter"} =>
          Len(Input.lines) <= Len(files[1].lines)

LEMMA LinesType == \A line \in AllLines : ResultLineData(line)
<1> SUFFICES ASSUME NEW line \in AllLines PROVE ResultLineData(line)
  OBVIOUS
<1>1. CASE line = Stale
  BY <1>1 DEF Stale, ResultLineData, Roles
<1>2. CASE \E f \in Inputs : line \in ToSet(f.lines)
  BY <1>2, InputsAssumption DEF File, ToSet
<1> QED
  BY <1>1, <1>2 DEF AllLines

LEMMA FileType == \A f \in Files : File(f) /\ Len(f.lines) \in Nat
<1> SUFFICES ASSUME NEW f \in Files PROVE File(f) /\ Len(f.lines) \in Nat
  OBVIOUS
<1>1. /\ f = [kind |-> f.kind, lines |-> f.lines]
      /\ f.kind \in {"missing", "headless", "csv"} /\ f.lines \in Seq(AllLines)
  BY DEF Files
<1> DEFINE s == f.lines
<1>2. /\ Len(s) \in Nat /\ DOMAIN s = 1..Len(s) /\ s = [i \in 1..Len(s) |-> s[i]]
      /\ \A i \in 1..Len(s) : s[i] \in AllLines
  <2> HIDE DEF AllLines, s
  <2> QED
    BY <1>1 DEF s
<1>3. s \in Seq(ToSet(s))
  <2> DEFINE T == ToSet(s)
  <2>1. \A i \in 1..Len(s) : s[i] \in T
    BY <1>2 DEF ToSet
  <2> HIDE DEF T, s
  <2>2. s \in Seq(T)
    BY <1>2, <2>1
  <2> QED
    BY <2>2 DEF T
<1> QED
  BY <1>1, <1>2, <1>3, LinesType DEF File

\* Writing to the output leaves the other files alone.
LEMMA OutputWritten ==
    ASSUME Shape, StepInv, applied + 2 \in 1..Len(files), NEW f,
           files' = [files EXCEPT ![applied + 2] = f]
    PROVE  /\ Len(files') = Len(files)
           /\ files'[applied + 2] = f
           /\ \A n \in 1..(applied + 1) : files'[n] = files[n]
<1>1. files \in Seq(Files) /\ applied \in Nat
  BY DEF Shape
<1> HIDE DEF Files
<1> QED
  BY <1>1

LEMMA StepTypes ==
    ASSUME Shape, StepInv
    PROVE  /\ files \in Seq(Files) /\ applied \in Nat
           /\ Applications(program) \in Nat
           /\ files[1] \in Files /\ Len(files[1].lines) \in Nat
<1>1. Applications(program) \in Nat
  BY ProgramsAssumption, ApplicationsType DEF StepInv
<1>2. files \in Seq(Files) /\ applied \in Nat /\ 1 \in 1..Len(files)
  BY <1>1 DEF Shape, StepInv
<1>3. files[1] \in Files
  <2> HIDE DEF Files
  <2> QED
    BY <1>2
<1> QED
  BY <1>1, <1>2, <1>3, FileType

LEMMA InitStepInv == Init => StepInv /\ OrderInv
<1> SUFFICES ASSUME Init PROVE StepInv /\ OrderInv
  OBVIOUS
<1>1. Shape /\ calls = program /\ applied = 0 /\ mode = "caller"
  BY InitInv DEF Init, Inv
<1>2. Applications(program) \in Nat
  BY <1>1, ApplicationsType DEF Shape
<1>3. Len(files) = Applications(program) + 1
  BY <1>1, <1>2 DEF Shape
<1>4. files[1] \in Files
  <2>1. files \in Seq(Files) /\ 1 \in 1..Len(files)
    BY <1>1, <1>2, <1>3 DEF Shape
  <2> HIDE DEF Files
  <2> QED
    BY <2>1
<1>5. Len(files[1].lines) \in Nat /\ Input = files[1]
  BY <1>1, <1>4, FileType DEF Input
<1> QED
  BY <1>1, <1>2, <1>3, <1>5 DEF Init, StepInv, OrderInv

LEMMA CallerStep ==
    ASSUME Inv, StepInv, OrderInv, EnableFilter \/ DisableFilter \/ ClearAllFilters \/ Finish
    PROVE  StepInv' /\ OrderInv'
<1>1. /\ files' = files /\ applied' = applied /\ line_no' = line_no /\ program' = program
      /\ mode = "caller" /\ mode' \in {"caller", "done"}
      /\ active \in Seq(ResultFilterFunctions)
  BY DEF Inv, Shape, EnableFilter, DisableFilter, ClearAllFilters, Finish, Called
<1>2. \A i, j \in 1..Len(active') : active'[i] = active'[j] => i = j
  <2>1. CASE EnableFilter
    <3>1. CASE Contains(active, Head(calls).filter)
      BY <2>1, <3>1 DEF EnableFilter, StepInv
    <3>2. CASE ~Contains(active, Head(calls).filter)
      <4> DEFINE f == Head(calls).filter
      <4>1. \A i \in 1..Len(active) : active[i] # f
        BY <3>2 DEF Contains
      <4>2. active' = Append(active, f)
        BY <2>1, <3>2 DEF EnableFilter
      <4> HIDE DEF f
      <4>3. /\ Len(active') = Len(active) + 1
            /\ \A i \in 1..Len(active) : active'[i] = active[i]
            /\ active'[Len(active) + 1] = f
        BY <1>1, <4>2
      <4> QED
        BY <1>1, <4>1, <4>3 DEF StepInv
    <3> QED
      BY <3>1, <3>2
  <2>2. CASE DisableFilter
    BY <1>1, <2>2, RemoveFirstType DEF DisableFilter, StepInv
  <2>3. CASE ClearAllFilters
    BY <2>3 DEF ClearAllFilters
  <2>4. CASE Finish
    BY <2>4 DEF Finish, StepInv
  <2> QED
    BY <2>1, <2>2, <2>3, <2>4
<1>3. StepInv'
  BY <1>1, <1>2 DEF StepInv, Input
<1> QED
  BY <1>1, <1>3 DEF OrderInv, CopyOf

LEMMA OpenFilesStep ==
    ASSUME Inv, Inv', StepInv, OrderInv, OpenFiles PROVE StepInv' /\ OrderInv'
<1>1. /\ applied' = applied /\ line_no' = 0 /\ program' = program /\ active' = active
      /\ mode = "caller" /\ mode' \in {"prefilter", "exited"}
      /\ files' = IF Input.kind = "missing" THEN files
                  ELSE [files EXCEPT ![applied + 2] = Truncated]
      /\ Shape
  BY DEF Inv, OpenFiles, Called
<1>2. applied \in Nat /\ applied + 2 \in 1..Len(files)
  <2>1. /\ calls \in Seq(Calls) /\ calls # <<>> /\ Head(calls).op = "apply"
        /\ Len(files) = applied + Applications(calls) + 1 /\ applied \in Nat
    BY <1>1 DEF Shape, OpenFiles, Called
  <2>2. Tail(calls) \in Seq(Calls)
    BY <2>1
  <2>3. Applications(calls) = Applications(Tail(calls)) + 1
    BY <2>1, ApplicationsOfTail
  <2>4. Applications(Tail(calls)) \in Nat
    BY <2>2, ApplicationsType
  <2> QED
    BY <2>1, <2>3, <2>4
<1>3. Len(files') = Len(files) /\ \A n \in 1..(applied + 1) : files'[n] = files[n]
  BY <1>1, <1>2, OutputWritten
<1>4. Input' = Input /\ files'[1] = files[1]
  BY <1>1, <1>2, <1>3 DEF Input
<1>5. Len(files[1].lines) \in Nat
  BY <1>1, StepTypes
<1>6. StepInv'
  BY <1>1, <1>3, <1>4, <1>5 DEF StepInv
<1>7. OrderInv'
  <2> SUFFICES ASSUME NEW n \in 1..applied
               PROVE  CopyOf(files'[n + 1], files'[n], Len(files'[n].lines))
    BY <1>1 DEF OrderInv, CopyOf
  <2>1. n \in 1..(applied + 1) /\ n + 1 \in 1..(applied + 1)
    BY <1>2
  <2> QED
    BY <1>3, <2>1 DEF OrderInv
<1> QED
  BY <1>6, <1>7

LEMMA PrefilterLineStep ==
    ASSUME Inv, StepInv, OrderInv, PrefilterLine PROVE StepInv' /\ OrderInv'
<1>1. /\ applied' = applied /\ files' = files /\ program' = program /\ active' = active
      /\ mode = "prefilter" /\ mode' \in {"prefilter", "exited"}
      /\ line_no' = line_no \/ line_no' = line_no + 1
      /\ line_no < Len(Input.lines) /\ Shape
  BY DEF Inv, PrefilterLine
<1>2. line_no' \in 0..Len(files[1].lines)
  <2>1. Len(Input.lines) <= Len(files[1].lines) /\ line_no \in 0..Len(files[1].lines)
    BY <1>1 DEF StepInv
  <2>2. Len(files[1].lines) \in Nat /\ Len(Input.lines) \in Nat
    BY <1>1, StepTypes, FilesType
  <2> QED
    BY <1>1, <2>1, <2>2
<1>3. StepInv'
  BY <1>1, <1>2 DEF StepInv, Input
<1> QED
  BY <1>1, <1>3 DEF OrderInv, CopyOf

LEMMA RewindStep ==
    ASSUME Inv, StepInv, OrderInv, Rewind PROVE StepInv' /\ OrderInv'
<1> DEFINE out == [Output EXCEPT !.kind = "csv"]
<1>1. /\ applied' = applied /\ line_no' = 0 /\ program' = program /\ active' = active
      /\ mode = "prefilter" /\ mode' = "filter"
      /\ files' = [files EXCEPT ![applied + 2] = out]
      /\ Shape /\ Output.lines = <<>>
  BY DEF Inv, Rewind, OutputInv, Output
<1>2. applied \in Nat /\ applied + 2 \in 1..Len(files) /\ Output \in Files
  BY <1>1, FilesType DEF Shape
<1>3. /\ Len(files') = Len(files) /\ files'[applied + 2] = out
      /\ \A n \in 1..(applied + 1) : files'[n] = files[n]
  <2> HIDE DEF out
  <2> QED
    BY <1>1, <1>2, OutputWritten
<1>4. Input' = Input /\ files'[1] = files[1] /\ Output'.lines = <<>>
  BY <1>1, <1>2, <1>3 DEF Input, Output, Files
<1>5. Len(files[1].lines) \in Nat
  BY <1>1, StepTypes
<1>6. StepInv'
  BY <1>1, <1>3, <1>4, <1>5 DEF StepInv
<1>7. CopyOf(Output', Input', 0)
  <2>1. At(Input.lines, {}) = <<>>
    BY FS_EmptySet DEF At
  <2> QED
    BY <1>4, <2>1 DEF CopyOf
<1>8. \A n \in 1..applied : CopyOf(files'[n + 1], files'[n], Len(files'[n].lines))
  <2> SUFFICES ASSUME NEW n \in 1..applied
               PROVE  CopyOf(files'[n + 1], files'[n], Len(files'[n].lines))
    OBVIOUS
  <2>1. n \in 1..(applied + 1) /\ n + 1 \in 1..(applied + 1)
    BY <1>2
  <2> QED
    BY <1>3, <2>1 DEF OrderInv
<1> QED
  BY <1>1, <1>6, <1>7, <1>8 DEF OrderInv, CopyOf

\* The line is copied or not, and nothing else is written.
LEMMA FilterLineWrites ==
    ASSUME Inv, StepInv, FilterLine
    PROVE  /\ applied' = applied /\ program' = program /\ active' = active
           /\ calls' = calls /\ best' = best
           /\ mode = "filter" /\ mode' = "filter"
           /\ line_no < Len(Input.lines) /\ line_no' = line_no + 1
           /\ applied \in Nat /\ applied + 2 \in 1..Len(files) /\ Output \in Files
           /\ Len(Input.lines) \in Nat /\ line_no \in Nat
           /\ Len(files') = Len(files)
           /\ \A n \in 1..(applied + 1) : files'[n] = files[n]
           /\ IF \E f \in Evaluated(Line) : FiltersOut(f, Line) THEN Output' = Output
              ELSE Output'.lines = Append(Output.lines, Line)
           /\ Input' = Input /\ files'[1] = files[1]
<1>1. /\ applied' = applied /\ program' = program /\ active' = active
      /\ calls' = calls /\ best' = best
      /\ mode = "filter" /\ Shape /\ MapInv /\ line_no < Len(Input.lines)
  BY DEF Inv, FilterLine
<1>2. /\ mode' = "filter" /\ line_no' = line_no + 1
      /\ files' = IF \E f \in Evaluated(Line) : FiltersOut(f, Line) THEN files
                  ELSE [files EXCEPT ![applied + 2].lines = Append(@, Line)]
  BY <1>1, NoAssertion DEF FilterLine
<1>3. /\ applied \in Nat /\ applied + 2 \in 1..Len(files) /\ Output \in Files
      /\ Len(Input.lines) \in Nat /\ line_no \in Nat
  BY <1>1, FilesType DEF Shape
<1>4. /\ Len(files') = Len(files)
      /\ \A n \in 1..(applied + 1) : files'[n] = files[n]
      /\ IF \E f \in Evaluated(Line) : FiltersOut(f, Line) THEN Output' = Output
         ELSE Output'.lines = Append(Output.lines, Line)
  <2>1. CASE \E f \in Evaluated(Line) : FiltersOut(f, Line)
    BY <1>1, <1>2, <2>1 DEF Output
  <2>2. CASE ~\E f \in Evaluated(Line) : FiltersOut(f, Line)
    <3> DEFINE out == [Output EXCEPT !.lines = Append(Output.lines, Line)]
    <3>1. files' = [files EXCEPT ![applied + 2] = out]
      BY <1>2, <2>2 DEF Output
    <3>2. out.lines = Append(Output.lines, Line)
      BY <1>3 DEF Files
    <3> HIDE DEF out
    <3>3. /\ Len(files') = Len(files) /\ files'[applied + 2] = out
          /\ \A n \in 1..(applied + 1) : files'[n] = files[n]
      BY <1>1, <1>3, <3>1, OutputWritten
    <3> QED
      BY <1>1, <2>2, <3>2, <3>3 DEF Output
  <2> QED
    BY <2>1, <2>2
<1>5. Input' = Input /\ files'[1] = files[1]
  BY <1>1, <1>3, <1>4 DEF Input
<1> QED
  BY <1>1, <1>2, <1>3, <1>4, <1>5

\* A line that is copied follows those copied before it.
LEMMA FilterLineStep ==
    ASSUME Inv, StepInv, OrderInv, FilterLine PROVE StepInv' /\ OrderInv'
<1>1. /\ applied' = applied /\ program' = program /\ active' = active
      /\ mode = "filter" /\ Shape /\ MapInv /\ line_no < Len(Input.lines)
  BY DEF Inv, FilterLine
<1>2. mode' = "filter" /\ line_no' = line_no + 1
  BY FilterLineWrites
<1>3. /\ applied \in Nat /\ applied + 2 \in 1..Len(files) /\ Output \in Files
      /\ Len(Input.lines) \in Nat /\ line_no \in Nat
  BY FilterLineWrites
<1>4. /\ Len(files') = Len(files)
      /\ \A n \in 1..(applied + 1) : files'[n] = files[n]
      /\ \/ Output' = Output
         \/ Output'.lines = Append(Output.lines, Line)
  BY FilterLineWrites
<1>5. Input' = Input /\ files'[1] = files[1]
  BY FilterLineWrites
<1>6. line_no' \in 0..Len(files[1].lines)
  <2>1. Len(Input.lines) <= Len(files[1].lines) /\ Len(files[1].lines) \in Nat
    BY <1>1, StepTypes DEF StepInv
  <2> QED
    BY <1>1, <1>2, <1>3, <2>1
<1>7. StepInv'
  BY <1>1, <1>2, <1>4, <1>5, <1>6 DEF StepInv
<1>8. CopyOf(Output', Input', line_no')
  <2>1. PICK is \in SUBSET (1..line_no) : Output.lines = At(Input.lines, is)
    BY <1>1 DEF OrderInv, CopyOf
  <2>2. CASE Output' = Output
    <3>1. is \in SUBSET (1..line_no')
      BY <1>2, <1>3
    <3> QED
      BY <1>5, <2>1, <2>2, <3>1 DEF CopyOf
  <2>3. CASE Output'.lines = Append(Output.lines, Line)
    <3> DEFINE old == Output.lines
               c   == Cardinality(is)
               new == is \cup {line_no + 1}
    <3>1. old \in Seq(AllLines)
      BY <1>3 DEF Files
    <3>2. /\ c \in Nat
          /\ At(Input.lines, new) =
                [n \in 1..(c + 1) |-> IF n <= c THEN At(Input.lines, is)[n]
                                      ELSE Input.lines[line_no + 1]]
      <4> DEFINE lines == Input.lines
                 m     == line_no
      <4>1. m \in Nat /\ is \in SUBSET (1..m)
        BY <1>3, <2>1
      <4> HIDE DEF lines, m
      <4>2. /\ Cardinality(is) \in 0..m
            /\ At(lines, is \cup {m + 1}) =
                  [n \in 1..(Cardinality(is) + 1) |->
                     IF n <= Cardinality(is) THEN At(lines, is)[n] ELSE lines[m + 1]]
        BY <4>1, AtExtended
      <4> QED
        BY <4>1, <4>2 DEF c, lines, m
    <3>3. DOMAIN old = 1..c
      BY <2>1 DEF At
    <3> HIDE DEF old, c, AllLines
    <3>4. Len(old) = c
      BY <3>1, <3>2, <3>3
    <3>5. Append(old, Line) = [n \in 1..(c + 1) |-> IF n <= c THEN old[n] ELSE Line]
      <4>1. Line \in AllLines
        BY <1>1, <1>3, FilesType DEF Line
      <4> QED
        BY <3>1, <3>4, <4>1, Appended
    <3>6. Output'.lines = At(Input.lines, new)
      BY <2>1, <2>3, <3>2, <3>5 DEF old, Line
    <3>7. new \in SUBSET (1..line_no')
      BY <1>2, <1>3
    <3> QED
      BY <1>5, <3>6, <3>7 DEF CopyOf
  <2> QED
    BY <1>4, <2>2, <2>3
<1>9. \A n \in 1..applied : CopyOf(files'[n + 1], files'[n], Len(files'[n].lines))
  <2> SUFFICES ASSUME NEW n \in 1..applied
               PROVE  CopyOf(files'[n + 1], files'[n], Len(files'[n].lines))
    OBVIOUS
  <2>1. n \in 1..(applied + 1) /\ n + 1 \in 1..(applied + 1)
    BY <1>3
  <2> QED
    BY <1>4, <2>1 DEF OrderInv
<1> QED
  BY <1>1, <1>7, <1>8, <1>9 DEF OrderInv, CopyOf

LEMMA CloseFilesStep ==
    ASSUME Inv, StepInv, OrderInv, CloseFiles PROVE StepInv' /\ OrderInv'
<1>1. /\ applied' = applied + 1 /\ files' = files /\ line_no' = line_no
      /\ program' = program /\ active' = active
      /\ mode = "filter" /\ mode' = "caller" /\ line_no = Len(Input.lines) /\ Shape
  BY DEF Inv, CloseFiles
<1>2. /\ applied \in Nat /\ (applied + 1) + 1 = applied + 2
      /\ Len(files) = applied + Applications(calls) + 2 /\ Applications(calls) \in Nat
      /\ Output \in Files /\ Len(Input.lines) \in Nat
  <2>1. /\ applied \in Nat /\ calls \in Seq(Calls)
        /\ Len(files) = applied + Applications(calls) + 2
    BY <1>1 DEF Shape
  <2>2. Applications(calls) \in Nat
    BY <2>1, ApplicationsType
  <2>3. Output \in Files /\ Len(Input.lines) \in Nat
    BY <1>1, FilesType
  <2> QED
    BY <2>1, <2>2, <2>3
<1>3. Input' = Output
  BY <1>1, <1>2 DEF Input, Output
<1>4. applied' \in 0..Applications(program)
  <2>1. Len(files) = Applications(program) + 1 /\ Applications(program) \in Nat
    BY <1>1, StepTypes DEF StepInv
  <2> QED
    BY <1>1, <1>2, <2>1
<1>5. CopyOf(Output, Input, Len(Input.lines))
  BY <1>1 DEF OrderInv
<1>6. Len(Output.lines) <= Len(Input.lines)
  <2>1. PICK is \in SUBSET (1..Len(Input.lines)) : Output.lines = At(Input.lines, is)
    BY <1>5 DEF CopyOf
  <2>2. Cardinality(is) \in 0..Len(Input.lines)
    BY <1>2, AtExtended
  <2>3. Output.lines \in Seq(AllLines)
    BY <1>2 DEF Files
  <2> DEFINE old == Output.lines
  <2>4. DOMAIN old = 1..Cardinality(is)
    BY <2>1 DEF At
  <2> HIDE DEF old, AllLines
  <2>5. Len(old) = Cardinality(is)
    BY <2>2, <2>3, <2>4 DEF old
  <2> QED
    BY <2>2, <2>5 DEF old
<1>7. StepInv'
  <2>1. Len(Input.lines) <= Len(files[1].lines) /\ Len(files[1].lines) \in Nat
    BY <1>1, StepTypes DEF StepInv
  <2>2. Len(Output.lines) \in Nat
    BY <1>2, FileType
  <2>3. Len(Output.lines) <= Len(files[1].lines)
    BY <1>2, <1>6, <2>1, <2>2
  <2> QED
    BY <1>1, <1>3, <1>4, <2>3 DEF StepInv
<1>8. OrderInv'
  <2> SUFFICES ASSUME NEW n \in 1..(applied + 1)
               PROVE  CopyOf(files[n + 1], files[n], Len(files[n].lines))
    BY <1>1 DEF OrderInv
  <2>1. CASE n \in 1..applied
    BY <2>1 DEF OrderInv
  <2>2. CASE n = applied + 1
    BY <1>2, <1>5, <2>2 DEF Input, Output
  <2> QED
    BY <1>2, <2>1, <2>2
<1> QED
  BY <1>7, <1>8

LEMMA NextStepInv == Inv /\ StepInv /\ OrderInv /\ [Next]_vars => StepInv' /\ OrderInv'
<1> SUFFICES ASSUME Inv, StepInv, OrderInv, [Next]_vars PROVE StepInv' /\ OrderInv'
  OBVIOUS
<1>1. CASE EnableFilter \/ DisableFilter \/ ClearAllFilters \/ Finish
  BY <1>1, CallerStep
<1>2. CASE OpenFiles
  BY <1>2, OpenFilesInv, OpenFilesStep
<1>3. CASE PrefilterLine
  BY <1>3, PrefilterLineStep
<1>4. CASE Rewind
  BY <1>4, RewindStep
<1>5. CASE FilterLine
  BY <1>5, FilterLineStep
<1>6. CASE CloseFiles
  BY <1>6, CloseFilesStep
<1>7. CASE UNCHANGED vars
  BY <1>7 DEF vars, StepInv, OrderInv, CopyOf, Input, Output
<1> QED
  BY <1>1, <1>2, <1>3, <1>4, <1>5, <1>6, <1>7 DEF Next, Ended

LEMMA StepInvariance == Spec => [](Inv /\ StepInv /\ OrderInv)
<1> QED
  BY InitInv, NextInv, InitStepInv, NextStepInv, PTL DEF Spec

\* The files have result lines whatever was applied to them, no filter is active
\* twice, and no application reads past what the first was given.
THEOREM TypesOK == Spec => []TypeOK
<1>1. Inv /\ StepInv => TypeOK
  <2> SUFFICES ASSUME Inv, StepInv PROVE TypeOK
    OBVIOUS
  <2>1. /\ DOMAIN active = 1..Len(active)
        /\ \A i \in 1..Len(active) : active[i] \in ResultFilterFunctions
    BY DEF Inv, Shape
  <2>2. \A n \in DOMAIN files : File(files[n])
    <3>1. \A n \in DOMAIN files : files[n] \in Files
      <4>1. files \in Seq(Files)
        BY DEF Inv, Shape
      <4> HIDE DEF Files
      <4> QED
        BY <4>1
    <3> QED
      BY <3>1, FileType
  <2> QED
    BY <2>1, <2>2 DEF Inv, Shape, StepInv, TypeOK
<1> QED
  BY <1>1, StepInvariance, PTL

\* Whatever the calls, a written file holds lines of its input in their order.
THEOREM CopiesKeepOrder == Spec => []CopiesInOrder
<1>1. Inv /\ StepInv /\ OrderInv => CopiesInOrder
  <2> SUFFICES ASSUME Inv, StepInv, OrderInv, NEW n \in 1..applied
               PROVE  \E is \in SUBSET DOMAIN files[n].lines :
                         files[n + 1].lines = At(files[n].lines, is)
    BY DEF CopiesInOrder
  <2>1. n \in 1..Len(files)
    <3>1. Applications(program) \in Nat
      BY StepTypes DEF Inv
    <3> QED
      BY <3>1 DEF StepInv
  <2>2. files[n] \in Files
    <3>1. files \in Seq(Files)
      BY DEF Inv, Shape
    <3> HIDE DEF Files
    <3> QED
      BY <2>1, <3>1
  <2>3. DOMAIN files[n].lines = 1..Len(files[n].lines)
    <3> HIDE DEF AllLines
    <3> QED
      BY <2>2 DEF Files
  <2> QED
    BY <2>3 DEF OrderInv, CopyOf
<1> QED
  BY <1>1, StepInvariance, PTL

-----------------------------------------------------------------------------
(* The filter stage of main *)

\* The sequence has the chosen lines in their order: h tells where they are from.
Selects(h, new, old, is) ==
    /\ h \in [1..Len(new) -> is]
    /\ \A k \in 1..Len(new) : new[k] = old[h[k]]
    /\ \A j, k \in 1..Len(new) : j < k => h[j] < h[k]
    /\ \A i \in is : \E k \in 1..Len(new) : h[k] = i

Selected(new, old, is) == \E h : Selects(h, new, old, is)

\* There is one sequence of the chosen lines in their order.
LEMMA SelectedAt ==
    ASSUME NEW new \in Seq(AllLines), NEW old, NEW is \in SUBSET Nat, Selected(new, old, is)
    PROVE  new = At(old, is)
<1>1. PICK h : Selects(h, new, old, is)
  BY DEF Selected
<1> DEFINE n == Len(new)
           below(i) == {j \in is : j < i}
<1>2. n \in Nat /\ new = [k \in 1..n |-> new[k]]
  <2> HIDE DEF AllLines
  <2> QED
    OBVIOUS
<1>3. /\ h \in [1..n -> is]
      /\ \A k \in 1..n : new[k] = old[h[k]]
      /\ \A j, k \in 1..n : j < k => h[j] < h[k]
      /\ \A i \in is : \E k \in 1..n : h[k] = i
  BY <1>1 DEF Selects
<1> HIDE DEF n
<1>4. \A j, k \in 1..n : h[j] < h[k] <=> j < k
  <2> SUFFICES ASSUME NEW j \in 1..n, NEW k \in 1..n PROVE h[j] < h[k] <=> j < k
    OBVIOUS
  <2>1. j \in Int /\ k \in Int /\ h[j] \in Int /\ h[k] \in Int
    BY <1>2, <1>3
  <2>2. (j < k => h[j] < h[k]) /\ (k < j => h[k] < h[j])
    BY <1>3
  <2> QED
    BY <2>1, <2>2
<1>5. h \in Bijection(1..n, is)
  <2>1. \A j, k \in 1..n : h[j] = h[k] => j = k
    <3> SUFFICES ASSUME NEW j \in 1..n, NEW k \in 1..n, h[j] = h[k] PROVE j = k
      OBVIOUS
    <3>1. j \in Int /\ k \in Int /\ h[j] \in Int /\ h[k] \in Int
      BY <1>2, <1>3
    <3>2. ~(j < k) /\ ~(k < j)
      BY <1>3, <3>1
    <3> QED
      BY <3>1, <3>2
  <2> QED
    BY <1>3, <2>1 DEF Bijection, Injection, Surjection, IsInjective
<1>6. Cardinality(is) = n
  <2>1. ExistsBijection(1..n, is)
    BY <1>5 DEF ExistsBijection
  <2> QED
    BY <1>2, <2>1, FS_CountingElements
<1>7. ASSUME NEW k \in 1..n PROVE Cardinality(below(h[k])) = k - 1
  <2> DEFINE g == [j \in 1..(k - 1) |-> h[j]]
             B == below(h[k])
  <2>1. \A j \in 1..(k - 1) : j \in 1..n /\ h[j] \in B
    BY <1>2, <1>3
  <2>2. \A i \in B : \E j \in 1..(k - 1) : h[j] = i
    <3> SUFFICES ASSUME NEW i \in B PROVE \E j \in 1..(k - 1) : h[j] = i
      OBVIOUS
    <3>1. PICK j \in 1..n : h[j] = i
      BY <1>3
    <3>2. j < k
      BY <1>4, <3>1
    <3> QED
      BY <1>2, <3>1, <3>2
  <2> HIDE DEF B
  <2>3. g \in Bijection(1..(k - 1), B)
    <3>1. \A j, m \in 1..(k - 1) : h[j] = h[m] => j = m
      BY <1>5, <2>1 DEF Bijection, Injection, IsInjective
    <3> QED
      BY <2>1, <2>2, <3>1 DEF Bijection, Injection, Surjection, IsInjective
  <2>4. ExistsBijection(1..(k - 1), B) /\ k - 1 \in Nat
    BY <1>2, <2>3 DEF ExistsBijection
  <2>5. Cardinality(B) = k - 1
    BY <2>4, FS_CountingElements
  <2> QED
    BY <2>5 DEF B
<1>8. ASSUME NEW k \in 1..n
      PROVE  (CHOOSE i \in is : Cardinality(below(i)) = k - 1) = h[k]
  <2>1. h[k] \in is /\ Cardinality(below(h[k])) = k - 1
    BY <1>3, <1>7
  <2>2. ASSUME NEW i \in is, Cardinality(below(i)) = k - 1 PROVE i = h[k]
    <3>1. PICK j \in 1..n : h[j] = i
      BY <1>3
    <3>2. Cardinality(below(i)) = j - 1
      BY <1>7, <3>1
    <3> QED
      BY <1>2, <2>2, <3>1, <3>2
  <2> HIDE DEF below
  <2> QED
    BY <2>1, <2>2
<1>9. At(old, is) = [k \in 1..n |-> old[CHOOSE i \in is : Cardinality(below(i)) = k - 1]]
  BY <1>6 DEF At
<1> HIDE DEF below
<1>10. At(old, is) = [k \in 1..n |-> old[h[k]]]
  BY <1>8, <1>9
<1> QED
  BY <1>2, <1>3, <1>10

\* A line that follows all chosen ones comes last.
LEMMA SelectedNext ==
    ASSUME NEW new \in Seq(AllLines), NEW old, NEW m \in Nat, NEW is \in SUBSET (1..m),
           Selected(new, old, is), old[m + 1] \in AllLines
    PROVE  Selected(Append(new, old[m + 1]), old, is \cup {m + 1})
<1>1. PICK h : Selects(h, new, old, is)
  BY DEF Selected
<1> DEFINE n == Len(new)
           longer == Append(new, old[m + 1])
           g == [k \in 1..(n + 1) |-> IF k <= n THEN h[k] ELSE m + 1]
<1>2. /\ n \in Nat /\ Len(longer) = n + 1 /\ longer[n + 1] = old[m + 1]
      /\ \A k \in 1..n : longer[k] = new[k]
  <2> HIDE DEF AllLines
  <2> QED
    OBVIOUS
<1>3. /\ h \in [1..n -> is]
      /\ \A k \in 1..n : new[k] = old[h[k]]
      /\ \A j, k \in 1..n : j < k => h[j] < h[k]
      /\ \A i \in is : \E k \in 1..n : h[k] = i
  BY <1>1 DEF Selects
<1> HIDE DEF n, longer
<1>4. \A k \in 1..n : k \in 1..(n + 1) /\ g[k] = h[k] /\ h[k] \in 1..m
  <2>1. \A k \in 1..n : k \in 1..(n + 1) /\ k <= n
    BY <1>2
  <2>2. \A k \in 1..n : h[k] \in is
    BY <1>3
  <2> QED
    BY <2>1, <2>2
<1>5. n + 1 \in 1..(n + 1) /\ g[n + 1] = m + 1
  BY <1>2
<1>6. \A k \in 1..(n + 1) : k \in 1..n \/ k = n + 1
  BY <1>2
<1> HIDE DEF g
<1>7. g \in [1..(n + 1) -> is \cup {m + 1}]
  <2>1. \A k \in 1..(n + 1) : g[k] \in is \cup {m + 1}
    BY <1>3, <1>4, <1>5, <1>6
  <2> QED
    BY <2>1 DEF g
<1>8. \A k \in 1..(n + 1) : longer[k] = old[g[k]]
  BY <1>2, <1>3, <1>4, <1>5, <1>6
<1>9. \A j, k \in 1..(n + 1) : j < k => g[j] < g[k]
  <2> SUFFICES ASSUME NEW j \in 1..(n + 1), NEW k \in 1..(n + 1), j < k PROVE g[j] < g[k]
    OBVIOUS
  <2>1. j \in 1..n
    BY <1>2
  <2> QED
    BY <1>3, <1>4, <1>5, <1>6, <2>1
<1>10. \A i \in is \cup {m + 1} : \E k \in 1..(n + 1) : g[k] = i
  BY <1>3, <1>4, <1>5
<1>11. Selects(g, longer, old, is \cup {m + 1})
  BY <1>2, <1>7, <1>8, <1>9, <1>10 DEF Selects
<1> QED
  BY <1>11 DEF Selected, longer

\* Each kind among the lines has a best line.
Covered(f, lines, is) ==
    \A i \in is : \E j \in FirstBest(f, lines, is) : Kind(f, lines[j]) = Kind(f, lines[i])

\* The best of the chosen lines are the best of the sequence of them.
LEMMA SelectedBest ==
    ASSUME NEW mid \in Seq(AllLines), NEW new, NEW old, NEW is \in SUBSET Nat, NEW f,
           Selected(mid, old, is), Selected(new, mid, FirstBest(f, mid, 1..Len(mid)))
    PROVE  /\ Selected(new, old, FirstBest(f, old, is))
           /\ Covered(f, mid, 1..Len(mid)) => Covered(f, old, is)
<1>1. PICK h : Selects(h, mid, old, is)
  BY DEF Selected
<1>2. PICK g : Selects(g, new, mid, FirstBest(f, mid, 1..Len(mid)))
  BY DEF Selected
<1> DEFINE n == Len(mid)
           m == Len(new)
           M == FirstBest(f, mid, 1..n)
           O == FirstBest(f, old, is)
           e == [k \in 1..m |-> h[g[k]]]
<1>3. n \in Nat
  <2> HIDE DEF AllLines
  <2> QED
    OBVIOUS
<1>4. /\ h \in [1..n -> is]
      /\ \A k \in 1..n : mid[k] = old[h[k]]
      /\ \A j, k \in 1..n : j < k => h[j] < h[k]
      /\ \A i \in is : \E k \in 1..n : h[k] = i
  BY <1>1 DEF Selects
<1>5. /\ g \in [1..m -> M]
      /\ \A k \in 1..m : new[k] = mid[g[k]]
      /\ \A j, k \in 1..m : j < k => g[j] < g[k]
      /\ \A i \in M : \E k \in 1..m : g[k] = i
  BY <1>2 DEF Selects
<1> HIDE DEF n, m
<1>6. \A j, k \in 1..n : j <= k <=> h[j] <= h[k]
  <2> SUFFICES ASSUME NEW j \in 1..n, NEW k \in 1..n PROVE j <= k <=> h[j] <= h[k]
    OBVIOUS
  <2>1. j \in Int /\ k \in Int /\ h[j] \in Int /\ h[k] \in Int
    <3>1. h[j] \in is /\ h[k] \in is
      BY <1>4
    <3>2. \A i \in is : i \in Int
      OBVIOUS
    <3>3. j \in Int /\ k \in Int
      BY <1>3
    <3> QED
      BY <3>1, <3>2, <3>3
  <2>2. (j < k => h[j] < h[k]) /\ (k < j => h[k] < h[j]) /\ (j = k => h[j] = h[k])
    BY <1>4
  <2> QED
    BY <2>1, <2>2
<1>7. ASSUME NEW a \in 1..n PROVE a \in M <=> h[a] \in O
  <2>1. h[a] \in is /\ mid[a] = old[h[a]]
    BY <1>4
  <2>2. ASSUME a \in M PROVE h[a] \in O
    <3> SUFFICES ASSUME NEW j \in is, Kind(f, old[j]) = Kind(f, old[h[a]])
                 PROVE  \/ AbsTiming(old[j].timing) < AbsTiming(old[h[a]].timing)
                        \/ /\ AbsTiming(old[j].timing) = AbsTiming(old[h[a]].timing)
                           /\ h[a] <= j
      BY <2>1 DEF FirstBest
    <3>1. PICK b \in 1..n : h[b] = j
      BY <1>4
    <3>2. mid[b] = old[j]
      BY <1>4, <3>1
    <3>3. \/ AbsTiming(mid[b].timing) < AbsTiming(mid[a].timing)
          \/ AbsTiming(mid[b].timing) = AbsTiming(mid[a].timing) /\ a <= b
      BY <2>1, <2>2, <3>2 DEF FirstBest
    <3> QED
      BY <1>6, <2>1, <3>1, <3>2, <3>3
  <2>3. ASSUME h[a] \in O PROVE a \in M
    <3> SUFFICES ASSUME NEW b \in 1..n, Kind(f, mid[b]) = Kind(f, mid[a])
                 PROVE  \/ AbsTiming(mid[b].timing) < AbsTiming(mid[a].timing)
                        \/ AbsTiming(mid[b].timing) = AbsTiming(mid[a].timing) /\ a <= b
      BY DEF FirstBest
    <3>1. h[b] \in is /\ mid[b] = old[h[b]]
      BY <1>4
    <3>2. \/ AbsTiming(old[h[b]].timing) < AbsTiming(old[h[a]].timing)
          \/ AbsTiming(old[h[b]].timing) = AbsTiming(old[h[a]].timing) /\ h[a] <= h[b]
      BY <2>1, <2>3, <3>1 DEF FirstBest
    <3> QED
      BY <1>6, <2>1, <3>1, <3>2
  <2> QED
    BY <2>2, <2>3
<1>8. M \subseteq 1..n /\ O \subseteq is
  BY DEF FirstBest
<1> HIDE DEF M, O
<1>9. \A k \in 1..m : g[k] \in M /\ g[k] \in 1..n
  BY <1>5, <1>8
<1>10. e \in [1..m -> O]
  BY <1>7, <1>9
<1>11. \A k \in 1..m : new[k] = old[e[k]]
  BY <1>4, <1>5, <1>9
<1>12. \A j, k \in 1..m : j < k => e[j] < e[k]
  BY <1>4, <1>5, <1>9
<1>13. \A i \in O : \E k \in 1..m : e[k] = i
  <2> SUFFICES ASSUME NEW i \in O PROVE \E k \in 1..m : e[k] = i
    OBVIOUS
  <2>1. PICK a \in 1..n : h[a] = i
    BY <1>4, <1>8
  <2>2. a \in M
    BY <1>7, <2>1
  <2>3. PICK k \in 1..m : g[k] = a
    BY <1>5, <2>2
  <2> QED
    BY <2>1, <2>3
<1>14. Selected(new, old, O)
  <2> HIDE DEF e
  <2>1. Selects(e, new, old, O)
    BY <1>10, <1>11, <1>12, <1>13 DEF Selects, m
  <2> QED
    BY <2>1 DEF Selected
<1>15. ASSUME \A a \in 1..n : \E b \in M : Kind(f, mid[b]) = Kind(f, mid[a]), NEW i \in is
       PROVE  \E j \in O : Kind(f, old[j]) = Kind(f, old[i])
  <2>1. PICK a \in 1..n : h[a] = i
    BY <1>4
  <2>2. PICK b \in M : Kind(f, mid[b]) = Kind(f, mid[a])
    BY <1>15
  <2>3. b \in 1..n
    BY <1>8, <2>2
  <2>4. h[b] \in O /\ mid[b] = old[h[b]] /\ mid[a] = old[i]
    BY <1>4, <1>7, <2>1, <2>2, <2>3
  <2> QED
    BY <2>2, <2>4
<1> QED
  BY <1>14, <1>15 DEF M, O, n, Covered

\* The best of the best of a finer division are the best of the coarser one.
LEMMA BestOfBest ==
    ASSUME NEW lines, NEW is \in SUBSET Nat, NEW f, NEW g,
           \A i \in is : lines[i].timing \in Int,
           \A i, j \in is : Kind(f, lines[i]) = Kind(f, lines[j])
                               => Kind(g, lines[i]) = Kind(g, lines[j]),
           Covered(f, lines, is)
    PROVE  FirstBest(g, lines, FirstBest(f, lines, is)) = FirstBest(g, lines, is)
<1> DEFINE B == FirstBest(f, lines, is)
           T(i) == AbsTiming(lines[i].timing)
           Below(j, i) == T(j) < T(i) \/ (T(j) = T(i) /\ i <= j)
<1>1. \A i \in is : T(i) \in Int /\ i \in Int
  BY DEF AbsTiming
<1>2. /\ \A i : i \in B <=>
            i \in is /\ \A j \in is : Kind(f, lines[j]) = Kind(f, lines[i]) => Below(j, i)
      /\ \A i : i \in FirstBest(g, lines, B) <=>
            i \in B /\ \A j \in B : Kind(g, lines[j]) = Kind(g, lines[i]) => Below(j, i)
      /\ \A i : i \in FirstBest(g, lines, is) <=>
            i \in is /\ \A j \in is : Kind(g, lines[j]) = Kind(g, lines[i]) => Below(j, i)
  BY DEF FirstBest
<1> HIDE DEF B, T
<1>3. ASSUME NEW i \in FirstBest(g, lines, is) PROVE i \in FirstBest(g, lines, B)
  <2>1. i \in is /\ \A j \in is : Kind(g, lines[j]) = Kind(g, lines[i]) => Below(j, i)
    BY <1>2
  <2> HIDE DEF Below
  <2>2. i \in B
    BY <1>2, <2>1
  <2> QED
    BY <1>2, <2>1, <2>2
<1>4. ASSUME NEW i \in FirstBest(g, lines, B), NEW j \in is,
             Kind(g, lines[j]) = Kind(g, lines[i])
      PROVE  Below(j, i)
  <2>1. PICK b \in B : Kind(f, lines[b]) = Kind(f, lines[j])
    BY DEF B, Covered
  <2>2. b \in is /\ i \in is
    BY <1>2, <2>1
  <2>3. Below(j, b)
    BY <1>2, <2>1
  <2>4. Kind(g, lines[b]) = Kind(g, lines[i])
    BY <1>4, <2>1, <2>2
  <2>5. Below(b, i)
    BY <1>2, <2>1, <2>4
  <2>6. /\ T(i) \in Int /\ T(j) \in Int /\ T(b) \in Int
        /\ i \in Int /\ j \in Int /\ b \in Int
    BY <1>1, <2>2
  <2> QED
    BY <2>3, <2>5, <2>6
<1>5. ASSUME NEW i \in FirstBest(g, lines, B) PROVE i \in FirstBest(g, lines, is)
  <2>1. i \in is
    BY <1>2
  <2> HIDE DEF Below
  <2> QED
    BY <1>2, <1>4, <2>1
<1>6. FirstBest(g, lines, B) = FirstBest(g, lines, is)
  BY <1>3, <1>5
<1> QED
  BY <1>6 DEF B

\* The calls of main's filter stage: three applications, each with one filter.
StageFilter(n) ==
    CASE n = 1 -> "REMOVE_ALL_CACHE_SEQUENCES"
      [] n = 2 -> "UNIQUE_PROPERTY_TUPLES"
      [] n = 3 -> "MEASUREMENT_TRIGGER_EXTENSION_PAIRS"

\* The lines that the n-th application of the stage copies.
Choice(n, lines) ==
    IF n = 1 THEN {i \in 1..Len(lines) : lines[i].cache = {}}
    ELSE FirstBest(StageFilter(n), lines, 1..Len(lines))

Reading == mode \in {"prefilter", "filter"}
Made    == 8 - Len(calls)

\* How many of the calls are made tells which filter is active and which file
\* is read.
PlaceInv ==
    /\ Made \in 0..8
    /\ \A i \in 1..Len(calls) : calls[i] = FilterStage[i + Made]
    /\ active = IF Made % 3 = 0 THEN <<>> ELSE <<StageFilter((Made + 2) \div 3)>>
    /\ applied = IF Reading THEN (Made - 2) \div 3 ELSE (Made + 1) \div 3
    /\ Reading => Made \in {2, 5, 8}
    /\ mode = "done" => Made = 8

\* The map of f has, of each kind among the first n lines of the file that is
\* read, the first line of the largest absolute timing.
BestOf(f, n) ==
    /\ \A i \in 1..n : Kind(f, Input.lines[i]) \in DOMAIN best[f]
    /\ \A k \in DOMAIN best[f] :
          /\ best[f][k].line_no \in Nat
          /\ best[f][k].line_no + 1 \in FirstBest(f, Input.lines, 1..n)
          /\ best[f][k].timing = Input.lines[best[f][k].line_no + 1].timing
          /\ Kind(f, Input.lines[best[f][k].line_no + 1]) = k

\* The two maps are still empty when their application begins.
BestInv ==
    \A n \in 2..3 :
        /\ applied < n - 1 \/ (applied = n - 1 /\ ~Reading) =>
              DOMAIN best[StageFilter(n)] = {}
        /\ applied = n - 1 /\ Reading =>
              BestOf(StageFilter(n),
                     IF mode = "prefilter" THEN line_no ELSE Len(Input.lines))

ChoiceInv ==
    /\ files[1] \in Inputs
    /\ mode = "filter" =>
          Selected(Output.lines, Input.lines,
                   {i \in Choice(applied + 1, Input.lines) : i <= line_no})
    /\ \A n \in 1..applied :
          Selected(files[n + 1].lines, files[n].lines, Choice(n, files[n].lines))
    /\ applied >= 2 =>
          \A i \in 1..Len(files[2].lines) : \E j \in Choice(2, files[2].lines) :
              Kind(StageFilter(2), files[2].lines[j]) = Kind(StageFilter(2), files[2].lines[i])

InStage == program = FilterStage /\ mode \in {"caller", "prefilter", "filter", "done"}

StageInv == InStage => PlaceInv /\ BestInv /\ ChoiceInv

LEMMA StageCalls ==
    /\ Len(FilterStage) = 8 /\ FilterStage \in Seq(Calls)
    /\ \A p \in {1, 4, 7} : FilterStage[p].op = "enable"
    /\ \A p \in {2, 5, 8} : FilterStage[p].op = "apply"
    /\ \A p \in {3, 6} : FilterStage[p].op = "clear"
    /\ FilterStage[1].filter = StageFilter(1)
    /\ FilterStage[4].filter = StageFilter(2)
    /\ FilterStage[7].filter = StageFilter(3)
<1>1. /\ StageFilter(1) = "REMOVE_ALL_CACHE_SEQUENCES"
      /\ StageFilter(2) = "UNIQUE_PROPERTY_TUPLES"
      /\ StageFilter(3) = "MEASUREMENT_TRIGGER_EXTENSION_PAIRS"
  BY DEF StageFilter
<1>2. /\ FilterStage[1] = Enable(StageFilter(1)) /\ FilterStage[2] = Apply
      /\ FilterStage[3] = Clear /\ FilterStage[4] = Enable(StageFilter(2))
      /\ FilterStage[5] = Apply /\ FilterStage[6] = Clear
      /\ FilterStage[7] = Enable(StageFilter(3)) /\ FilterStage[8] = Apply
  BY <1>1 DEF FilterStage
<1>3. \A f : Enable(f).op = "enable" /\ Enable(f).filter = f
  BY DEF Enable
<1>4. Apply.op = "apply" /\ Clear.op = "clear"
  BY DEF Apply, Clear
<1>5. Len(FilterStage) = 8 /\ FilterStage \in Seq(Calls)
  <2>1. Apply \in Calls /\ Clear \in Calls
    BY DEF Calls
  <2>2. \A f \in ResultFilterFunctions : Enable(f) \in Calls
    BY DEF Calls, Enable
  <2>3. StageFilter(1) \in ResultFilterFunctions /\ StageFilter(2) \in ResultFilterFunctions
        /\ StageFilter(3) \in ResultFilterFunctions
    BY <1>1 DEF ResultFilterFunctions, Keeping
  <2>4. FilterStage = <<Enable(StageFilter(1)), Apply, Clear, Enable(StageFilter(2)), Apply,
                        Clear, Enable(StageFilter(3)), Apply>>
    BY <1>1 DEF FilterStage
  <2> HIDE DEF Calls
  <2>5. /\ Enable(StageFilter(1)) \in Calls /\ Enable(StageFilter(2)) \in Calls
        /\ Enable(StageFilter(3)) \in Calls
    BY <2>2, <2>3
  <2> QED
    BY <2>1, <2>4, <2>5
<1> QED
  BY <1>2, <1>3, <1>4, <1>5

\* The filters of the stage are three, and two of them keep lines.
LEMMA StageFilters ==
    /\ StageFilter(1) \notin Keeping
    /\ \A n \in 2..3 : StageFilter(n) \in Keeping /\ StageFilter(n) \in ResultFilterFunctions
    /\ \A m, n \in 1..3 : StageFilter(m) = StageFilter(n) => m = n
    /\ \A line : FiltersOut(StageFilter(1), line) <=> line.cache # {}
    /\ \A n \in 2..3 : \A line : FiltersOut(StageFilter(n), line) <=> ~IsBest(StageFilter(n), line)
<1>1. /\ StageFilter(1) = "REMOVE_ALL_CACHE_SEQUENCES"
      /\ StageFilter(2) = "UNIQUE_PROPERTY_TUPLES"
      /\ StageFilter(3) = "MEASUREMENT_TRIGGER_EXTENSION_PAIRS"
  BY DEF StageFilter
<1>2. (\A n \in 2..3 : n = 2 \/ n = 3) /\ (\A n \in 1..3 : n = 1 \/ n = 2 \/ n = 3)
  OBVIOUS
<1>3. \A n \in 2..3 : StageFilter(n) \in Keeping /\ StageFilter(n) \in ResultFilterFunctions
  BY <1>1, <1>2 DEF Keeping, ResultFilterFunctions
<1>4. StageFilter(1) \notin Keeping
  BY <1>1 DEF Keeping
<1>5. \A line : FiltersOut(StageFilter(1), line) <=> line.cache # {}
  BY <1>1, <1>4 DEF FiltersOut
<1>6. \A n \in 2..3 : \A line :
         FiltersOut(StageFilter(n), line) <=> ~IsBest(StageFilter(n), line)
  BY <1>1, <1>2 DEF FiltersOut, Keeping
<1>7. \A m, n \in 1..3 : StageFilter(m) = StageFilter(n) => m = n
  BY <1>1, <1>2
<1> QED
  BY <1>3, <1>4, <1>5, <1>6, <1>7

\* While a file is read, the one filter of its application is active.
LEMMA WhileReading ==
    ASSUME PlaceInv, Reading
    PROVE  /\ applied \in 0..2 /\ Made = 3 * applied + 2
           /\ active = <<StageFilter(applied + 1)>>
<1>1. Made = 2 \/ Made = 5 \/ Made = 8
  BY DEF PlaceInv
<1>2. /\ applied = (Made - 2) \div 3
      /\ active = IF Made % 3 = 0 THEN <<>> ELSE <<StageFilter((Made + 2) \div 3)>>
  BY DEF PlaceInv
<1> HIDE DEF Made
<1>3. CASE Made = 2
  BY <1>2, <1>3
<1>4. CASE Made = 5
  BY <1>2, <1>4
<1>5. CASE Made = 8
  BY <1>2, <1>5
<1> QED
  BY <1>1, <1>3, <1>4, <1>5

\* A call is the next one of the stage.
LEMMA NextCall ==
    ASSUME Shape, PlaceInv, mode = "caller", NEW op, Called(op)
    PROVE  /\ Made \in 0..7 /\ Made' = Made + 1
           /\ Head(calls) = FilterStage[Made + 1] /\ FilterStage[Made + 1].op = op
           /\ \A i \in 1..Len(calls') : calls'[i] = FilterStage[i + Made']
<1>1. /\ calls \in Seq(Calls) /\ calls # <<>> /\ calls' = Tail(calls) /\ Head(calls).op = op
      /\ \A i \in 1..Len(calls) : calls[i] = FilterStage[i + (8 - Len(calls))]
  BY DEF Shape, PlaceInv, Called, Made
<1>2. 8 - Len(calls) \in 0..8
  BY DEF PlaceInv, Made
<1> HIDE DEF Calls
<1>3. /\ Len(calls) \in 1..8 /\ Len(calls') = Len(calls) - 1 /\ Head(calls) = calls[1]
      /\ \A i \in 1..Len(calls') : calls'[i] = calls[i + 1] /\ i + 1 \in 1..Len(calls)
  <2>1. Len(calls) \in Nat /\ Len(calls) # 0
    BY <1>1
  <2>2. Len(calls) \in 1..8
    <3>1. \A n \in Nat : n # 0 /\ 8 - n \in 0..8 => n \in 1..8
      OBVIOUS
    <3> QED
      BY <1>2, <2>1, <3>1
  <2>3. Len(Tail(calls)) = Len(calls) - 1 /\ Head(calls) = calls[1]
    BY <1>1
  <2>4. \A i \in 1..Len(Tail(calls)) : Tail(calls)[i] = calls[i + 1]
    BY <1>1
  <2>5. \A i \in 1..(Len(calls) - 1) : i + 1 \in 1..Len(calls)
    BY <2>1
  <2> QED
    BY <1>1, <2>2, <2>3, <2>4, <2>5
<1>4. \A i \in 1..Len(calls') : (i + 1) + (8 - Len(calls)) = i + (8 - Len(calls'))
  BY <1>3
<1>5. 1 \in 1..Len(calls) /\ 1 + (8 - Len(calls)) = (8 - Len(calls)) + 1
  BY <1>3
<1> QED
  BY <1>1, <1>2, <1>3, <1>4, <1>5 DEF Made

LEMMA InitStage == Init => StageInv
<1> SUFFICES ASSUME Init, InStage PROVE PlaceInv /\ BestInv /\ ChoiceInv
  BY DEF StageInv
<1>1. /\ calls = FilterStage /\ active = <<>> /\ applied = 0 /\ mode = "caller"
      /\ \A f \in ResultFilterFunctions : DOMAIN best[f] = {}
  BY DEF Init, InStage
<1>2. Made = 0 /\ ~Reading
  BY <1>1, StageCalls DEF Made, Reading
<1>3. PlaceInv
  <2>1. \A i \in 1..8 : i + 0 = i
    OBVIOUS
  <2>2. 0 % 3 = 0 /\ (0 + 1) \div 3 = 0 /\ 0 \in 0..8
    OBVIOUS
  <2> HIDE DEF Made
  <2> QED
    BY <1>1, <1>2, <2>1, <2>2, StageCalls DEF PlaceInv
<1>4. BestInv
  BY <1>1, <1>2, StageFilters DEF BestInv
<1>5. ChoiceInv
  <2>1. PICK input \in Inputs :
           files = <<input>> \o [n \in 1..Applications(program) |->
                                   [kind |-> "csv", lines |-> <<Stale>>]]
    BY DEF Init
  <2> DEFINE m == Applications(program)
             stale == [kind |-> "csv", lines |-> <<Stale>>]
             later == [n \in 1..m |-> stale]
  <2>2. m \in Nat
    BY ApplicationsType, ProgramsAssumption DEF Init
  <2> HIDE DEF m, stale
  <2>3. later \in Seq({stale}) /\ <<input>> \in Seq({input})
    BY <2>2
  <2>4. files = <<input>> \o later
    BY <2>1 DEF m, stale
  <2> HIDE DEF later
  <2>5. files[1] = input
    BY <2>3, <2>4
  <2> QED
    BY <1>1, <2>1, <2>5 DEF ChoiceInv
<1> QED
  BY <1>3, <1>4, <1>5

\* The stage never disables a filter, enables one when none is active, and
\* clears the list before.
LEMMA CallerStage ==
    ASSUME Inv, StageInv, InStage', EnableFilter \/ DisableFilter \/ ClearAllFilters \/ Finish
    PROVE  StageInv'
<1>1. /\ mode = "caller" /\ mode' \in {"caller", "done"} /\ files' = files
      /\ applied' = applied /\ best' = best /\ program' = program /\ line_no' = line_no
  BY DEF EnableFilter, DisableFilter, ClearAllFilters, Finish, Called
<1>2. InStage /\ PlaceInv /\ BestInv /\ ChoiceInv /\ Shape /\ ~Reading /\ ~Reading'
  BY <1>1 DEF StageInv, InStage, Inv, Reading
<1>3. BestInv' /\ ChoiceInv'
  BY <1>1, <1>2 DEF BestInv, ChoiceInv
<1>4. /\ active = IF Made % 3 = 0 THEN <<>> ELSE <<StageFilter((Made + 2) \div 3)>>
      /\ applied = (Made + 1) \div 3
  BY <1>2 DEF PlaceInv
<1>5. PlaceInv'
  <2>1. CASE EnableFilter
    <3>1. Called("enable")
      BY <2>1 DEF EnableFilter
    <3>2. /\ Made \in 0..7 /\ Made' = Made + 1 /\ Head(calls) = FilterStage[Made + 1]
          /\ FilterStage[Made + 1].op = "enable"
          /\ \A i \in 1..Len(calls') : calls'[i] = FilterStage[i + Made']
      BY <1>1, <1>2, <3>1, NextCall
    <3>3. active' = IF Contains(active, Head(calls).filter) THEN active
                    ELSE Append(active, Head(calls).filter)
      BY <2>1 DEF EnableFilter
    <3> HIDE DEF Made
    <3>4. Made = 0 \/ Made = 3 \/ Made = 6
      <4>1. Made + 1 \in {1, 4, 7} \/ Made + 1 \in {2, 5, 8} \/ Made + 1 \in {3, 6}
        BY <3>2
      <4> QED
        BY <3>2, <4>1, StageCalls
    <3>5. active = <<>>
      BY <1>4, <3>4
    <3>6. active' = <<FilterStage[Made + 1].filter>>
      BY <3>2, <3>3, <3>5 DEF Contains
    <3>7. active' = <<StageFilter((Made' + 2) \div 3)>>
      BY <3>2, <3>4, <3>6, StageCalls
    <3>8. Made' \in 0..8 /\ Made' % 3 # 0 /\ applied' = (Made' + 1) \div 3
      BY <1>1, <1>4, <3>2, <3>4
    <3>9. mode' = "caller"
      BY <1>1, <2>1 DEF EnableFilter
    <3> QED
      BY <1>2, <3>2, <3>7, <3>8, <3>9 DEF PlaceInv
  <2>2. CASE DisableFilter
    <3>1. Called("disable")
      BY <2>2 DEF DisableFilter
    <3>2. Made \in 0..7 /\ FilterStage[Made + 1].op = "disable"
      BY <1>1, <1>2, <3>1, NextCall
    <3> HIDE DEF Made
    <3>3. Made + 1 \in {1, 4, 7} \/ Made + 1 \in {2, 5, 8} \/ Made + 1 \in {3, 6}
      BY <3>2
    <3> QED
      BY <3>2, <3>3, StageCalls
  <2>3. CASE ClearAllFilters
    <3>1. Called("clear") /\ active' = <<>> /\ mode' = "caller"
      BY <1>1, <2>3 DEF ClearAllFilters
    <3>2. /\ Made \in 0..7 /\ Made' = Made + 1 /\ FilterStage[Made + 1].op = "clear"
          /\ \A i \in 1..Len(calls') : calls'[i] = FilterStage[i + Made']
      BY <1>1, <1>2, <3>1, NextCall
    <3> HIDE DEF Made
    <3>3. Made = 2 \/ Made = 5
      <4>1. Made + 1 \in {1, 4, 7} \/ Made + 1 \in {2, 5, 8} \/ Made + 1 \in {3, 6}
        BY <3>2
      <4> QED
        BY <3>2, <4>1, StageCalls
    <3>4. Made' \in 0..8 /\ Made' % 3 = 0 /\ applied' = (Made' + 1) \div 3
      BY <1>1, <1>4, <3>2, <3>3
    <3> QED
      BY <1>2, <3>1, <3>2, <3>4 DEF PlaceInv
  <2>4. CASE Finish
    <3>1. calls = <<>> /\ calls' = calls /\ active' = active
      BY <2>4 DEF Finish
    <3>2. Made = 8 /\ Made' = Made
      BY <3>1 DEF Made
    <3> HIDE DEF Made
    <3> QED
      BY <1>1, <1>2, <3>1, <3>2 DEF PlaceInv
  <2> QED
    BY <2>1, <2>2, <2>3, <2>4
<1> QED
  BY <1>3, <1>5 DEF StageInv

\* An application starts with an empty map.
LEMMA OpenFilesStage ==
    ASSUME Inv, Inv', StepInv, StageInv, InStage', OpenFiles PROVE StageInv'
<1>1. /\ mode = "caller" /\ mode' = "prefilter" /\ Called("apply") /\ line_no' = 0
      /\ applied' = applied /\ best' = best /\ program' = program /\ active' = active
      /\ files' = IF Input.kind = "missing" THEN files
                  ELSE [files EXCEPT ![applied + 2] = Truncated]
  BY DEF OpenFiles, Called, InStage
<1>2. InStage /\ PlaceInv /\ BestInv /\ ChoiceInv /\ Shape /\ ~Reading /\ Reading'
  BY <1>1 DEF StageInv, InStage, Inv, Reading
<1>3. /\ Made \in 0..7 /\ Made' = Made + 1 /\ FilterStage[Made + 1].op = "apply"
      /\ \A i \in 1..Len(calls') : calls'[i] = FilterStage[i + Made']
  BY <1>1, <1>2, NextCall
<1>4. /\ active = IF Made % 3 = 0 THEN <<>> ELSE <<StageFilter((Made + 2) \div 3)>>
      /\ applied = (Made + 1) \div 3
  BY <1>2 DEF PlaceInv
<1>5. PlaceInv'
  <2> HIDE DEF Made
  <2>1. Made = 1 \/ Made = 4 \/ Made = 7
    <3>1. Made + 1 \in {1, 4, 7} \/ Made + 1 \in {2, 5, 8} \/ Made + 1 \in {3, 6}
      BY <1>3
    <3> QED
      BY <1>3, <3>1, StageCalls
  <2>2. /\ Made' \in {2, 5, 8} /\ Made' \in 0..8 /\ Made' % 3 # 0 /\ Made % 3 # 0
        /\ (Made' + 2) \div 3 = (Made + 2) \div 3 /\ applied' = (Made' - 2) \div 3
    BY <1>1, <1>3, <1>4, <2>1
  <2> QED
    BY <1>1, <1>2, <1>3, <1>4, <2>2 DEF PlaceInv
<1>6. BestInv'
  <2> SUFFICES ASSUME NEW n \in 2..3
               PROVE  /\ applied < n - 1 => DOMAIN best[StageFilter(n)] = {}
                      /\ applied = n - 1 => BestOf(StageFilter(n), 0)'
    BY <1>1, <1>2 DEF BestInv
  <2>1. applied < n - 1 \/ applied = n - 1 => DOMAIN best[StageFilter(n)] = {}
    BY <1>2 DEF BestInv
  <2> QED
    BY <1>1, <2>1 DEF BestOf
<1>7. ChoiceInv'
  <2>1. applied \in Nat /\ applied + 2 \in 1..Len(files)
    <3>1. /\ applied \in Nat /\ calls \in Seq(Calls)
          /\ Len(files') = applied + Applications(calls') + 2 /\ calls' \in Seq(Calls)
      BY <1>1 DEF Inv, Shape
    <3>2. Applications(calls') \in Nat
      BY <3>1, ApplicationsType
    <3>3. files \in Seq(Files)
      BY <1>2 DEF Shape
    <3>4. Len(files') = Len(files)
      <4> HIDE DEF Files
      <4> QED
        BY <1>1, <3>3
    <3> QED
      BY <3>1, <3>2, <3>4
  <2>2. \A n \in 1..(applied + 1) : files'[n] = files[n]
    BY <1>1, <1>2, <2>1, OutputWritten
  <2>3. ASSUME NEW n \in 1..applied
        PROVE  Selected(files'[n + 1].lines, files'[n].lines, Choice(n, files'[n].lines))
    <3>1. n \in 1..(applied + 1) /\ n + 1 \in 1..(applied + 1)
      BY <2>1
    <3>2. Selected(files[n + 1].lines, files[n].lines, Choice(n, files[n].lines))
      BY <1>2 DEF ChoiceInv
    <3> QED
      BY <2>2, <3>1, <3>2
  <2>4. (applied >= 2 => files'[2] = files[2]) /\ files'[1] = files[1]
    BY <2>1, <2>2
  <2> QED
    BY <1>1, <1>2, <2>3, <2>4 DEF ChoiceInv
<1> QED
  BY <1>5, <1>6, <1>7 DEF StageInv

\* One more line: it takes over the entry of its kind, or is not better than it.
LEMMA BestOfNext ==
    ASSUME Shape, mode = "prefilter", line_no < Len(Input.lines), NEW f \in Keeping,
           BestOf(f, line_no), NEW new, new = Prefilter(f, Line)
    PROVE  /\ \A i \in 1..(line_no + 1) : Kind(f, Input.lines[i]) \in DOMAIN new
           /\ \A k \in DOMAIN new :
                 /\ new[k].line_no \in Nat
                 /\ new[k].line_no + 1 \in FirstBest(f, Input.lines, 1..(line_no + 1))
                 /\ new[k].timing = Input.lines[new[k].line_no + 1].timing
                 /\ Kind(f, Input.lines[new[k].line_no + 1]) = k
<1> DEFINE L    == Input.lines
           m    == line_no
           K(i) == Kind(f, L[i])
           T(i) == AbsTiming(L[i].timing)
           Worse(j, i) == T(j) < T(i) \/ (T(j) = T(i) /\ i <= j)
           old  == best[f]
           b(k) == old[k].line_no + 1
<1>1. /\ m \in Nat /\ m + 1 \in 1..Len(L) /\ Line = L[m + 1] /\ Len(L) \in Nat
      /\ \A i \in 1..Len(L) : L[i].timing \in Int
  BY FilesType, TimingType, SMTT(20) DEF Shape, Line
<1>2. \A i \in 1..(m + 1) : i \in 1..Len(L) /\ i \in Int /\ T(i) \in Int
  BY <1>1 DEF AbsTiming
<1>3. \A n \in Nat : \A i : i \in FirstBest(f, L, 1..n) <=>
         i \in 1..n /\ \A j \in 1..n : K(j) = K(i) => Worse(j, i)
  BY DEF FirstBest
<1>4. /\ \A i \in 1..m : K(i) \in DOMAIN old
      /\ \A k \in DOMAIN old : /\ old[k].line_no \in Nat
                               /\ b(k) \in FirstBest(f, L, 1..m)
                               /\ old[k].timing = L[b(k)].timing
                               /\ K(b(k)) = k
  BY DEF BestOf
<1>5. new = IF K(m + 1) \in DOMAIN old /\ T(m + 1) <= AbsTiming(old[K(m + 1)].timing)
            THEN old
            ELSE [k \in DOMAIN old \cup {K(m + 1)} |->
                    IF k = K(m + 1) THEN [line_no |-> m, timing |-> L[m + 1].timing]
                                    ELSE old[k]]
  BY <1>1 DEF Prefilter
<1> HIDE DEF L, m, K, T, old
<1>6. \A i \in 1..(m + 1) : i \in 1..m \/ i = m + 1
  BY <1>1
<1>7. ASSUME NEW k \in DOMAIN old
      PROVE  /\ b(k) \in 1..m /\ T(b(k)) = AbsTiming(old[k].timing) /\ K(b(k)) = k
             /\ \A j \in 1..m : K(j) = k => Worse(j, b(k))
  <2>1. b(k) \in FirstBest(f, L, 1..m) /\ old[k].timing = L[b(k)].timing /\ K(b(k)) = k
    BY <1>4
  <2>2. b(k) \in 1..m /\ \A j \in 1..m : K(j) = K(b(k)) => Worse(j, b(k))
    BY <1>1, <1>3, <2>1
  <2>3. T(b(k)) = AbsTiming(old[k].timing)
    BY <2>1 DEF T
  <2> QED
    BY <2>1, <2>2, <2>3
\* An entry of another kind, or that the line is not better than, stays.
<1>8. ASSUME NEW k \in DOMAIN old, k = K(m + 1) => Worse(m + 1, b(k))
      PROVE  b(k) \in FirstBest(f, L, 1..(m + 1))
  <2>1. \A j \in 1..(m + 1) : K(j) = K(b(k)) => Worse(j, b(k))
    BY <1>6, <1>7, <1>8
  <2>2. b(k) \in 1..(m + 1)
    BY <1>1, <1>7
  <2> HIDE DEF Worse, b
  <2> QED
    BY <1>1, <1>3, <2>1, <2>2
<1>9. CASE K(m + 1) \in DOMAIN old /\ T(m + 1) <= AbsTiming(old[K(m + 1)].timing)
  <2>1. new = old
    BY <1>5, <1>9
  <2>2. Worse(m + 1, b(K(m + 1)))
    <3> DEFINE c == b(K(m + 1))
    <3>1. c \in 1..m /\ T(c) = AbsTiming(old[K(m + 1)].timing)
      BY <1>7, <1>9
    <3> HIDE DEF c
    <3>2. c \in 1..(m + 1) /\ c <= m + 1 /\ m + 1 \in 1..(m + 1)
      BY <1>1, <3>1
    <3>3. T(c) \in Int /\ T(m + 1) \in Int /\ T(m + 1) <= T(c)
      BY <1>2, <1>9, <3>1, <3>2
    <3>4. Worse(m + 1, c)
      BY <3>2, <3>3
    <3> QED
      BY <3>4 DEF c
  <2>3. \A k \in DOMAIN old : b(k) \in FirstBest(f, L, 1..(m + 1))
    BY <1>8, <2>2
  <2> QED
    BY <1>4, <1>6, <1>9, <2>1, <2>3 DEF L, m, K
<1>10. CASE ~(K(m + 1) \in DOMAIN old /\ T(m + 1) <= AbsTiming(old[K(m + 1)].timing))
  <2>1. /\ DOMAIN new = DOMAIN old \cup {K(m + 1)}
        /\ new[K(m + 1)].line_no = m /\ new[K(m + 1)].timing = L[m + 1].timing
        /\ \A k \in DOMAIN old : k # K(m + 1) => new[k] = old[k]
    BY <1>5, <1>10
  <2>2. m + 1 \in FirstBest(f, L, 1..(m + 1))
    <3>1. ASSUME NEW j \in 1..(m + 1), K(j) = K(m + 1) PROVE Worse(j, m + 1)
      <4>1. CASE j = m + 1
        BY <1>1, <4>1
      <4>2. CASE j \in 1..m
        <5>1. K(m + 1) \in DOMAIN old
          BY <1>4, <3>1, <4>2
        <5> DEFINE c == b(K(m + 1))
        <5>2. c \in 1..m /\ T(c) = AbsTiming(old[K(m + 1)].timing) /\ Worse(j, c)
          BY <1>7, <3>1, <4>2, <5>1
        <5> HIDE DEF c
        <5>3. c \in 1..(m + 1) /\ m + 1 \in 1..(m + 1)
          BY <1>1, <5>2
        <5>4. T(c) \in Int /\ T(m + 1) \in Int /\ T(j) \in Int
          BY <1>2, <5>3
        <5>5. ~(T(m + 1) <= T(c))
          BY <1>10, <5>1, <5>2
        <5>6. T(j) < T(m + 1)
          BY <5>2, <5>4, <5>5
        <5> QED
          BY <5>6
      <4> QED
        BY <1>6, <4>1, <4>2
    <3>2. m + 1 \in 1..(m + 1)
      BY <1>1
    <3> HIDE DEF Worse
    <3> QED
      BY <1>1, <1>3, <3>1, <3>2
  <2>3. \A k \in DOMAIN old : k # K(m + 1) => b(k) \in FirstBest(f, L, 1..(m + 1))
    BY <1>8
  <2>4. \A i \in 1..(m + 1) : K(i) \in DOMAIN new
    BY <1>4, <1>6, <2>1
  <2>5. ASSUME NEW k \in DOMAIN new
        PROVE  /\ new[k].line_no \in Nat
               /\ new[k].line_no + 1 \in FirstBest(f, L, 1..(m + 1))
               /\ new[k].timing = L[new[k].line_no + 1].timing
               /\ K(new[k].line_no + 1) = k
    <3>1. CASE k = K(m + 1)
      BY <1>1, <2>1, <2>2, <3>1
    <3>2. CASE k # K(m + 1)
      <4>1. k \in DOMAIN old /\ new[k] = old[k]
        BY <2>1, <3>2
      <4> QED
        BY <1>4, <2>3, <3>2, <4>1
    <3> QED
      BY <3>1, <3>2
  <2> QED
    BY <2>4, <2>5 DEF L, m, K
<1> QED
  BY <1>9, <1>10

LEMMA PrefilterLineStage ==
    ASSUME Inv, StageInv, InStage', PrefilterLine PROVE StageInv'
<1>1. /\ mode = "prefilter" /\ mode' = "prefilter" /\ line_no < Len(Input.lines)
      /\ line_no' = line_no + 1 /\ applied' = applied /\ files' = files
      /\ program' = program /\ active' = active /\ calls' = calls
      /\ best' = [f \in ResultFilterFunctions |->
                    IF Contains(active, f) THEN Prefilter(f, Line) ELSE best[f]]
  BY DEF PrefilterLine, InStage
<1>2. InStage /\ PlaceInv /\ BestInv /\ ChoiceInv /\ Shape /\ Reading /\ Reading'
  BY <1>1 DEF StageInv, InStage, Inv, Reading
<1>3. PlaceInv'
  BY <1>1, <1>2 DEF PlaceInv, Made, Reading
<1>4. ChoiceInv'
  BY <1>1, <1>2 DEF ChoiceInv
<1>5. applied \in 0..2 /\ active = <<StageFilter(applied + 1)>>
  BY <1>2, WhileReading
<1>6. \A f : Contains(active, f) <=> f = StageFilter(applied + 1)
  BY <1>5 DEF Contains
<1>7. BestInv'
  <2> SUFFICES ASSUME NEW n \in 2..3
               PROVE  /\ applied < n - 1 => DOMAIN best'[StageFilter(n)] = {}
                      /\ applied = n - 1 => BestOf(StageFilter(n), line_no)'
    BY <1>1, <1>2 DEF BestInv
  <2> DEFINE f == StageFilter(n)
  <2>1. /\ f \in Keeping /\ f \in ResultFilterFunctions
        /\ f = StageFilter(applied + 1) => n = applied + 1
    BY <1>5, StageFilters
  <2>2. /\ applied < n - 1 => DOMAIN best[f] = {}
        /\ applied = n - 1 => BestOf(f, line_no)
    BY <1>1, <1>2 DEF BestInv
  <2> HIDE DEF f
  <2>3. ASSUME applied < n - 1 PROVE DOMAIN best'[f] = {}
    BY <1>1, <1>5, <1>6, <2>1, <2>2, <2>3
  <2>4. ASSUME applied = n - 1 PROVE BestOf(f, line_no)'
    <3>1. f = StageFilter(applied + 1)
      BY <1>5, <2>4 DEF f
    <3>2. best'[f] = Prefilter(f, Line)
      BY <1>1, <1>6, <2>1, <3>1
    <3>3. Input' = Input
      BY <1>1 DEF Input
    <3>4. /\ \A i \in 1..(line_no + 1) : Kind(f, Input.lines[i]) \in DOMAIN best'[f]
          /\ \A k \in DOMAIN best'[f] :
                /\ best'[f][k].line_no \in Nat
                /\ best'[f][k].line_no + 1 \in FirstBest(f, Input.lines, 1..(line_no + 1))
                /\ best'[f][k].timing = Input.lines[best'[f][k].line_no + 1].timing
                /\ Kind(f, Input.lines[best'[f][k].line_no + 1]) = k
      <4> DEFINE new == best'[f]
      <4>1. new = Prefilter(f, Line)
        BY <3>2
      <4> HIDE DEF new
      <4>2. /\ \A i \in 1..(line_no + 1) : Kind(f, Input.lines[i]) \in DOMAIN new
            /\ \A k \in DOMAIN new :
                  /\ new[k].line_no \in Nat
                  /\ new[k].line_no + 1 \in FirstBest(f, Input.lines, 1..(line_no + 1))
                  /\ new[k].timing = Input.lines[new[k].line_no + 1].timing
                  /\ Kind(f, Input.lines[new[k].line_no + 1]) = k
        BY <1>1, <1>2, <2>1, <2>2, <2>4, <4>1, BestOfNext
      <4> QED
        BY <4>2 DEF new
    <3> QED
      BY <1>1, <3>3, <3>4 DEF BestOf
  <2> QED
    BY <2>3, <2>4 DEF f
<1> QED
  BY <1>3, <1>4, <1>7 DEF StageInv

LEMMA RewindStage ==
    ASSUME Inv, StepInv, StageInv, InStage', Rewind PROVE StageInv'
<1> DEFINE out == [Output EXCEPT !.kind = "csv"]
<1>1. /\ mode = "prefilter" /\ mode' = "filter" /\ line_no = Len(Input.lines) /\ line_no' = 0
      /\ applied' = applied /\ best' = best /\ program' = program /\ active' = active
      /\ calls' = calls /\ files' = [files EXCEPT ![applied + 2] = out]
      /\ Output.lines = <<>> /\ Shape
  BY DEF Rewind, Output, OutputInv, Inv
<1>2. InStage /\ PlaceInv /\ BestInv /\ ChoiceInv /\ Reading /\ Reading'
  BY <1>1 DEF StageInv, InStage, Reading
<1>3. /\ applied \in Nat /\ applied + 2 \in 1..Len(files) /\ Output \in Files
      /\ Len(Input.lines) \in Nat
  BY <1>1, FilesType DEF Shape
<1>4. files'[applied + 2] = out /\ \A n \in 1..(applied + 1) : files'[n] = files[n]
  <2> HIDE DEF out
  <2> QED
    BY <1>1, <1>3, OutputWritten
<1>5. Input' = Input /\ Output'.lines = <<>>
  <2>1. out.lines = <<>>
    BY <1>1, <1>3 DEF Files
  <2> HIDE DEF out
  <2> QED
    BY <1>1, <1>3, <1>4, <2>1 DEF Input, Output
<1>6. PlaceInv'
  BY <1>1, <1>2 DEF PlaceInv, Made, Reading
<1>7. BestInv'
  BY <1>1, <1>2, <1>5 DEF BestInv, BestOf
<1>8. ChoiceInv'
  <2>1. Selected(<<>>, Input.lines, {})
    <3> DEFINE h == [k \in {} |-> 0]
               e == <<>>
    <3>1. 1..Len(e) = {} /\ h \in [{} -> {}]
      OBVIOUS
    <3> HIDE DEF h, e
    <3>2. Selects(h, e, Input.lines, {})
      BY <3>1 DEF Selects
    <3> QED
      BY <3>2 DEF Selected, e
  <2>2. {i \in Choice(applied + 1, Input.lines) : i <= 0} = {}
    <3>1. \A i \in Choice(applied + 1, Input.lines) : i \in 1..Len(Input.lines)
      BY DEF Choice, FirstBest
    <3>2. \A i \in 1..Len(Input.lines) : ~(i <= 0)
      BY <1>3
    <3> QED
      BY <3>1, <3>2
  <2>3. ASSUME NEW n \in 1..applied
        PROVE  Selected(files'[n + 1].lines, files'[n].lines, Choice(n, files'[n].lines))
    <3>1. n \in 1..(applied + 1) /\ n + 1 \in 1..(applied + 1)
      BY <1>3
    <3>2. Selected(files[n + 1].lines, files[n].lines, Choice(n, files[n].lines))
      BY <1>2 DEF ChoiceInv
    <3> QED
      BY <1>4, <3>1, <3>2
  <2>4. (applied >= 2 => files'[2] = files[2]) /\ files'[1] = files[1]
    BY <1>3, <1>4
  <2> QED
    BY <1>1, <1>2, <1>5, <2>1, <2>2, <2>3, <2>4 DEF ChoiceInv
<1> QED
  BY <1>6, <1>7, <1>8 DEF StageInv

\* The line that the map names for a kind is the first of the best of it.
LEMMA BestIsChosen ==
    ASSUME Shape, mode = "filter", line_no < Len(Input.lines), NEW f \in Keeping,
           BestOf(f, Len(Input.lines))
    PROVE  IsBest(f, Line) <=> line_no + 1 \in FirstBest(f, Input.lines, 1..Len(Input.lines))
<1> DEFINE L    == Input.lines
           m    == line_no
           K(i) == Kind(f, L[i])
           T(i) == AbsTiming(L[i].timing)
           Worse(j, i) == T(j) < T(i) \/ (T(j) = T(i) /\ i <= j)
           F    == FirstBest(f, L, 1..Len(L))
           b    == best[f][K(m + 1)].line_no
<1>1. /\ m \in Nat /\ m + 1 \in 1..Len(L) /\ Line = L[m + 1] /\ Len(L) \in Nat
      /\ \A i \in 1..Len(L) : L[i].timing \in Int
  BY FilesType, TimingType, SMTT(20) DEF Shape, Line
<1>2. \A i \in 1..Len(L) : i \in Int /\ T(i) \in Int
  BY <1>1 DEF AbsTiming
<1>3. \A i : i \in F <=> i \in 1..Len(L) /\ \A j \in 1..Len(L) : K(j) = K(i) => Worse(j, i)
  BY DEF FirstBest
<1>4. b + 1 \in F /\ K(b + 1) = K(m + 1)
  BY <1>1 DEF BestOf
<1>5. IsBest(f, Line) <=> b = m
  BY <1>1 DEF IsBest
<1>6. b \in Int
  BY <1>1 DEF BestOf
<1> HIDE DEF L, m, K, T, F, b
<1>7. ASSUME m + 1 \in F PROVE b = m
  <2> DEFINE c == b + 1
  <2>1. /\ m + 1 \in 1..Len(L) /\ c \in 1..Len(L) /\ K(c) = K(m + 1)
        /\ Worse(c, m + 1) /\ Worse(m + 1, c)
    BY <1>3, <1>4, <1>7
  <2> HIDE DEF c
  <2>2. c = m + 1
    BY <1>2, <2>1
  <2> QED
    BY <1>1, <1>6, <2>2 DEF c
<1> QED
  BY <1>4, <1>5, <1>7 DEF F, L, m

\* The line is copied when it is one of the choice of its application.
LEMMA FilterLineStage ==
    ASSUME Inv, StepInv, StageInv, InStage', FilterLine PROVE StageInv'
<1>1. /\ applied' = applied /\ program' = program /\ active' = active
      /\ calls' = calls /\ best' = best
      /\ mode = "filter" /\ mode' = "filter"
      /\ line_no < Len(Input.lines) /\ line_no' = line_no + 1
      /\ applied \in Nat /\ Output \in Files
      /\ Len(Input.lines) \in Nat /\ line_no \in Nat
      /\ \A n \in 1..(applied + 1) : files'[n] = files[n]
      /\ IF \E f \in Evaluated(Line) : FiltersOut(f, Line) THEN Output' = Output
         ELSE Output'.lines = Append(Output.lines, Line)
      /\ Input' = Input
  BY FilterLineWrites
<1>2. InStage /\ PlaceInv /\ BestInv /\ ChoiceInv /\ Shape /\ Reading /\ Reading'
  BY <1>1 DEF StageInv, InStage, Inv, Reading
<1>3. PlaceInv'
  BY <1>1, <1>2 DEF PlaceInv, Made, Reading
<1>4. BestInv'
  BY <1>1, <1>2 DEF BestInv, BestOf, Reading
<1> DEFINE L == Input.lines
           n == applied + 1
           C == Choice(n, L)
           f == StageFilter(n)
<1>5. applied \in 0..2 /\ active = <<f>> /\ n \in 1..3
  BY <1>2, WhileReading
<1>6. line_no + 1 \in 1..Len(L) /\ Line = L[line_no + 1] /\ Line \in AllLines
  BY <1>1, <1>2, FilesType DEF Line
<1>7. Evaluated(Line) = {f}
  <2>1. DOMAIN active = {1} /\ active[1] = f
    BY <1>5
  <2>2. \A k : k \notin 1..(1 - 1)
    OBVIOUS
  <2> HIDE DEF f
  <2> QED
    BY <2>1, <2>2 DEF Evaluated
<1>8. FiltersOut(f, Line) <=> line_no + 1 \notin C
  <2>1. CASE n = 1
    BY <1>6, <2>1, StageFilters DEF Choice
  <2>2. CASE n \in 2..3
    <3>1. f \in Keeping /\ (FiltersOut(f, Line) <=> ~IsBest(f, Line))
      BY <2>2, StageFilters
    <3>2. BestOf(f, Len(L))
      <4>1. applied = n - 1
        BY <1>1
      <4> QED
        BY <1>1, <1>2, <2>2, <4>1 DEF BestInv
    <3>3. C = FirstBest(f, L, 1..Len(L))
      BY <2>2 DEF Choice
    <3> HIDE DEF f, C
    <3> QED
      BY <1>1, <1>2, <3>1, <3>2, <3>3, BestIsChosen
  <2> QED
    BY <1>5, <2>1, <2>2
<1>9. \A i \in C : i \in 1..Len(L)
  BY DEF Choice, FirstBest
<1>10. Selected(Output.lines, L, {i \in C : i <= line_no})
  BY <1>1, <1>2 DEF ChoiceInv
<1> HIDE DEF L, C, f
<1>11. Selected(Output'.lines, L, {i \in C : i <= line_no + 1})
  <2>1. CASE line_no + 1 \notin C
    <3>1. Output' = Output
      BY <1>1, <1>7, <1>8, <2>1
    <3>2. \A i \in C : i <= line_no + 1 <=> i <= line_no
      <4> SUFFICES ASSUME NEW i \in C PROVE i <= line_no + 1 <=> i <= line_no
        OBVIOUS
      <4>1. i # line_no + 1 /\ i \in Int
        BY <1>9, <2>1
      <4> QED
        BY <1>1, <4>1
    <3>3. {i \in C : i <= line_no + 1} = {i \in C : i <= line_no}
      BY <3>2
    <3> QED
      BY <1>10, <3>1, <3>3
  <2>2. CASE line_no + 1 \in C
    <3> DEFINE is == {i \in C : i <= line_no}
               m  == line_no
               old == Output.lines
    <3>1. Output'.lines = Append(old, L[m + 1])
      BY <1>1, <1>6, <1>7, <1>8, <2>2 DEF L
    <3>2. is \in SUBSET (1..m)
      BY <1>1, <1>9
    <3>3. {i \in C : i <= line_no + 1} = is \cup {m + 1}
      <4>1. \A i \in C : i <= line_no + 1 <=> (i <= line_no \/ i = line_no + 1)
        <5> SUFFICES ASSUME NEW i \in C
                     PROVE  i <= line_no + 1 <=> (i <= line_no \/ i = line_no + 1)
          OBVIOUS
        <5>1. i \in Int
          BY <1>9
        <5> QED
          BY <1>1, <5>1
      <4> QED
        BY <2>2, <4>1
    <3>4. old \in Seq(AllLines)
      BY <1>1 DEF Files
    <3>5. m \in Nat /\ L[m + 1] \in AllLines
      BY <1>1, <1>6 DEF L
    <3>6. Selected(old, L, is)
      BY <1>10
    <3> HIDE DEF is, m, old
    <3>7. Selected(Append(old, L[m + 1]), L, is \cup {m + 1})
      BY <3>2, <3>4, <3>5, <3>6, SelectedNext
    <3> QED
      BY <3>1, <3>3, <3>7
  <2> QED
    BY <2>1, <2>2
<1>12. ChoiceInv'
  <2>1. ASSUME NEW k \in 1..applied
        PROVE  Selected(files'[k + 1].lines, files'[k].lines, Choice(k, files'[k].lines))
    <3>1. k \in 1..(applied + 1) /\ k + 1 \in 1..(applied + 1)
      BY <1>1
    <3>2. Selected(files[k + 1].lines, files[k].lines, Choice(k, files[k].lines))
      BY <1>2 DEF ChoiceInv
    <3> QED
      BY <1>1, <3>1, <3>2
  <2>2. (applied >= 2 => files'[2] = files[2]) /\ files'[1] = files[1]
    BY <1>1
  <2> QED
    BY <1>1, <1>2, <1>11, <2>1, <2>2 DEF ChoiceInv, L, C
<1> QED
  BY <1>3, <1>4, <1>12 DEF StageInv

\* All lines were read; of each kind the map names the best line.
LEMMA CloseFilesStage ==
    ASSUME Inv, StageInv, InStage', CloseFiles PROVE StageInv'
<1>1. /\ mode = "filter" /\ mode' = "caller" /\ line_no = Len(Input.lines)
      /\ applied' = applied + 1 /\ files' = files /\ best' = best /\ program' = program
      /\ active' = active /\ calls' = calls /\ Shape
  BY DEF CloseFiles, Inv
<1>2. InStage /\ PlaceInv /\ BestInv /\ ChoiceInv /\ Reading /\ ~Reading'
  BY <1>1 DEF StageInv, InStage, Reading
<1>3. applied \in 0..2 /\ Made = 3 * applied + 2
  BY <1>2, WhileReading
<1>4. PlaceInv'
  <2>1. Made' = Made
    BY <1>1 DEF Made
  <2> HIDE DEF Made
  <2>2. applied + 1 = (Made + 1) \div 3
    BY <1>3
  <2> QED
    BY <1>1, <1>2, <2>1, <2>2 DEF PlaceInv
<1>5. BestInv'
  <2> SUFFICES ASSUME NEW n \in 2..3, applied + 1 < n - 1 \/ applied + 1 = n - 1
               PROVE  DOMAIN best[StageFilter(n)] = {}
    BY <1>1, <1>2 DEF BestInv
  <2>1. applied < n - 1
    BY <1>3
  <2> QED
    BY <1>2, <2>1 DEF BestInv
<1>6. /\ Len(Input.lines) \in Nat
      /\ \A i \in Choice(applied + 1, Input.lines) : i \in 1..Len(Input.lines)
  <2>1. Len(Input.lines) \in Nat
    BY <1>1, FilesType
  <2>2. \A i \in Choice(applied + 1, Input.lines) : i \in 1..Len(Input.lines)
    BY DEF Choice, FirstBest
  <2> QED
    BY <2>1, <2>2
<1>7. ChoiceInv'
  <2>1. ASSUME NEW n \in 1..(applied + 1)
        PROVE  Selected(files[n + 1].lines, files[n].lines, Choice(n, files[n].lines))
    <3>1. CASE n \in 1..applied
      BY <1>2, <3>1 DEF ChoiceInv
    <3>2. CASE n = applied + 1
      <4> DEFINE C == Choice(applied + 1, Input.lines)
      <4>1. Selected(Output.lines, Input.lines, {i \in C : i <= line_no})
        BY <1>1, <1>2 DEF ChoiceInv
      <4>2. \A i \in C : i <= line_no
        BY <1>1, <1>6
      <4> HIDE DEF C
      <4>3. {i \in C : i <= line_no} = C
        BY <4>2
      <4>4. Selected(Output.lines, Input.lines, C)
        BY <4>1, <4>3
      <4>5. files[n + 1] = Output /\ files[n] = Input /\ C = Choice(n, files[n].lines)
        BY <1>3, <3>2 DEF Output, Input, C
      <4> QED
        BY <4>4, <4>5
    <3> QED
      BY <1>3, <3>1, <3>2
  <2>2. ASSUME applied + 1 >= 2
        PROVE  \A i \in 1..Len(files[2].lines) : \E j \in Choice(2, files[2].lines) :
                  Kind(StageFilter(2), files[2].lines[j]) = Kind(StageFilter(2), files[2].lines[i])
    <3>1. CASE applied >= 2
      BY <1>2, <3>1 DEF ChoiceInv
    <3>2. CASE applied = 1
      <4> DEFINE f == StageFilter(2)
      <4>1. Input = files[2]
        BY <3>2 DEF Input
      <4>2. BestOf(f, Len(Input.lines))
        <5>1. 2 \in 2..3 /\ applied = 2 - 1
          BY <3>2
        <5> QED
          BY <1>1, <1>2, <5>1 DEF BestInv
      <4>3. Choice(2, files[2].lines) = FirstBest(f, Input.lines, 1..Len(Input.lines))
        BY <4>1 DEF Choice
      <4> HIDE DEF f
      <4>4. \A i \in 1..Len(Input.lines) :
               \E j \in FirstBest(f, Input.lines, 1..Len(Input.lines)) :
                  Kind(f, Input.lines[j]) = Kind(f, Input.lines[i])
        BY <4>2 DEF BestOf
      <4> QED
        BY <4>1, <4>3, <4>4 DEF f
    <3> QED
      BY <1>3, <2>2, <3>1, <3>2
  <2>3. files[1] \in Inputs
    BY <1>2 DEF ChoiceInv
  <2> QED
    BY <1>1, <2>1, <2>2, <2>3 DEF ChoiceInv
<1> QED
  BY <1>4, <1>5, <1>7 DEF StageInv

LEMMA NextStage == Inv /\ StepInv /\ StageInv /\ [Next]_vars => StageInv'
<1> SUFFICES ASSUME Inv, StepInv, StageInv, [Next]_vars, InStage' PROVE StageInv'
  BY DEF StageInv
<1>1. CASE EnableFilter \/ DisableFilter \/ ClearAllFilters \/ Finish
  BY <1>1, CallerStage
<1>2. CASE OpenFiles
  BY <1>2, OpenFilesInv, OpenFilesStage
<1>3. CASE PrefilterLine
  BY <1>3, PrefilterLineStage
<1>4. CASE Rewind
  BY <1>4, RewindStage
<1>5. CASE FilterLine
  BY <1>5, FilterLineStage
<1>6. CASE CloseFiles
  BY <1>6, CloseFilesStage
<1>7. CASE UNCHANGED vars
  BY <1>7 DEF vars, StageInv, InStage, PlaceInv, BestInv, BestOf, ChoiceInv, Made, Reading,
              Input, Output
<1> QED
  BY <1>1, <1>2, <1>3, <1>4, <1>5, <1>6, <1>7 DEF Next, Ended

\* Lines that share no key with the others have the same best lines with them
\* and without.
LEMMA BestApart ==
    ASSUME NEW lines, NEW f, NEW is, NEW pair \in SUBSET is,
           \A i \in pair, j \in is \ pair : Kind(f, lines[i]) # Kind(f, lines[j])
    PROVE  FirstBest(f, lines, is) \cap pair = FirstBest(f, lines, pair)
<1> DEFINE Below(j, i) ==
               Kind(f, lines[j]) = Kind(f, lines[i]) =>
                  \/ AbsTiming(lines[j].timing) < AbsTiming(lines[i].timing)
                  \/ AbsTiming(lines[j].timing) = AbsTiming(lines[i].timing) /\ i <= j
<1>1. \A S : FirstBest(f, lines, S) = {i \in S : \A j \in S : Below(j, i)}
  BY DEF FirstBest
<1>2. \A i \in pair, j \in is \ pair : Below(j, i)
  OBVIOUS
<1> HIDE DEF Below
<1>3. \A i \in pair : (\A j \in is : Below(j, i)) <=> (\A j \in pair : Below(j, i))
  BY <1>2
<1> QED
  BY <1>1, <1>3

\* What the filter stage of main leaves is, in order, lines that use no cache
\* instruction, and of each pair of extensions that shares no key with another
\* pair the first of the strongest, for any file (osiris.cc:310-346): the keys of
\* other pairs may run into one another.
THEOREM StrongestKept == Spec => []StrongestOfEachPair
<1>1. ASSUME Inv, StepInv, StageInv, mode = "done", program = FilterStage
      PROVE  LET lines == files[1].lines
                 plain == {i \in DOMAIN lines : lines[i].cache = {}}
             IN  \E is \in SUBSET plain :
                    /\ files[4].lines = At(lines, is)
                    /\ \A i \in plain :
                          LET pair == {j \in plain :
                                         ExtensionsOf(lines[j]) = ExtensionsOf(lines[i])}
                          IN  Apart(lines, plain, i) =>
                                is \cap pair = FirstBest("MEASUREMENT_TRIGGER_EXTENSION_PAIRS",
                                                         lines, pair)
  <2> DEFINE L == files[1].lines
             P == {i \in DOMAIN L : L[i].cache = {}}
             s == files[2].lines
             t == files[3].lines
             u == files[4].lines
             f == StageFilter(2)
             g == StageFilter(3)
  <2>1. PlaceInv /\ ChoiceInv /\ ~Reading
    BY <1>1 DEF StageInv, InStage, Reading
  <2>2. applied = 3
    <3>1. Made = 8 /\ applied = (Made + 1) \div 3
      BY <1>1, <2>1 DEF PlaceInv
    <3> HIDE DEF Made
    <3> QED
      BY <3>1
  <2>3. /\ Selected(s, L, Choice(1, L)) /\ Selected(t, s, Choice(2, s))
        /\ Selected(u, t, Choice(3, t))
    <3>1. 1 \in 1..3 /\ 2 \in 1..3 /\ 3 \in 1..3 /\ 1 + 1 = 2 /\ 2 + 1 = 3 /\ 3 + 1 = 4
      OBVIOUS
    <3>2. \A n \in 1..3 :
             Selected(files[n + 1].lines, files[n].lines, Choice(n, files[n].lines))
      BY <2>1, <2>2 DEF ChoiceInv
    <3> HIDE DEF Choice
    <3> QED
      BY <3>1, <3>2
  <2>4. /\ L \in Seq(AllLines) /\ s \in Seq(AllLines) /\ t \in Seq(AllLines)
        /\ u \in Seq(AllLines)
    <3>1. files \in Seq(Files) /\ Len(files) \in Nat /\ Len(files) >= 4
      <4>1. Len(files) = Applications(program) + 1 /\ applied \in 0..Applications(program)
            /\ files \in Seq(Files) /\ Applications(program) \in Nat
        BY <1>1, StepTypes DEF StepInv, Inv
      <4> QED
        BY <2>2, <4>1
    <3>2. \A n \in 1..4 : files[n] \in Files
      <4> HIDE DEF Files
      <4> QED
        BY <3>1
    <3> QED
      BY <3>2 DEF Files
  <2>5. /\ DOMAIN L = 1..Len(L) /\ Len(L) \in Nat
        /\ \A i \in 1..Len(L) : L[i] \in AllLines /\ L[i].timing \in Int
    <3>1. DOMAIN L = 1..Len(L) /\ Len(L) \in Nat /\ \A i \in 1..Len(L) : L[i] \in AllLines
      <4> HIDE DEF L, AllLines
      <4> QED
        BY <2>4
    <3> QED
      BY <3>1, TimingType
  <2>6. P \in SUBSET Nat /\ \A i \in P : L[i].timing \in Int
    BY <2>5
  <2>7. /\ \A line : Kind(g, line) = ExtensionPair(line)
        /\ f \in Keeping /\ g \in Keeping
    BY DEF Kind, StageFilter, Keeping
  <2>8. /\ Selected(s, L, P)
        /\ Selected(t, s, FirstBest(f, s, 1..Len(s)))
        /\ Selected(u, t, FirstBest(g, t, 1..Len(t)))
        /\ Covered(f, s, 1..Len(s))
    <3>1. /\ Choice(1, L) = P /\ Choice(2, s) = FirstBest(f, s, 1..Len(s))
          /\ Choice(3, t) = FirstBest(g, t, 1..Len(t))
      BY <2>5 DEF Choice
    <3>2. \A a \in 1..Len(s) : \E b \in Choice(2, s) : Kind(f, s[b]) = Kind(f, s[a])
      BY <2>1, <2>2 DEF ChoiceInv
    <3> HIDE DEF f, g, P, L, s, t, u
    <3> QED
      BY <2>3, <3>1, <3>2 DEF Covered
  <2> HIDE DEF f, g, P, L, s, t, u
  <2> DEFINE B == FirstBest(f, L, P)
  <2>9. Selected(t, L, B) /\ Covered(f, L, P)
    BY <2>4, <2>6, <2>8, SelectedBest
  <2>10. B \in SUBSET Nat
    BY <2>6 DEF FirstBest
  <2> DEFINE is == FirstBest(g, L, B)
             pair(i) == {j \in P : ExtensionsOf(L[j]) = ExtensionsOf(L[i])}
  <2>11. ASSUME NEW i \in P, Apart(L, P, i)
         PROVE  is \cap pair(i) = FirstBest(g, L, pair(i))
    <3> DEFINE S == pair(i)
    <3>1. /\ S \in SUBSET P
          /\ \A j \in S, k \in P \ S : /\ Kind(f, L[j]) # Kind(f, L[k])
                                       /\ Kind(g, L[j]) # Kind(g, L[k])
      BY <2>7, <2>11 DEF Apart
    <3>2. \A j, k \in S : Kind(g, L[j]) = Kind(g, L[k])
      <4> SUFFICES ASSUME NEW j \in S, NEW k \in S
                   PROVE  Kind(g, L[j]) = Kind(g, L[k])
        OBVIOUS
      <4>1. ExtensionsOf(L[j]) = ExtensionsOf(L[k])
        OBVIOUS
      <4>2. /\ L[j].prop["measurement"]["extension"] = L[k].prop["measurement"]["extension"]
            /\ L[j].prop["trigger"]["extension"] = L[k].prop["trigger"]["extension"]
        BY <4>1 DEF ExtensionsOf
      <4> QED
        BY <2>7, <4>2 DEF ExtensionPair
    <3> HIDE DEF S
    <3>3. B \cap S = FirstBest(f, L, S)
      BY <3>1, BestApart DEF B
    <3>4. Covered(f, L, S)
      <4> SUFFICES ASSUME NEW a \in S
                   PROVE  \E b \in FirstBest(f, L, S) : Kind(f, L[b]) = Kind(f, L[a])
        BY DEF Covered
      <4>1. PICK b \in B : Kind(f, L[b]) = Kind(f, L[a])
        BY <2>9, <3>1 DEF Covered, B
      <4>2. b \in P
        BY DEF B, FirstBest
      <4> QED
        BY <3>1, <3>3, <4>1, <4>2
    <3>5. FirstBest(g, L, FirstBest(f, L, S)) = FirstBest(g, L, S)
      <4>1. S \in SUBSET Nat /\ \A j \in S : L[j].timing \in Int
        BY <2>6, <3>1
      <4> QED
        BY <3>2, <3>4, <4>1, BestOfBest
    <3>6. is \cap (B \cap S) = FirstBest(g, L, B \cap S)
      <4>1. \A j \in B \cap S, k \in B \ (B \cap S) : Kind(g, L[j]) # Kind(g, L[k])
        <5>1. B \subseteq P
          BY DEF B, FirstBest
        <5> QED
          BY <3>1, <5>1
      <4>2. B \cap S \in SUBSET B
        OBVIOUS
      <4> HIDE DEF B
      <4> QED
        BY <4>1, <4>2, BestApart
    <3>7. is \subseteq B
      BY DEF FirstBest
    <3> HIDE DEF is, B
    <3>8. is \cap S = FirstBest(g, L, S)
      BY <3>3, <3>5, <3>6, <3>7
    <3> QED
      BY <3>8 DEF S
  <2>12. Selected(u, L, is)
    <3> HIDE DEF B
    <3> QED
      BY <2>4, <2>8, <2>9, <2>10, SelectedBest
  <2>13. is \in SUBSET P
    BY DEF FirstBest
  <2>14. u = At(L, is)
    <3>1. is \in SUBSET Nat
      BY <2>6, <2>13
    <3> HIDE DEF is
    <3> QED
      BY <2>4, <2>12, <3>1, SelectedAt
  <2>15. g = "MEASUREMENT_TRIGGER_EXTENSION_PAIRS"
    BY DEF g, StageFilter
  <2> HIDE DEF is
  <2>16. \E S \in SUBSET P :
            /\ u = At(L, S)
            /\ \A i \in P : Apart(L, P, i) => S \cap pair(i) = FirstBest(g, L, pair(i))
    BY <2>11, <2>13, <2>14
  <2> QED
    BY <2>15, <2>16, Zenon DEF L, P, u
<1>2. Inv /\ StepInv /\ StageInv => StrongestOfEachPair
  BY <1>1 DEF StrongestOfEachPair
<1>3. Spec => [](Inv /\ StepInv /\ StageInv)
  BY InitInv, NextInv, InitStepInv, NextStepInv, InitStage, NextStage, StepInvariance, PTL DEF Spec
<1> QED
  BY <1>2, <1>3, PTL
=============================================================================
