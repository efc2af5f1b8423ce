-------------------------- MODULE Executor_proofs --------------------------
(***************************************************************************)
(* Proofs about Executor, for every set of tests, number of runs, set of   *)
(* cycle counts, cut-off and bound.                                        *)
(***************************************************************************)
EXTENDS Executor, FiniteSetTheorems, TLAPS

\* The page of a run that is still to be made is one of the two pages.
LEMMA RunPageType ==
    ASSUME TypeOK, Len(runs) < 2 * NumRuns
    PROVE  RunPage \in Pages
  BY DEF TypeOK, RunPage, Pages

LEMMA LastElement ==
    ASSUME NEW S, NEW seq \in Seq(S), Len(seq) # 0
    PROVE  seq[Len(seq)] \in S
  OBVIOUS

LEMMA CodeType ==
    ASSUME NEW t \in Tests, NEW p \in Pages
    PROVE  Code(t, p) \in Contents
  BY DEF Contents

\* A fetch yields something a page can hold; Empty never reaches the processor.
LEMMA FetchType ==
    ASSUME TypeOK, NEW p \in Pages
    PROVE  Fetch(p) \in Contents
  BY DEF TypeOK, Fetch

LEMMA InitInv == Init => Inv
<1> SUFFICES ASSUME Init PROVE Inv
  OBVIOUS
<1>1. Sandbox!TypeOK
  BY DEF Init, Sandbox!Init, Sandbox!TypeOK
<1>2. Blank \in Contents
  BY DEF Contents
<1>3. TypeOK
  <2>1. 0 \in 0..MaxTests
    BY ExecutorAssumption
  <2>2. <<>> \in Seq([page : Pages, cycles : Cycles \cup {-1}])
    OBVIOUS
  <2>3. [p \in Pages |-> <<>>] \in [Pages -> Seq(Int)]
    OBVIOUS
  <2> QED
    BY <1>1, <1>2, <2>1, <2>2, <2>3 DEF Init, TypeOK, Invalidated, NoOutcome
<1> QED
  BY <1>3 DEF Init, Inv, PagesInv, BusyInv, CoherenceInv, DataInv, Sandbox!Init

\* The sandbox keeps its own types.
LEMMA SandboxTypes ==
    /\ Sandbox!TypeOK /\ Sandbox!Next => Sandbox!TypeOK'
    /\ Sandbox!TypeOK /\ UNCHANGED sandbox => Sandbox!TypeOK'
<1>1. ASSUME Sandbox!TypeOK, Sandbox!Next PROVE Sandbox!TypeOK'
  BY <1>1 DEF Sandbox!TypeOK, Sandbox!Next, Sandbox!Start, Sandbox!Begin,
     Sandbox!Succeed, Sandbox!Fail, Sandbox!Die, Sandbox!HarnessDies,
     Sandbox!Stop, Sandbox!Results, Sandbox!FaultResult
<1>2. ASSUME Sandbox!TypeOK, UNCHANGED sandbox PROVE Sandbox!TypeOK'
  BY <1>2 DEF Sandbox!TypeOK, sandbox
<1> QED
  BY <1>1, <1>2

\* Every step preserves the invariant.
LEMMA NextInv == Inv /\ [Next]_vars => Inv'
<1> SUFFICES ASSUME Inv, [Next]_vars PROVE Inv'
  OBVIOUS
<1> USE NumRunsAssumption
<1>1. CASE Construct
  <2>1. Sandbox!TypeOK'
    BY <1>1, SandboxTypes DEF Construct, Inv, TypeOK, Sandbox!Next
  <2> QED
    BY <1>1, <2>1 DEF Construct, Sandbox!Start, Inv, TypeOK, PagesInv, BusyInv,
       CoherenceInv, DataInv
<1>2. ASSUME NEW t \in Tests, BeginTest(t) PROVE Inv'
  <2>1. Sandbox!TypeOK'
    BY <1>2, SandboxTypes DEF BeginTest, Inv, TypeOK
  <2>2. mem' \in [Pages -> Contents] /\ icache' \in [Pages -> Contents \cup {Empty}]
    BY <1>2, CodeType DEF BeginTest, Flush, FlushFails, Invalidated, Inv, TypeOK
  <2>3. tests' \in 0..MaxTests
    BY <1>2, ExecutorAssumption DEF BeginTest, Inv, TypeOK
  <2>4. TypeOK'
    BY <1>2, <2>1, <2>2, <2>3 DEF BeginTest, Inv, TypeOK, NoOutcome
  <2> QED
    BY <1>2, <2>4 DEF BeginTest, sandbox, Inv, PagesInv, BusyInv, CoherenceInv, DataInv
<1>3. CASE BeginRun
  <2>1. Sandbox!TypeOK'
    BY <1>3, SandboxTypes DEF BeginRun, Inv, TypeOK, Sandbox!Next
  <2>2. icache' \in [Pages -> Contents \cup {Empty}]
    BY <1>3 DEF BeginRun, Flush, FlushFails, Invalidated, Inv, TypeOK
  <2>3. TypeOK'
    BY <1>3, <2>1, <2>2 DEF BeginRun, Inv, TypeOK
  <2> QED
    BY <1>3, <2>3 DEF BeginRun, Flush, FlushFails, Invalidated, Inv, PagesInv,
       BusyInv, CoherenceInv, DataInv
<1>4. ASSUME NEW c \in Cycles, RunReturns(c) PROVE Inv'
  <2>1. Sandbox!TypeOK' /\ st' = "idle"
    BY <1>4, SandboxTypes
    DEF RunReturns, Inv, TypeOK, Sandbox!Next, Sandbox!Succeed
  <2>2. RunPage \in Pages /\ Fetch(RunPage) \in Contents
    BY <1>4, RunPageType, FetchType DEF RunReturns, Sandbox!Succeed, Inv, BusyInv
  <2>3. icache' \in [Pages -> Contents \cup {Empty}]
    BY <1>4, <2>2 DEF RunReturns, Flush, Invalidated, Inv, TypeOK
  <2>4. runs' \in Seq([page : Pages, cycles : Cycles \cup {-1}])
    BY <1>4, <2>2 DEF RunReturns, Ran, Inv, TypeOK
  <2>5. samples' \in [Pages -> Seq(Int)]
    <3>1. c \in Int /\ samples \in [Pages -> Seq(Int)] /\ samples' = Collect(c)
      BY <1>4, ExecutorAssumption DEF RunReturns, Inv, TypeOK
    <3>2. ASSUME RunPage = 1, test.kind = "triple"
          PROVE  runs[Len(runs)].cycles - c \in Int
      <4> DEFINE R == [page : Pages, cycles : Cycles \cup {-1}]
      <4>1. runs \in Seq(R)
        BY DEF Inv, TypeOK
      <4>2. Len(runs) % 2 = 1
        BY <3>2 DEF RunPage
      <4>3. Len(runs) \in Nat /\ Len(runs) # 0
        BY <4>1, <4>2
      <4>4. runs[Len(runs)] \in R
        BY <4>1, <4>3, LastElement
      <4>5. runs[Len(runs)].cycles \in Cycles \cup {-1}
        BY <4>4
      <4>6. runs[Len(runs)].cycles \in Int
        <5>1. Cycles \cup {-1} \subseteq Int
          BY ExecutorAssumption
        <5> HIDE DEF R
        <5> QED
          BY <4>5, <5>1
      <4> QED
        BY <3>1, <4>6
    <3> QED
      BY <2>2, <3>1, <3>2 DEF Collect, Pages
  <2>6. TypeOK'
    BY <1>4, <2>1, <2>3, <2>4, <2>5 DEF RunReturns, Inv, TypeOK
  <2> QED
    BY <1>4, <2>1, <2>6 DEF RunReturns, Inv, PagesInv, BusyInv, CoherenceInv, DataInv
<1>5. ASSUME NEW s \in CaughtSignals, RunFaults(s) PROVE Inv'
  <2>1. Sandbox!TypeOK' /\ st' = "idle"
    BY <1>5, SandboxTypes, ExecutorAssumption
    DEF RunFaults, Inv, TypeOK, Sandbox!Next, Sandbox!Fail
  <2>2. RunPage \in Pages /\ Fetch(RunPage) \in Contents
    BY <1>5, RunPageType, FetchType DEF RunFaults, Sandbox!Fail, Inv, BusyInv
  <2>3. icache' \in [Pages -> Contents \cup {Empty}]
    BY <1>5, <2>2 DEF RunFaults, Inv, TypeOK
  <2>4. runs' \in Seq([page : Pages, cycles : Cycles \cup {-1}])
    BY <1>5, <2>2 DEF RunFaults, Ran, Inv, TypeOK
  <2>5. TypeOK'
    BY <1>5, <2>1, <2>3, <2>4 DEF RunFaults, Inv, TypeOK
  <2> QED
    BY <1>5, <2>1, <2>5 DEF RunFaults, Inv, PagesInv, BusyInv, CoherenceInv, DataInv
<1>6. ASSUME NEW s \in Sandbox!Fatal, RunKills(s) PROVE Inv'
  <2>1. Sandbox!TypeOK' /\ st' = "dead"
    BY <1>6, SandboxTypes DEF RunKills, Inv, TypeOK, Sandbox!Next, Sandbox!Die
  <2> QED
    BY <1>6, <2>1 DEF RunKills, Inv, TypeOK, PagesInv, BusyInv, CoherenceInv, DataInv
<1>7. CASE FinishTest
  <2>1. Sandbox!TypeOK'
    BY <1>7, SandboxTypes DEF FinishTest, Inv, TypeOK
  <2> QED
    BY <1>7, <2>1 DEF FinishTest, sandbox, Inv, TypeOK, PagesInv, BusyInv,
       CoherenceInv, DataInv
<1>8. ASSUME NEW p \in Pages, Prefetch(p) PROVE Inv'
  <2>1. Sandbox!TypeOK'
    BY <1>8, SandboxTypes DEF Prefetch, Inv, TypeOK
  <2>2. icache' \in [Pages -> Contents \cup {Empty}]
    BY <1>8, FetchType DEF Prefetch, Inv, TypeOK
  <2>3. TypeOK'
    BY <1>8, <2>1, <2>2 DEF Prefetch, Inv, TypeOK
  <2> QED
    BY <1>8, <2>3 DEF Prefetch, Fetch, sandbox, Inv, TypeOK, PagesInv, BusyInv,
       CoherenceInv, DataInv
<1>9. ASSUME NEW p \in Pages, WriteBack(p) PROVE Inv'
  <2>1. Sandbox!TypeOK'
    BY <1>9, SandboxTypes DEF WriteBack, Inv, TypeOK
  <2>2. pou' \in [Pages -> Contents]
    BY <1>9 DEF WriteBack, Inv, TypeOK
  <2>3. TypeOK'
    BY <1>9, <2>1, <2>2 DEF WriteBack, Inv, TypeOK
  <2> QED
    BY <1>9, <2>3 DEF WriteBack, sandbox, Inv, PagesInv, BusyInv, CoherenceInv, DataInv
<1>10. CASE UNCHANGED vars
  <2>1. Sandbox!TypeOK'
    BY <1>10, SandboxTypes DEF vars, sandbox, Inv, TypeOK
  <2> QED
    BY <1>10, <2>1 DEF vars, Inv, TypeOK, PagesInv, BusyInv, CoherenceInv, DataInv
<1> QED
  BY <1>1, <1>2, <1>3, <1>4, <1>5, <1>6, <1>7, <1>8, <1>9, <1>10
  DEF Next, EndRun, Finished

\* The inductive invariant of the tests holds in every state.
THEOREM Invariance == Spec => []Inv
  BY InitInv, NextInv, PTL DEF Spec

\* A run after a successful ic iallu executes the code of its own test.
THEOREM OwnCodeRuns == Spec => []RunsOwnCode
<1>1. Inv => RunsOwnCode
  BY RunPageType DEF Inv, PagesInv, BusyInv, CoherenceInv, RunsOwnCode, Fetch
<1> QED
  BY Invariance, <1>1, PTL

-----------------------------------------------------------------------------
(* What a test answers, and the runs it made *)

\* The page of the run with n runs before it, see RunPage.
PageAt(n) ==
    IF test.kind = "triple" THEN n % 2 ELSE IF n < NumRuns THEN 0 ELSE 1

\* The runs of a test so far: each was of the page whose turn it was, and only
\* the last may have faulted, which ends the test.
RunsInv ==
    /\ phase # "none" => \A i \in 1..Len(runs) : runs[i].page = PageAt(i - 1)
    /\ phase = "testing" => \A i \in 1..Len(runs) : ~Faulted(runs[i])
    /\ phase = "done" =>
          \/ /\ outcome = [error |-> 1, difference |-> -1]
             /\ Len(runs) # 0 /\ Faulted(runs[Len(runs)])
             /\ \A i \in 1..(Len(runs) - 1) : ~Faulted(runs[i])
          \/ /\ outcome.error = 0
             /\ Len(runs) = 2 * NumRuns
             /\ \A i \in 1..Len(runs) : ~Faulted(runs[i])

\* Appending a run.
LEMMA RunAppended ==
    ASSUME TypeOK, RunsInv, phase = "testing", NEW c, runs' = Append(runs, Ran(c)),
           UNCHANGED test
    PROVE  /\ Len(runs') = Len(runs) + 1
           /\ \A i \in 1..Len(runs) : runs'[i] = runs[i]
           /\ runs'[Len(runs')].cycles = c
           /\ \A i \in 1..Len(runs') : runs'[i].page = PageAt(i - 1)'
<1> DEFINE R == [page : Pages, cycles : Cycles \cup {-1}]
           r == Ran(c)
<1>1. runs \in Seq(R) /\ Len(runs) \in Nat
  BY DEF TypeOK
<1>2. /\ Len(runs') = Len(runs) + 1
      /\ \A i \in 1..Len(runs) : runs'[i] = runs[i]
      /\ runs'[Len(runs) + 1] = r
  <2> HIDE DEF R, r
  <2>1. runs' = Append(runs, r)
    BY DEF r
  <2> QED
    BY <1>1, <2>1
<1>3. r.cycles = c /\ r.page = PageAt(Len(runs))
  BY DEF Ran, RunPage, PageAt
<1>4. \A n : PageAt(n)' = PageAt(n)
  BY DEF PageAt
<1> HIDE DEF r, R
<1>5. \A i \in 1..Len(runs') : runs'[i].page = PageAt(i - 1)
  <2> SUFFICES ASSUME NEW i \in 1..(Len(runs) + 1)
               PROVE  runs'[i].page = PageAt(i - 1)
    BY <1>2
  <2>1. CASE i \in 1..Len(runs)
    BY <1>2, <2>1 DEF RunsInv
  <2>2. CASE i = Len(runs) + 1
    <3>1. i - 1 = Len(runs)
      BY <1>1, <2>2
    <3> QED
      BY <1>2, <1>3, <2>2, <3>1
  <2> QED
    BY <1>1, <2>1, <2>2
<1> QED
  BY <1>2, <1>3, <1>4, <1>5

LEMMA NextRunsInv == Inv /\ RunsInv /\ [Next]_vars => RunsInv'
<1> SUFFICES ASSUME Inv, RunsInv, [Next]_vars PROVE RunsInv'
  OBVIOUS
<1>0. TypeOK /\ Len(runs) \in Nat
  BY DEF Inv, TypeOK
<1>1. ASSUME NEW t \in Tests, BeginTest(t) PROVE RunsInv'
  BY <1>1 DEF BeginTest, RunsInv
<1>2. ASSUME NEW c \in Cycles, RunReturns(c) PROVE RunsInv'
  <2>1. phase = "testing" /\ phase' = phase /\ runs' = Append(runs, Ran(c)) /\ UNCHANGED test
    BY <1>2 DEF RunReturns
  <2>2. /\ Len(runs') = Len(runs) + 1
        /\ \A i \in 1..Len(runs) : runs'[i] = runs[i]
        /\ runs'[Len(runs')].cycles = c
        /\ \A i \in 1..Len(runs') : runs'[i].page = PageAt(i - 1)'
    BY <1>0, <2>1, RunAppended
  <2>3. c # -1
    BY ExecutorAssumption
  <2>4. \A i \in 1..Len(runs') : ~Faulted(runs'[i])
    <3> SUFFICES ASSUME NEW i \in 1..(Len(runs) + 1)
                 PROVE  runs'[i].cycles # -1
      BY <2>2 DEF Faulted
    <3>1. CASE i \in 1..Len(runs)
      BY <2>1, <2>2, <3>1 DEF RunsInv, Faulted
    <3>2. CASE i = Len(runs) + 1
      BY <2>2, <2>3, <3>2
    <3> QED
      BY <1>0, <3>1, <3>2
  <2> QED
    BY <2>1, <2>2, <2>4 DEF RunsInv, Faulted
<1>3. ASSUME NEW s \in CaughtSignals, RunFaults(s) PROVE RunsInv'
  <2>1. /\ phase = "testing" /\ phase' = "done" /\ runs' = Append(runs, Ran(-1))
        /\ UNCHANGED test /\ outcome' = [error |-> 1, difference |-> -1]
    BY <1>3 DEF RunFaults
  <2>2. /\ Len(runs') = Len(runs) + 1
        /\ \A i \in 1..Len(runs) : runs'[i] = runs[i]
        /\ runs'[Len(runs')].cycles = -1
        /\ \A i \in 1..Len(runs') : runs'[i].page = PageAt(i - 1)'
    BY <1>0, <2>1, RunAppended
  <2>3. \A i \in 1..(Len(runs') - 1) : ~Faulted(runs'[i])
    BY <1>0, <2>1, <2>2 DEF RunsInv, Faulted
  <2> QED
    BY <1>0, <2>1, <2>2, <2>3 DEF RunsInv, Faulted
<1>4. CASE FinishTest
  BY <1>4 DEF FinishTest, RunsInv, Faulted, PageAt
<1>5. CASE UNCHANGED <<phase, runs, test, outcome>>
  BY <1>5 DEF RunsInv, Faulted, PageAt
<1>6. CASE Construct \/ BeginRun \/ Finished \/ UNCHANGED vars
           \/ (\E s \in Sandbox!Fatal : RunKills(s))
           \/ (\E p \in Pages : Prefetch(p) \/ WriteBack(p))
  BY <1>5, <1>6 DEF Construct, BeginRun, Finished, RunKills, Prefetch, WriteBack, vars
<1> QED
  BY <1>1, <1>2, <1>3, <1>4, <1>6 DEF Next, EndRun

\* A set that is counted off has as many elements.
LEMMA Counted ==
    ASSUME NEW n \in Nat, NEW T, NEW f \in [1..n -> T],
           \A j, k \in 1..n : f[j] = f[k] => j = k,
           \A i \in T : \E k \in 1..n : f[k] = i
    PROVE  Cardinality(T) = n
<1>1. f \in Bijection(1..n, T)
  BY DEF Bijection, Injection, Surjection, IsInjective
<1>2. ExistsBijection(1..n, T)
  BY <1>1 DEF ExistsBijection
<1> QED
  BY <1>2, FS_CountingElements

\* Of 2n runs in either order each page has n.
LEMMA EachPageRuns ==
    ASSUME NEW p \in Pages
    PROVE  Cardinality({i \in 1..(2 * NumRuns) : PageAt(i - 1) = p}) = NumRuns
<1> DEFINE T == {i \in 1..(2 * NumRuns) : PageAt(i - 1) = p}
           n == NumRuns
           f == [k \in 1..n |-> IF test.kind = "triple" THEN 2 * k - 1 + p ELSE k + p * n]
<1>1. n \in Nat /\ p \in {0, 1}
  BY NumRunsAssumption DEF Pages
<1>2. CASE test.kind = "triple"
  <2>1. \A k \in 1..n : f[k] = 2 * k - 1 + p
    BY <1>2
  <2>2. \A i \in 1..(2 * n) : i \in T <=> (i - 1) % 2 = p
    BY <1>2 DEF PageAt
  <2> HIDE DEF T, f, n
  <2>3. \A k \in 1..n : f[k] \in T
    <3> SUFFICES ASSUME NEW k \in 1..n PROVE f[k] \in T
      OBVIOUS
    <3> DEFINE e == 2 * k - 1 + p
    <3>1. e \in 1..(2 * n) /\ (e - 1) % 2 = p
      BY <1>1
    <3>2. f[k] = e
      BY <2>1
    <3> HIDE DEF e
    <3> QED
      BY <2>2, <3>1, <3>2
  <2>4. \A j, k \in 1..n : f[j] = f[k] => j = k
    BY <1>1, <2>1
  <2>5. \A i \in T : \E k \in 1..n : f[k] = i
    <3> SUFFICES ASSUME NEW i \in T PROVE \E k \in 1..n : f[k] = i
      OBVIOUS
    <3>1. i \in 1..(2 * n) /\ (i - 1) % 2 = p
      BY <2>2 DEF T, n
    <3>2. PICK k \in Int : i - 1 = 2 * k + p
      <4> DEFINE m == i - 1
      <4>1. m \in Int /\ m % 2 = p
        BY <3>1
      <4> HIDE DEF m
      <4>2. m \div 2 \in Int /\ m = 2 * (m \div 2) + (m % 2)
        BY <4>1
      <4> QED
        BY <4>1, <4>2 DEF m
    <3>3. k + 1 \in 1..n /\ 2 * (k + 1) - 1 + p = i
      BY <1>1, <3>1, <3>2
    <3> QED
      BY <2>1, <3>3
  <2>6. f \in [1..n -> T]
    BY <2>3 DEF f
  <2>7. Cardinality(T) = n
    BY <1>1, <2>4, <2>5, <2>6, Counted
  <2> QED
    BY <2>7 DEF T, n
<1>3. CASE test.kind # "triple"
  <2>1. \A k \in 1..n : f[k] = k + p * n
    BY <1>3
  <2>2. \A i \in 1..(2 * n) : i \in T <=> (IF i - 1 < n THEN 0 ELSE 1) = p
    BY <1>3 DEF PageAt
  <2> HIDE DEF T, f
  <2>3. p * n = IF p = 0 THEN 0 ELSE n
    BY <1>1
  <2> HIDE DEF n
  <2>4. \A k \in 1..n : f[k] \in T
    BY <1>1, <2>1, <2>2, <2>3
  <2>5. \A j, k \in 1..n : f[j] = f[k] => j = k
    BY <1>1, <2>1, <2>3
  <2>6. \A i \in T : \E k \in 1..n : f[k] = i
    <3> SUFFICES ASSUME NEW i \in T PROVE \E k \in 1..n : f[k] = i
      OBVIOUS
    <3>1. i \in 1..(2 * n) /\ (IF i - 1 < n THEN 0 ELSE 1) = p
      BY <2>2 DEF T, n
    <3>2. i - p * n \in 1..n /\ (i - p * n) + p * n = i
      BY <1>1, <2>3, <3>1
    <3> QED
      BY <2>1, <3>2
  <2>7. f \in [1..n -> T]
    BY <2>4 DEF f
  <2>8. Cardinality(T) = n
    BY <1>1, <2>5, <2>6, <2>7, Counted
  <2> QED
    BY <2>8 DEF T, n
<1> QED
  BY <1>2, <1>3

\* A test reports an error exactly when a run faulted, with -1 and no run after
\* it; else each page ran NumRuns times (executor.cc:941-1143).
THEOREM OutcomesMatchRuns == Spec => []OutcomeMatchesRuns
<1>1. Init => RunsInv
  BY DEF Init, RunsInv
<1>2. Inv /\ RunsInv => OutcomeMatchesRuns
  <2> SUFFICES ASSUME Inv, RunsInv, phase = "done"
               PROVE  OutcomeMatchesRuns
    BY DEF OutcomeMatchesRuns
  <2>1. Len(runs) \in Nat /\ DOMAIN runs = 1..Len(runs)
    BY DEF Inv, TypeOK
  <2>2. CASE /\ outcome = [error |-> 1, difference |-> -1]
             /\ Len(runs) # 0 /\ Faulted(runs[Len(runs)])
             /\ \A i \in 1..(Len(runs) - 1) : ~Faulted(runs[i])
    <3>1. Len(runs) \in DOMAIN runs
      BY <2>1, <2>2
    <3>2. \A i \in DOMAIN runs : Faulted(runs[i]) => i = Len(runs)
      BY <2>1, <2>2
    <3> QED
      BY <2>2, <3>1, <3>2 DEF OutcomeMatchesRuns
  <2>3. CASE /\ outcome.error = 0
             /\ Len(runs) = 2 * NumRuns
             /\ \A i \in 1..Len(runs) : ~Faulted(runs[i])
    <3>1. ASSUME NEW p \in Pages
          PROVE  Cardinality({i \in DOMAIN runs : runs[i].page = p}) = NumRuns
      <4>1. {i \in DOMAIN runs : runs[i].page = p} =
               {i \in 1..(2 * NumRuns) : PageAt(i - 1) = p}
        BY <2>1, <2>3 DEF RunsInv
      <4> QED
        BY <4>1, EachPageRuns
    <3> QED
      BY <2>1, <2>3, <3>1 DEF OutcomeMatchesRuns
  <2> QED
    BY <2>2, <2>3 DEF RunsInv
<1>3. Init /\ [][Next]_vars => [](Inv /\ RunsInv)
  BY <1>1, InitInv, NextInv, NextRunsInv, PTL
<1> QED
  BY <1>2, <1>3, PTL DEF Spec


-----------------------------------------------------------------------------
(* Medians.  Nothing is proved by induction: the order that sorts a sequence *)
(* is the inverse of the function that counts what comes before an element. *)

\* A sequence can be sorted, so that the choice in Sorted is of such an order.
LEMMA CanBeSorted ==
    ASSUME NEW values \in Seq(Int)
    PROVE  \E order \in [DOMAIN values -> DOMAIN values] : Ascending(values, order)
<1> DEFINE n == Len(values)
           D == 1..n
<1>1. n \in Nat /\ DOMAIN values = D /\ \A i \in D : values[i] \in Int
  OBVIOUS
<1> DEFINE Before(i) == {j \in D : \/ values[j] < values[i]
                                   \/ values[j] = values[i] /\ j <= i}
           r == [i \in D |-> Cardinality(Before(i))]
<1>2. IsFiniteSet(D) /\ Cardinality(D) = n
  <2> HIDE DEF n
  <2> QED
    BY <1>1, FS_Interval
<1>3. \A i \in D : /\ Before(i) \in SUBSET D /\ i \in Before(i)
                   /\ IsFiniteSet(Before(i)) /\ Cardinality(Before(i)) \in D
  <2> SUFFICES ASSUME NEW i \in D
               PROVE  /\ Before(i) \in SUBSET D /\ i \in Before(i)
                      /\ IsFiniteSet(Before(i)) /\ Cardinality(Before(i)) \in D
    OBVIOUS
  <2>1. Before(i) \in SUBSET D /\ i \in Before(i)
    BY <1>1
  <2> HIDE DEF Before, D, n
  <2>2. IsFiniteSet(Before(i)) /\ Cardinality(Before(i)) <= n
    BY <1>2, <2>1, FS_Subset
  <2>3. Cardinality(Before(i)) # 0 /\ Cardinality(Before(i)) \in Nat
    BY <2>1, <2>2, FS_EmptySet, FS_CardinalityType
  <2> QED
    BY <1>1, <2>1, <2>2, <2>3 DEF D
<1>4. \A i, j \in D : i # j => i \in Before(j) \/ j \in Before(i)
  BY <1>1
<1>5. \A i, j \in D : i # j /\ i \in Before(j) => r[i] < r[j]
  <2> SUFFICES ASSUME NEW i \in D, NEW j \in D, i # j, i \in Before(j)
               PROVE  r[i] < r[j]
    OBVIOUS
  <2>1. Before(i) \in SUBSET Before(j) /\ j \notin Before(i)
    BY <1>1
  <2>2. r[i] = Cardinality(Before(i)) /\ r[j] = Cardinality(Before(j))
    OBVIOUS
  <2> HIDE DEF Before, r, D, n
  <2>3. Cardinality(Before(i)) <= Cardinality(Before(j))
    BY <1>3, <2>1, FS_Subset
  <2>4. Cardinality(Before(i)) # Cardinality(Before(j))
    BY <1>3, <2>1, FS_Subset
  <2> QED
    BY <1>1, <1>3, <2>2, <2>3, <2>4 DEF D
<1>6. r \in [D -> D]
  BY <1>3
<1> HIDE DEF r
<1>7. r \in Injection(D, D)
  <2>1. ASSUME NEW i \in D, NEW j \in D, r[i] = r[j], i # j PROVE FALSE
    <3>1. r[i] \in Int /\ r[j] \in Int
      BY <1>1, <1>6
    <3> HIDE DEF Before, D, n
    <3>2. r[i] < r[j] \/ r[j] < r[i]
      BY <1>4, <1>5, <2>1
    <3> QED
      BY <2>1, <3>1, <3>2
  <2> QED
    BY <1>6, <2>1 DEF Injection, IsInjective
<1>8. \A k \in D : \E i \in D : r[i] = k
  <2> HIDE DEF Before, D, n
  <2>1. r \in Surjection(D, D)
    BY <1>2, <1>7, FS_Injection
  <2> QED
    BY <2>1 DEF Surjection
<1> DEFINE p == [k \in D |-> CHOOSE i \in D : r[i] = k]
<1>9. \A k \in D : p[k] \in D /\ r[p[k]] = k
  <2> HIDE DEF Before, D, n
  <2> QED
    BY <1>8
<1>10. p \in [D -> D]
  BY <1>9
<1> HIDE DEF p
<1>11. \A j, k \in D : j <= k => values[p[j]] <= values[p[k]]
  <2> SUFFICES ASSUME NEW j \in D, NEW k \in D, j <= k, ~(values[p[j]] <= values[p[k]])
               PROVE  FALSE
    OBVIOUS
  <2>1. p[j] \in D /\ p[k] \in D /\ r[p[j]] = j /\ r[p[k]] = k
    BY <1>9
  <2>2. p[k] \in Before(p[j]) /\ p[k] # p[j]
    BY <1>1, <2>1
  <2>3. r[p[k]] < r[p[j]]
    BY <1>5, <2>1, <2>2
  <2> QED
    BY <1>1, <2>1, <2>3
<1>12. \A j, k \in D : p[j] = p[k] => j = k
  BY <1>9
<1> QED
  BY <1>1, <1>10, <1>11, <1>12 DEF Ascending

\* A family of values F is listed by the sequence s, in whatever order.
Lists(s, F) ==
    \E g \in [1..Len(s) -> DOMAIN F] :
        /\ \A j, k \in 1..Len(s) : g[j] = g[k] => j = k
        /\ \A i \in DOMAIN F : \E k \in 1..Len(s) : g[k] = i
        /\ \A k \in 1..Len(s) : s[k] = F[g[k]]

\* The n positions of F, by ascending value.
Sorts(h, F, n) ==
    /\ n \in Nat
    /\ F \in [DOMAIN F -> Int]
    /\ h \in [1..n -> DOMAIN F]
    /\ \A j, k \in 1..n : h[j] = h[k] => j = k
    /\ \A i \in DOMAIN F : \E k \in 1..n : h[k] = i
    /\ \A j, k \in 1..n : j <= k => F[h[j]] <= F[h[k]]

\* The k-th of them is of rank k.
LEMMA RankOfSorted ==
    ASSUME NEW n, NEW F, NEW h, Sorts(h, F, n)
    PROVE  \A k \in 1..n : Ranked(F, k) = F[h[k]]
<1> DEFINE I == DOMAIN F
<1>0. /\ n \in Nat /\ F \in [I -> Int]
      /\ h \in [1..n -> I]
      /\ \A j, l \in 1..n : h[j] = h[l] => j = l
      /\ \A i \in I : \E l \in 1..n : h[l] = i
      /\ \A j, l \in 1..n : j <= l => F[h[j]] <= F[h[l]]
  BY DEF Sorts
<1> SUFFICES ASSUME NEW k \in 1..n
             PROVE  Ranked(F, k) = F[h[k]]
  OBVIOUS
<1> HIDE DEF I
<1> DEFINE Below(x) == {i \in I : F[i] < x}
           UpTo(x)  == {i \in I : F[i] <= x}
           Fits(x)  == Cardinality(Below(x)) < k /\ Cardinality(UpTo(x)) >= k
<1>1. DOMAIN F = I /\ \A i \in I : F[i] \in Int
  BY <1>0
<1>2. IsFiniteSet(I)
  <2>1. h \in Surjection(1..n, I)
    BY <1>0 DEF Surjection
  <2> QED
    BY <1>0, <2>1, FS_Interval, FS_Surjection
<1>3. \A x : /\ IsFiniteSet(Below(x)) /\ Cardinality(Below(x)) \in Nat
             /\ IsFiniteSet(UpTo(x)) /\ Cardinality(UpTo(x)) \in Nat
  <2> TAKE x
  <2>1. Below(x) \in SUBSET I /\ UpTo(x) \in SUBSET I
    OBVIOUS
  <2> HIDE DEF Below, UpTo
  <2> QED
    BY <1>2, <2>1, FS_Subset, FS_CardinalityType
<1>4. Cardinality(Below(F[h[k]])) < k
  <2> DEFINE e == [j \in 1..(k - 1) |-> h[j]]
             B == Below(F[h[k]])
             E == {h[j] : j \in 1..(k - 1)}
  <2>1. \A i \in B : \E j \in 1..(k - 1) : h[j] = i
    <3> SUFFICES ASSUME NEW i \in I, F[i] < F[h[k]]
                 PROVE  \E j \in 1..(k - 1) : h[j] = i
      OBVIOUS
    <3>1. PICK j \in 1..n : h[j] = i
      BY <1>0
    <3>2. ~(k <= j)
      <4>1. F[h[k]] \in Int /\ F[h[j]] \in Int
        BY <1>0
      <4> QED
        BY <1>0, <3>1, <4>1
    <3> QED
      BY <3>1, <3>2
  <2>2. e \in Surjection(1..(k - 1), E)
    BY DEF Surjection
  <2>3. B \in SUBSET E
    BY <2>1
  <2> HIDE DEF B, E, e
  <2>4. IsFiniteSet(1..(k - 1)) /\ Cardinality(1..(k - 1)) = k - 1
    BY FS_Interval
  <2>5. IsFiniteSet(E) /\ Cardinality(E) <= k - 1
    BY <2>2, <2>4, FS_Surjection
  <2>6. Cardinality(B) <= Cardinality(E) /\ Cardinality(B) \in Nat /\ Cardinality(E) \in Nat
    BY <2>3, <2>5, FS_Subset, FS_CardinalityType
  <2> QED
    BY <2>5, <2>6 DEF B
<1>5. Cardinality(UpTo(F[h[k]])) >= k
  <2> DEFINE e == [j \in 1..k |-> h[j]]
             U == UpTo(F[h[k]])
  <2>1. \A j \in 1..k : h[j] \in U
    BY <1>0
  <2>2. e \in Injection(1..k, U)
    BY <1>0, <2>1 DEF Injection, IsInjective
  <2> HIDE DEF U, e
  <2>3. IsFiniteSet(1..k) /\ Cardinality(1..k) = k
    BY FS_Interval
  <2>4. IsFiniteSet(U) /\ Cardinality(U) \in Nat
    BY <1>3 DEF U
  <2>5. Cardinality(1..k) <= Cardinality(U)
    BY <2>2, <2>4, FS_Injection
  <2> QED
    BY <2>3, <2>4, <2>5 DEF U
<1>6. ASSUME NEW x \in Int, NEW y \in Int, x < y, Fits(x), Fits(y)
      PROVE  FALSE
  <2>1. UpTo(x) \in SUBSET Below(y)
    BY <1>1, <1>6
  <2> HIDE DEF Below, UpTo
  <2>2. Cardinality(UpTo(x)) <= Cardinality(Below(y))
    BY <1>3, <2>1, FS_Subset
  <2> QED
    BY <1>3, <1>6, <2>2
<1> DEFINE V == {F[i] : i \in DOMAIN F}
<1>7. F[h[k]] \in V /\ Fits(F[h[k]]) /\ \A x \in V : x \in Int
  BY <1>0, <1>1, <1>4, <1>5
<1>8. Ranked(F, k) = CHOOSE x \in V : Fits(x)
  BY <1>1 DEF Ranked
<1> HIDE DEF Fits, V, Below, UpTo
<1>9. \A x \in V : Fits(x) => x = F[h[k]]
  BY <1>6, <1>7
<1> QED
  BY <1>7, <1>8, <1>9

\* The code, which sorts and takes the middle, and the definition by rank agree
\* on any list of the values: their order does not matter.
LEMMA MedianByRank ==
    ASSUME NEW s \in Seq(Int), NEW I, NEW F \in [I -> Int], Lists(s, F)
    PROVE  TwiceMedian(s) = TwiceMedianByRank(F) /\ TwiceMedian(s) \in Int
<1> DEFINE n == Len(s)
           D == 1..n
<1>1. n \in Nat /\ DOMAIN s = D /\ DOMAIN F = I
  OBVIOUS
<1>2. PICK g \in [D -> I] : /\ \A j, k \in D : g[j] = g[k] => j = k
                            /\ \A i \in I : \E k \in D : g[k] = i
                            /\ \A k \in D : s[k] = F[g[k]]
  BY <1>1 DEF Lists
<1>3. PICK p \in [D -> D] : /\ Ascending(s, p)
                            /\ Sorted(s) = [k \in D |-> s[p[k]]]
  BY <1>1, CanBeSorted DEF Sorted
<1> DEFINE h == [k \in D |-> g[p[k]]]
<1>4. p \in Surjection(D, D)
  <2>1. p \in Injection(D, D)
    BY <1>1, <1>3 DEF Ascending, Injection, IsInjective
  <2> QED
    BY <1>1, <2>1, FS_Interval, FS_Injection
<1>5. /\ \A j, k \in D : h[j] = h[k] => j = k
      /\ \A i \in I : \E k \in D : h[k] = i
      /\ \A j, k \in D : j <= k => F[h[j]] <= F[h[k]]
      /\ h \in [D -> I]
  <2> HIDE DEF D, n
  <2>1. \A j, k \in D : h[j] = h[k] => j = k
    BY <1>1, <1>2, <1>3 DEF Ascending
  <2>2. \A i \in I : \E k \in D : h[k] = i
    BY <1>2, <1>4 DEF Surjection
  <2>3. \A j, k \in D : j <= k => F[h[j]] <= F[h[k]]
    BY <1>1, <1>2, <1>3 DEF Ascending
  <2> QED
    BY <2>1, <2>2, <2>3
<1>6. \A k \in D : Sorted(s)[k] = F[h[k]] /\ F[h[k]] \in Int
  <2> HIDE DEF D, n
  <2> QED
    BY <1>2, <1>3
<1> HIDE DEF h
<1>7. Cardinality(I) = n
  <2> HIDE DEF n
  <2>1. n \in Nat
    BY <1>1
  <2> QED
    BY <1>5, <2>1, Counted
<1>8. \A k \in D : Ranked(F, k) = Sorted(s)[k] /\ Ranked(F, k) \in Int
  <2> HIDE DEF n
  <2> SUFFICES ASSUME NEW k \in 1..n
               PROVE  Ranked(F, k) = Sorted(s)[k] /\ Ranked(F, k) \in Int
    OBVIOUS
  <2>1. Sorts(h, F, n)
    BY <1>1, <1>5 DEF Sorts
  <2>2. Ranked(F, k) = F[h[k]]
    BY <2>1, RankOfSorted
  <2> QED
    BY <1>6, <2>2
<1> HIDE DEF n
<1>9. CASE n = 0
  BY <1>1, <1>7, <1>9 DEF n, TwiceMedian, TwiceMedianByRank
<1>10. CASE n # 0 /\ n % 2 = 0
  <2>1. /\ (n - 1) \div 2 + 1 = (n + 1) \div 2
        /\ (n + 1) \div 2 \in D /\ n \div 2 + 1 \in D
    BY <1>1, <1>10
  <2> HIDE DEF D
  <2> QED
    BY <1>1, <1>7, <1>8, <1>10, <2>1 DEF n, TwiceMedian, TwiceMedianByRank
<1>11. CASE n # 0 /\ n % 2 # 0
  <2>1. n \div 2 + 1 = (n + 1) \div 2 /\ n \div 2 + 1 \in D
    BY <1>1, <1>11
  <2> HIDE DEF D
  <2> QED
    BY <1>1, <1>7, <1>8, <1>11, <2>1 DEF n, TwiceMedian, TwiceMedianByRank
<1> QED
  BY <1>9, <1>10, <1>11

\* The conversion to an integer cuts off what follows the point.
LEMMA TruncatedIsHalf ==
    ASSUME NEW twice \in Int
    PROVE  IsHalf(TruncateHalf(twice), twice)
  BY DEF IsHalf, TruncateHalf


-----------------------------------------------------------------------------
(* What a test reports *)

\* A list goes on to be a list when a value is added to the family and, at the
\* end, to the sequence.
LEMMA ListsAppended ==
    ASSUME NEW s \in Seq(Int), NEW F, NEW G, NEW i, NEW v \in Int, Lists(s, F),
           i \notin DOMAIN F, DOMAIN G = DOMAIN F \cup {i},
           \A j \in DOMAIN F : G[j] = F[j], G[i] = v
    PROVE  Lists(Append(s, v), G)
<1> DEFINE n == Len(s)
           t == Append(s, v)
<1>1. n \in Nat /\ Len(t) = n + 1 /\ t[n + 1] = v /\ \A k \in 1..n : t[k] = s[k]
  OBVIOUS
<1>2. PICK g \in [1..n -> DOMAIN F] : /\ \A j, k \in 1..n : g[j] = g[k] => j = k
                                      /\ \A j \in DOMAIN F : \E k \in 1..n : g[k] = j
                                      /\ \A k \in 1..n : s[k] = F[g[k]]
  BY DEF Lists
<1> HIDE DEF n, t
<1> DEFINE h == [k \in 1..(n + 1) |-> IF k = n + 1 THEN i ELSE g[k]]
<1>3. \A k \in 1..n : k \in 1..(n + 1) /\ k # n + 1 /\ h[k] = g[k] /\ g[k] \in DOMAIN F
  BY <1>1
<1>4. n + 1 \in 1..(n + 1) /\ h[n + 1] = i
  BY <1>1
<1>5. \A k \in 1..(n + 1) : k \in 1..n \/ k = n + 1
  BY <1>1
<1>6. h \in [1..(n + 1) -> DOMAIN G]
  BY <1>3, <1>5
<1> HIDE DEF h
<1>7. \A j, k \in 1..(n + 1) : h[j] = h[k] => j = k
  BY <1>2, <1>3, <1>4, <1>5
<1>8. \A j \in DOMAIN G : \E k \in 1..(n + 1) : h[k] = j
  BY <1>2, <1>3, <1>4
<1>9. \A k \in 1..(n + 1) : t[k] = G[h[k]]
  BY <1>1, <1>2, <1>3, <1>4, <1>5
<1>10. 1..Len(t) = 1..(n + 1)
  BY <1>1
<1>11. Lists(t, G)
  <2>1. h \in [1..Len(t) -> DOMAIN G]
    BY <1>6, <1>10
  <2>2. \A j, k \in 1..Len(t) : h[j] = h[k] => j = k
    BY <1>7, <1>10
  <2>3. \A j \in DOMAIN G : \E k \in 1..Len(t) : h[k] = j
    BY <1>8, <1>10
  <2>4. \A k \in 1..Len(t) : t[k] = G[h[k]]
    BY <1>9, <1>10
  <2> QED
    BY <2>1, <2>2, <2>3, <2>4, Zenon DEF Lists
<1> QED
  BY <1>11 DEF t

\* The vectors hold what the runs of the test so far add to them: nothing of an
\* earlier test, and each value once.
SamplesInv == phase = "testing" => \A p \in Pages : Lists(samples[p], Kept(p))

\* A list of no values.
LEMMA EmptyList ==
    ASSUME NEW F, DOMAIN F = {}
    PROVE  Lists(<<>>, F)
<1>1. Len(<<>>) = 0 /\ 1..0 = {}
  OBVIOUS
<1>2. [k \in 1..0 |-> 0] \in [1..0 -> DOMAIN F]
  BY <1>1
<1> QED
  BY <1>1, <1>2 DEF Lists

\* A list of a family is one of any family with the same values.
LEMMA SameList ==
    ASSUME NEW s, NEW F, NEW G, Lists(s, F), DOMAIN G = DOMAIN F,
           \A j \in DOMAIN F : G[j] = F[j]
    PROVE  Lists(s, G)
<1>1. PICK g \in [1..Len(s) -> DOMAIN F] :
          /\ \A j, k \in 1..Len(s) : g[j] = g[k] => j = k
          /\ \A i \in DOMAIN F : \E k \in 1..Len(s) : g[k] = i
          /\ \A k \in 1..Len(s) : s[k] = F[g[k]]
  BY DEF Lists
<1>2. \A k \in 1..Len(s) : s[k] = G[g[k]]
  BY <1>1
<1> QED
  BY <1>1, <1>2 DEF Lists

\* What a run took is a number.
LEMMA CyclesOfRun ==
    ASSUME TypeOK
    PROVE  /\ Len(runs) \in Nat /\ DOMAIN runs = 1..Len(runs)
           /\ \A i \in 1..Len(runs) : runs[i].cycles \in Int
<1> DEFINE R == [page : Pages, cycles : Cycles \cup {-1}]
<1>1. runs \in Seq(R)
  BY DEF TypeOK
<1>2. Cycles \cup {-1} \subseteq Int
  BY ExecutorAssumption
<1>3. \A r \in R : r.cycles \in Int
  BY <1>2
<1> HIDE DEF R
<1> QED
  BY <1>1, <1>3

\* A run that adds nothing leaves the family as it was, and one that adds a
\* value extends it by a position.
LEMMA KeptOfRun ==
    ASSUME Inv, RunsInv, NEW c \in Cycles, RunReturns(c), NEW p \in Pages
    PROVE  \/ /\ samples'[p] = samples[p]
              /\ DOMAIN Kept(p)' = DOMAIN Kept(p)
              /\ \A j \in DOMAIN Kept(p) : Kept(p)'[j] = Kept(p)[j]
           \/ \E i, v : /\ samples'[p] = Append(samples[p], v) /\ v \in Int
                        /\ i \notin DOMAIN Kept(p) /\ DOMAIN Kept(p)' = DOMAIN Kept(p) \cup {i}
                        /\ \A j \in DOMAIN Kept(p) : Kept(p)'[j] = Kept(p)[j]
                        /\ Kept(p)'[i] = v
<1> DEFINE n == Len(runs)
<1>1. /\ n \in Nat /\ DOMAIN runs = 1..n /\ samples \in [Pages -> Seq(Int)]
      /\ \A i \in 1..n : runs[i].cycles \in Int
      /\ c \in Int /\ phase = "testing" /\ samples' = Collect(c)
      /\ test' = test /\ runs' = Append(runs, Ran(c))
  BY CyclesOfRun, ExecutorAssumption DEF RunReturns, Inv, TypeOK
<1>2. /\ Len(runs') = n + 1
      /\ \A i \in 1..n : runs'[i] = runs[i]
      /\ runs'[n + 1].cycles = c
      /\ \A i \in 1..(n + 1) : runs'[i].page = PageAt(i - 1)'
  BY <1>1, RunAppended DEF Inv
<1>3. /\ DOMAIN runs' = 1..(n + 1)
      /\ runs'[n + 1].page = RunPage /\ RunPage \in Pages
  <2>1. RunPage = PageAt(n) /\ \A m : PageAt(m)' = PageAt(m)
    BY <1>1 DEF PageAt, RunPage
  <2>2. runs' \in Seq([page : Pages, cycles : Cycles \cup {-1}])
    BY NextInv DEF Next, EndRun, Inv, TypeOK
  <2>3. DOMAIN runs' = 1..(n + 1)
    BY <1>2, <2>2
  <2>4. (n + 1) - 1 = n /\ n + 1 \in 1..(n + 1)
    BY <1>1
  <2>5. runs'[n + 1].page = RunPage
    BY <1>2, <2>1, <2>4
  <2>6. runs'[n + 1] \in [page : Pages, cycles : Cycles \cup {-1}]
    <3> DEFINE m == n + 1
               R == [page : Pages, cycles : Cycles \cup {-1}]
    <3>1. m \in DOMAIN runs' /\ runs' \in Seq(R)
      BY <2>2, <2>3, <2>4
    <3> HIDE DEF m, R
    <3>2. runs'[m] \in R
      BY <3>1
    <3> QED
      BY <3>2 DEF m, R
  <2>7. runs'[n + 1].page \in Pages
    BY <2>6
  <2> QED
    BY <2>3, <2>5, <2>7
<1>4. CASE test.kind = "triple"
  <2>1. /\ Kept(p) = [i \in {j \in 1..n : p = 0 /\ j % 2 = 1 /\ j + 1 \in 1..n} |->
                         runs[i].cycles - runs[i + 1].cycles]
        /\ Kept(p)' = [i \in {j \in 1..(n + 1) : p = 0 /\ j % 2 = 1 /\ j + 1 \in 1..(n + 1)} |->
                         runs'[i].cycles - runs'[i + 1].cycles]
    BY <1>1, <1>3, <1>4 DEF Kept
  <2>2. RunPage = n % 2
    BY <1>4 DEF RunPage
  <2>3. \A j \in DOMAIN Kept(p) : j \in DOMAIN Kept(p)' /\ Kept(p)'[j] = Kept(p)[j]
    BY <1>1, <1>2, <2>1
  <2>4. CASE p = 1 \/ n % 2 = 0
    <3>1. samples'[p] = samples[p]
      BY <1>1, <1>4, <2>2, <2>4 DEF Collect, Pages
    <3>2. DOMAIN Kept(p)' = DOMAIN Kept(p)
      BY <1>1, <2>1, <2>4
    <3> QED
      BY <2>3, <3>1, <3>2
  <2>5. CASE p = 0 /\ n % 2 = 1
    <3> DEFINE v == runs[n].cycles - c
    <3>1. samples'[p] = Append(samples[p], v)
      BY <1>1, <1>4, <2>2, <2>5 DEF Collect, Pages
    <3>2. n \in 1..n /\ n \notin DOMAIN Kept(p) /\ DOMAIN Kept(p)' = DOMAIN Kept(p) \cup {n}
      BY <1>1, <2>1, <2>5
    <3>3. Kept(p)'[n] = v /\ v \in Int
      BY <1>1, <1>2, <2>1, <3>2
    <3> HIDE DEF v
    <3> QED
      BY <2>3, <3>1, <3>2, <3>3
  <2>6. n % 2 \in {0, 1} /\ p \in {0, 1}
    BY <1>1 DEF Pages
  <2> QED
    BY <2>4, <2>5, <2>6
<1>5. CASE test.kind # "triple"
  <2> DEFINE Fast(x) == test.kind = "trigger" => x <= CutOff
  <2>1. /\ Kept(p) = [i \in {j \in 1..n : runs[j].page = p /\ Fast(runs[j].cycles)} |->
                         runs[i].cycles]
        /\ Kept(p)' = [i \in {j \in 1..(n + 1) : runs'[j].page = p /\ Fast(runs'[j].cycles)} |->
                         runs'[i].cycles]
    BY <1>1, <1>3, <1>5 DEF Kept
  <2>2. Collect(c) = IF Fast(c) THEN [samples EXCEPT ![RunPage] = Append(@, c)] ELSE samples
    BY <1>1, <1>5, ExecutorAssumption DEF Collect
  <2> HIDE DEF Fast
  <2>3. \A j \in DOMAIN Kept(p) : j \in DOMAIN Kept(p)' /\ Kept(p)'[j] = Kept(p)[j]
    BY <1>1, <1>2, <2>1
  <2>4. \A j \in 1..(n + 1) : j \in 1..n \/ j = n + 1
    BY <1>1
  <2>5. CASE RunPage # p \/ ~Fast(c)
    <3>1. samples'[p] = samples[p]
      BY <1>1, <1>3, <2>2, <2>5
    <3>2. DOMAIN Kept(p)' = DOMAIN Kept(p)
      BY <1>1, <1>2, <1>3, <2>1, <2>4, <2>5
    <3> QED
      BY <2>3, <3>1, <3>2
  <2>6. CASE RunPage = p /\ Fast(c)
    <3>1. samples'[p] = Append(samples[p], c)
      BY <1>1, <1>3, <2>2, <2>6
    <3>2. n + 1 \in 1..(n + 1) /\ n + 1 \notin 1..n
      BY <1>1
    <3>3. n + 1 \notin DOMAIN Kept(p) /\ DOMAIN Kept(p)' = DOMAIN Kept(p) \cup {n + 1}
      BY <1>1, <1>2, <1>3, <2>1, <2>4, <2>6, <3>2
    <3>4. Kept(p)'[n + 1] = c
      BY <1>2, <1>3, <2>1, <2>6, <3>2
    <3> QED
      BY <1>1, <2>3, <3>1, <3>3, <3>4
  <2> QED
    BY <2>5, <2>6
<1> QED
  BY <1>4, <1>5

LEMMA NextSamplesInv == Inv /\ RunsInv /\ SamplesInv /\ [Next]_vars => SamplesInv'
<1> SUFFICES ASSUME Inv, RunsInv, SamplesInv, [Next]_vars PROVE SamplesInv'
  OBVIOUS
<1>1. ASSUME NEW t \in Tests, BeginTest(t) PROVE SamplesInv'
  <2> SUFFICES ASSUME NEW p \in Pages PROVE Lists(samples[p], Kept(p))'
    BY DEF SamplesInv
  <2>1. samples'[p] = <<>> /\ runs' = <<>>
    BY <1>1 DEF BeginTest
  <2>2. DOMAIN Kept(p)' = {}
    BY <2>1 DEF Kept
  <2>3. Lists(<<>>, Kept(p)')
    BY <2>2, EmptyList
  <2> QED
    BY <2>1, <2>3
<1>2. ASSUME NEW c \in Cycles, RunReturns(c) PROVE SamplesInv'
  <2> SUFFICES ASSUME NEW p \in Pages PROVE Lists(samples'[p], Kept(p)')
    BY DEF SamplesInv
  <2>1. Lists(samples[p], Kept(p)) /\ samples[p] \in Seq(Int)
    BY <1>2 DEF RunReturns, SamplesInv, Inv, TypeOK
  <2>2. CASE /\ samples'[p] = samples[p]
             /\ DOMAIN Kept(p)' = DOMAIN Kept(p)
             /\ \A j \in DOMAIN Kept(p) : Kept(p)'[j] = Kept(p)[j]
    BY <2>1, <2>2, SameList
  <2>3. CASE \E i, v : /\ samples'[p] = Append(samples[p], v) /\ v \in Int
                       /\ i \notin DOMAIN Kept(p) /\ DOMAIN Kept(p)' = DOMAIN Kept(p) \cup {i}
                       /\ \A j \in DOMAIN Kept(p) : Kept(p)'[j] = Kept(p)[j]
                       /\ Kept(p)'[i] = v
    <3>1. PICK i, v : /\ samples'[p] = Append(samples[p], v) /\ v \in Int
                      /\ i \notin DOMAIN Kept(p) /\ DOMAIN Kept(p)' = DOMAIN Kept(p) \cup {i}
                      /\ \A j \in DOMAIN Kept(p) : Kept(p)'[j] = Kept(p)[j]
                      /\ Kept(p)'[i] = v
      BY <2>3
    <3>2. Lists(Append(samples[p], v), Kept(p)')
      BY <2>1, <3>1, ListsAppended
    <3> QED
      BY <3>1, <3>2
  <2> QED
    BY <1>2, <2>2, <2>3, KeptOfRun
<1>3. CASE UNCHANGED <<phase, runs, test, samples>>
  <2>1. \A p \in Pages : Kept(p)' = Kept(p)
    BY <1>3 DEF Kept
  <2>2. \A p \in Pages : Lists(samples'[p], Kept(p)') = Lists(samples[p], Kept(p))
    BY <1>3, <2>1
  <2> QED
    BY <1>3, <2>2 DEF SamplesInv
<1>4. CASE phase' # "testing"
  BY <1>4 DEF SamplesInv
<1>5. CASE Construct \/ BeginRun \/ Finished \/ UNCHANGED vars
           \/ (\E s \in Sandbox!Fatal : RunKills(s))
           \/ (\E p \in Pages : Prefetch(p) \/ WriteBack(p))
  BY <1>3, <1>5 DEF Construct, BeginRun, Finished, RunKills, Prefetch, WriteBack, vars
<1>6. CASE FinishTest \/ \E s \in CaughtSignals : RunFaults(s)
  BY <1>4, <1>6 DEF FinishTest, RunFaults
<1> QED
  BY <1>1, <1>2, <1>5, <1>6 DEF Next, EndRun

\* The difference a test stores is half of what the definition by rank makes of
\* its runs, as long as they are all there.
LEMMA DifferenceOfRuns ==
    ASSUME Inv, SamplesInv, phase = "testing"
    PROVE  IsHalf(Difference, Expected)
<1>1. \A p \in Pages : TwiceMedian(samples[p]) = TwiceMedianByRank(Kept(p))
                       /\ TwiceMedian(samples[p]) \in Int
  <2> SUFFICES ASSUME NEW p \in Pages
               PROVE  TwiceMedian(samples[p]) = TwiceMedianByRank(Kept(p))
                      /\ TwiceMedian(samples[p]) \in Int
    OBVIOUS
  <2>1. samples[p] \in Seq(Int) /\ Lists(samples[p], Kept(p))
    BY DEF Inv, TypeOK, SamplesInv
  <2>2. Kept(p) \in [DOMAIN Kept(p) -> Int]
    <3>1. /\ Len(runs) \in Nat /\ DOMAIN runs = 1..Len(runs)
          /\ \A i \in 1..Len(runs) : runs[i].cycles \in Int
      BY CyclesOfRun DEF Inv
    <3> QED
      BY <3>1 DEF Kept
  <2> QED
    BY <2>1, <2>2, MedianByRank
<1>2. Expected \in Int /\ Difference = TruncateHalf(Expected)
  BY <1>1 DEF Expected, Difference, Pages
<1> QED
  BY <1>2, TruncatedIsHalf

\* A test that succeeds reports the difference of the medians of its own runs,
\* whatever their number, times and order: nothing of an earlier test, none
\* dropped but the slow ones, the operands the right way round (executor.cc:941-1143).
THEOREM DifferencesAreExact == Spec => []DifferenceIsExact
<1>1. Init => RunsInv /\ SamplesInv /\ DifferenceIsExact
  BY DEF Init, RunsInv, SamplesInv, DifferenceIsExact
<1>2. Inv /\ RunsInv /\ SamplesInv /\ DifferenceIsExact /\ [Next]_vars => DifferenceIsExact'
  <2> SUFFICES ASSUME Inv, SamplesInv, DifferenceIsExact, [Next]_vars
               PROVE  DifferenceIsExact'
    OBVIOUS
  <2>1. CASE FinishTest
    <3>1. /\ phase = "testing" /\ outcome' = [error |-> 0, difference |-> Difference]
          /\ UNCHANGED <<runs, test>>
      BY <2>1 DEF FinishTest
    <3>2. Expected' = Expected
      BY <3>1 DEF Expected, Kept
    <3>3. IsHalf(Difference, Expected)
      BY <3>1, DifferenceOfRuns
    <3>4. outcome'.difference = Difference
      BY <3>1
    <3> QED
      BY <3>2, <3>3, <3>4 DEF DifferenceIsExact
  <2>2. CASE phase' = "testing" \/ outcome'.error = 1
    BY <2>2 DEF DifferenceIsExact
  <2>3. CASE UNCHANGED <<phase, runs, test, outcome>>
    <3>1. Expected' = Expected
      BY <2>3 DEF Expected, Kept
    <3> QED
      BY <2>3, <3>1 DEF DifferenceIsExact
  <2>4. CASE \/ \E t \in Tests : BeginTest(t)
             \/ \E c \in Cycles : RunReturns(c)
             \/ \E s \in CaughtSignals : RunFaults(s)
    BY <2>2, <2>4 DEF BeginTest, RunReturns, RunFaults
  <2>5. CASE Construct \/ BeginRun \/ Finished \/ UNCHANGED vars
             \/ (\E s \in Sandbox!Fatal : RunKills(s))
             \/ (\E p \in Pages : Prefetch(p) \/ WriteBack(p))
    BY <2>3, <2>5 DEF Construct, BeginRun, Finished, RunKills, Prefetch, WriteBack, vars
  <2> QED
    BY <2>1, <2>4, <2>5 DEF Next, EndRun
<1>3. Init /\ [][Next]_vars => []DifferenceIsExact
  BY <1>1, <1>2, InitInv, NextInv, NextRunsInv, NextSamplesInv, PTL
<1> QED
  BY <1>3, PTL DEF Spec
=============================================================================
