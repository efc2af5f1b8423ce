------------------------------- MODULE Median -------------------------------
(***************************************************************************)
(* median() of src/src/utils.h and the truncation of a difference of       *)
(* medians.  A median is a multiple of one half: the operators return      *)
(* twice its value, so that the arithmetic stays in the integers.          *)
(***************************************************************************)
EXTENDS Integers, Sequences, FiniteSets

\* std::sort: an order of the positions in which no value is below the one before.
Ascending(values, order) ==
    /\ \A j, k \in DOMAIN values : order[j] = order[k] => j = k
    /\ \A j, k \in DOMAIN values : j <= k => values[order[j]] <= values[order[k]]

Sorted(values) ==
    LET order == CHOOSE p \in [DOMAIN values -> DOMAIN values] : Ascending(values, p)
    IN  [k \in DOMAIN values |-> values[order[k]]]

\* The code: sort, then the middle element or the mean of the middle two; 0
\* for no element at all.
TwiceMedian(values) ==
    LET n == Len(values)
        sorted == Sorted(values)
    IN  IF n = 0 THEN 0
        ELSE IF n % 2 = 0 THEN sorted[(n - 1) \div 2 + 1] + sorted[n \div 2 + 1]
        ELSE 2 * sorted[n \div 2 + 1]

\* static_cast<int64_t> of a double that is half of x: towards zero.
TruncateHalf(x) == IF x >= 0 THEN x \div 2 ELSE -((-x) \div 2)

-----------------------------------------------------------------------------
(* A definition of the median that does not sort, of any finite family of   *)
(* values: a function from a finite set to the integers                     *)

\* The k-th smallest element: fewer than k are below it, k or more are not above.
Ranked(values, k) ==
    CHOOSE x \in {values[i] : i \in DOMAIN values} :
        /\ Cardinality({i \in DOMAIN values : values[i] < x}) < k
        /\ Cardinality({i \in DOMAIN values : values[i] <= x}) >= k

TwiceMedianByRank(values) ==
    LET n == Cardinality(DOMAIN values)
    IN  IF n = 0 THEN 0
        ELSE Ranked(values, (n + 1) \div 2) + Ranked(values, n \div 2 + 1)

\* d is half of twice without what follows the point.
IsHalf(d, twice) ==
    /\ 2 * d \in (twice - 1)..(twice + 1)
    /\ twice >= 0 => 2 * d <= twice
    /\ twice <= 0 => 2 * d >= twice
=============================================================================
