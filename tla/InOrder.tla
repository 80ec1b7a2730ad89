---------------------------------- MODULE InOrder -------------------------------
(* Sequences by what stands at each place.  Written without recursion, so that what
   they hold can be proved (ServiceProofs). *)
EXTENDS Integers, Sequences, FiniteSets

\* The k-th of S has k - 1 of S before it; before is a set of pairs.
Ordered(S, before) ==
  [k \in 1..Cardinality(S) |->
     CHOOSE i \in S : Cardinality({j \in S : <<j, i>> \in before}) = k - 1]

Increasing(I) == Ordered(I, {p \in I \X I : p[1] < p[2]})

\* value[1] + ... + value[n]
SumTo(value, n) ==
  LET upto[k \in 0..n] == IF k = 0 THEN 0 ELSE upto[k - 1] + value[k]
  IN  upto[n]

\* What stands in s at the indices I, in the order of s.
Where(s, I) == [k \in 1..Cardinality(I) |-> s[Increasing(I)[k]]]
================================================================================
