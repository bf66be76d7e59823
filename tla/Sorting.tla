-------------------------------- MODULE Sorting --------------------------------
(* slice::sort_by, which the reports are put in order with.  An order is the *)
(* set of the pairs whose first comes strictly before the second.            *)
EXTENDS Naturals, SequencesExt

(* The sort is stable: what the order leaves open stays as it came.          *)
Ahead(list, before, m, n) ==
  <<list[m], list[n]>> \in before \/ (m < n /\ <<list[n], list[m]>> \notin before)

AheadOf(list, before, n) == {m \in DOMAIN list : Ahead(list, before, m, n)}

sort_by(list, before) ==
  [i \in DOMAIN list |->
     list[CHOOSE n \in DOMAIN list : Cardinality(AheadOf(list, before, n)) = i - 1]]

(* The members of a set come to the sort in an order nobody chose.           *)
SortedBy(S, before) == sort_by(SetToSeq(S), before)
=============================================================================
