------------------------------- MODULE Order --------------------------------
(***************************************************************************)
(* Sorted sequences and parts of sequences, each entry found by its rank.  *)
(* What pandas and Python sort or filter is one of these three.            *)
(***************************************************************************)
EXTENDS Integers, Sequences, FiniteSets

\* Numbers in increasing order.
Sorted(numbers) ==
    [n \in 1 .. Cardinality(numbers) |->
        CHOOSE k \in numbers : Cardinality({m \in numbers : m <= k}) = n]

\* The entries of seq at the given positions.
At(seq, positions) ==
    LET found == Sorted(positions)
    IN  [n \in DOMAIN found |-> seq[found[n]]]

\* seq sorted: `before` has the pairs of positions whose first goes first.
Arranged(seq, before) ==
    [n \in DOMAIN seq |->
        seq[CHOOSE i \in DOMAIN seq :
              Cardinality({j \in DOMAIN seq : <<j, i>> \in before}) = n - 1]]
=============================================================================
