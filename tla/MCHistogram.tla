---------------------------- MODULE MCHistogram ----------------------------
(* Instances of Histogram for TLC. *)
EXTENDS Histogram, TLC

CONSTANTS low, mid, high, neg, nan

\* Positive values in three buckets, of which the lower two are at and above the
\* upper bound 1, and one negative value as small as the lowest.
Keys == [v \in Values |-> CASE v = low -> 0 [] v = mid -> 1 [] v = high -> 3
                            [] v = neg -> -1 [] v = nan -> 0]

\* One classic bucket, which the highest value and NaN exceed.
ClassicBucket == [v \in Values |-> IF v \in {high, nan} THEN 2 ELSE 1]


\* A zero threshold below all values.
BelowAll == -9

Symmetry == Permutations(Observers)

=============================================================================
