-------------------------- MODULE MCChangeTracker --------------------------
(* Instances of ChangeTracker for TLC: two writers on two counters. *)
EXTENDS ChangeTracker

CONSTANTS w1, w2, a, b

\* Each counter in a shard of its own.
TwoShards == [i \in {a, b} |-> IF i = a THEN 1 ELSE 2]

\* Both write a, then b, as a request's tokens and then its cost.
InOrder == [w \in {w1, w2} |-> <<a, b>>]

\* One writes both, the other only b.
Overlapping == [w \in {w1, w2} |-> IF w = w1 THEN <<a, b>> ELSE <<b>>]

=============================================================================
