----------------------------- MODULE AtomicCut -----------------------------
(***************************************************************************)
(* What ChangeTracker.Cut and ChangeTracker.Take promise their consumer    *)
(* (prometheus/changetracking.go): counters are written one at a time, a   *)
(* cut reads all of them in one step, and a scrape reports exactly that.   *)
(* histogram.Write (prometheus/histogram.go) promises the same of the      *)
(* observations of each value.                                             *)
(***************************************************************************)
EXTENDS Naturals

CONSTANT Instances

VARIABLES
    made,      \* the writes made to each counter
    snap,      \* what they were at the last cut
    reported,  \* what the last scrape reported
    open       \* a cut has been taken and not yet reported

vars == <<made, snap, reported, open>>

Init ==
    /\ made = [i \in Instances |-> 0]
    /\ snap = made /\ reported = made
    /\ open = FALSE

\* counter.Inc
Write(i) ==
    /\ made' = [made EXCEPT ![i] = @ + 1]
    /\ UNCHANGED <<snap, reported, open>>

\* ChangeTracker.Cut
Cut ==
    /\ ~open
    /\ open' = TRUE
    /\ snap' = made
    /\ UNCHANGED <<made, reported>>

\* ChangeTracker.Take, and CutValue of each counter after it
Report ==
    /\ open
    /\ open' = FALSE
    /\ reported' = snap
    /\ UNCHANGED <<made, snap>>

Next == (\E i \in Instances : Write(i)) \/ Cut \/ Report

Spec == Init /\ [][Next]_vars

=============================================================================
