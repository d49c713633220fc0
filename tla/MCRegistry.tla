------------------------------ MODULE MCRegistry ------------------------------
(* Instances of Registry for TLC. *)
EXTENDS Registry, TLC

CONSTANTS l1, l2, vec, two, other, loose

Desc(i, n, h) == [id |-> i, name |-> n, help |-> h, dim |-> h, valid |-> TRUE]

InvalidDesc == [id |-> 0, name |-> "", help |-> "", dim |-> "", valid |-> FALSE]

\* The two label sets have the same hash.
OneHash == [l \in {l1, l2} |-> 0]

OneMatch == {{l1}}

Metric(d, t, l, w) == [desc |-> d, labels |-> l, type |-> t, wrong |-> w]

VecDesc == Desc(1, "v", "help")
VecMetricOf(l) == Metric(VecDesc, "counter", l, "none")

\* A collector with two names; one that has a descriptor in common with it, and
\* sends a metric of another; and an unchecked one, whose histogram collides with a
\* name of the first.
Descs == vec :> {VecDesc} @@
         two :> {Desc(2, "x_count", "help"), Desc(3, "y", "help")} @@
         other :> {Desc(2, "x_count", "help")} @@
         loose :> {}

Metrics == two :> {Metric(Desc(2, "x_count", "help"), "counter", "", "none"),
                   Metric(Desc(3, "y", "help"), "gauge", "", "none")} @@
           other :> {Metric(Desc(4, "y", "help"), "gauge", "", "none")} @@
           loose :> {Metric(Desc(6, "x", "help"), "histogram", "", "none")}

Some == {{"", "v", "x", "x_count", "y"}, {"y"}}

MagicNames == {<<"x_count", "x", "count">>}

ASSUME CompatibleAssumption == Compatible

Symmetry == Permutations(Callers) \cup Permutations(Readers)
=============================================================================
