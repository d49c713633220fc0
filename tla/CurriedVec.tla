----------------------------- MODULE CurriedVec -----------------------------
(***************************************************************************)
(* Label values on their way into a metric vector (prometheus/vec.go):      *)
(* vectors curried again and again that share one map, values given in      *)
(* order or by name, constraints, validation, hashes that collide, and the  *)
(* deletions. MetricVec has the locks and the instances; a call is one step *)
(* here, and a metric is the values it is stored with.                      *)
(***************************************************************************)
EXTENDS Naturals, Sequences, FiniteSets, SequencesExt

CONSTANTS
    VarNames,     \* desc.variableLabels.names
    ValueLists, LabelMaps, \* what is given as label values, in order or by name
    NotUTF8,      \* values that are not valid
    ConstrainTo,  \* per name, the values that its constraint changes, and to what
    VecHash(_),   \* hashAdd over the values of all labels, in order
    AllHashes,
    MaxVecMetrics, MaxVecViews \* bounds on metrics and on vectors that are curried differently

VARIABLES
    buckets,      \* metricMap.metrics
    views,        \* MetricVec.curry of the vectors that share it: functions from positions to values
    vecCall       \* history: what was called on which vector with what, the answer, and the map before

curryVars == <<buckets, views, vecCall>>

Positions == 1 .. Len(VarNames)
PositionOf(n) == CHOOSE i \in Positions : VarNames[i] = n
Stored == UNION {Range(buckets[h]) : h \in AllHashes}

-----------------------------------------------------------------------------
Constrain(n, v) == IF n \in DOMAIN ConstrainTo /\ v \in DOMAIN ConstrainTo[n] THEN ConstrainTo[n][v] ELSE v
ConstrainLabels(labels) == [n \in DOMAIN labels |-> Constrain(n, labels[n])]

\* The positions that are left to the caller, in order.
Uncurried(curry) == SelectSeq([i \in Positions |-> i], LAMBDA i : i \notin DOMAIN curry)

\* Mutation of ConstrainLabelValues: the labels curried before are not counted.
ConstrainLabelValues_ByPosition(lvs, curry) ==
    [k \in DOMAIN lvs |-> IF k \in DOMAIN VarNames THEN Constrain(VarNames[k], lvs[k]) ELSE lvs[k]]
\* Values beyond the last label stay as they are.
ConstrainLabelValues(lvs, curry) ==
    [k \in DOMAIN lvs |-> IF k \in DOMAIN Uncurried(curry) THEN Constrain(VarNames[Uncurried(curry)[k]], lvs[k]) ELSE lvs[k]]

\* Where constrainLabelValues reads past the end of lvs and panics, instead of leaving it
\* to hashLabelValues to refuse too few values: a curried label comes later than they end.
ConstrainPanics(lvs, curry) ==
    /\ DOMAIN ConstrainTo # {}
    /\ Cardinality((1 .. Len(lvs) + Cardinality(DOMAIN curry)) \ DOMAIN curry) > Len(lvs)

\* inlineLabelValues, extractLabelValues
InlineLabelValues(lvs, curry) ==
    [i \in Positions |-> IF i \in DOMAIN curry THEN curry[i]
                         ELSE lvs[CHOOSE k \in DOMAIN lvs : Uncurried(curry)[k] = i]]
ExtractLabelValues(labels, curry) ==
    [i \in Positions |-> IF i \in DOMAIN curry THEN curry[i] ELSE labels[VarNames[i]]]

\* What hashLabelValues and hashLabels refuse.
WrongLabelValues(lvs, curry) ==
    Len(lvs) # Len(VarNames) - Cardinality(DOMAIN curry) \/ Range(lvs) \cap NotUTF8 # {}
WrongLabels(labels, curry) ==
    \/ Cardinality(DOMAIN labels) # Len(VarNames) - Cardinality(DOMAIN curry)
    \/ \E n \in DOMAIN labels : labels[n] \in NotUTF8
    \/ \E i \in Positions : (VarNames[i] \in DOMAIN labels) = (i \in DOMAIN curry)

\* matchPartialLabels: never a curried label, and never restricted to the curried values.
MatchPartialLabels(values, labels, curry) ==
    \A n \in DOMAIN labels :
        n \in Range(VarNames) /\ PositionOf(n) \notin DOMAIN curry /\ values[PositionOf(n)] = labels[n]

-----------------------------------------------------------------------------
NoVecCall == [op |-> "none", ok |-> TRUE]

CurryInit ==
    /\ buckets = [h \in AllHashes |-> <<>>]
    /\ views = {<<>>}
    /\ vecCall = NoVecCall

Called(curry, op, args, result) ==
    vecCall' = [op |-> op, curry |-> curry, args |-> args, ok |-> TRUE, result |-> result, before |-> Stored]
VecRefused(curry, op, args, panics) ==
    /\ vecCall' = [op |-> op, curry |-> curry, args |-> args, ok |-> FALSE, panics |-> panics, before |-> Stored]
    /\ UNCHANGED <<buckets, views>>

\* getOrCreateMetricWithLabelValues, getOrCreateMetricWithLabels: what is not in its bucket
\* is added at the end.
GetOrCreate(values) ==
    LET h == VecHash(values) IN
    /\ Cardinality(Stored) < MaxVecMetrics \/ values \in Range(buckets[h])
    /\ buckets' = IF values \in Range(buckets[h]) THEN buckets ELSE [buckets EXCEPT ![h] = Append(@, values)]

\* removeAt
RemoveValues(values) ==
    buckets' = [buckets EXCEPT ![VecHash(values)] = SelectSeq(@, LAMBDA vs : vs # values)]

CurryWith(curry, labels) ==
    LET new == {i \in Positions : VarNames[i] \in DOMAIN labels} IN
    /\ Cardinality(views) < MaxVecViews
    /\ IF new \cap DOMAIN curry # {} \/ ~DOMAIN labels \subseteq Range(VarNames)
       THEN VecRefused(curry, "CurryWith", labels, FALSE)
       ELSE LET made == [i \in new \cup DOMAIN curry |->
                           IF i \in new THEN Constrain(VarNames[i], labels[VarNames[i]]) ELSE curry[i]] IN
            /\ views' = views \cup {made}
            /\ Called(curry, "CurryWith", labels, made)
            /\ UNCHANGED buckets

\* By the values in order: GetMetricWithLabelValues and DeleteLabelValues.
WithLabelValues(curry, given, op) ==
    LET lvs == ConstrainLabelValues(given, curry)
        values == InlineLabelValues(lvs, curry) IN
    IF ConstrainPanics(given, curry) THEN VecRefused(curry, op, given, TRUE)
    ELSE IF WrongLabelValues(lvs, curry) THEN VecRefused(curry, op, given, FALSE)
    ELSE /\ IF op = "GetMetricWithLabelValues" THEN GetOrCreate(values) ELSE RemoveValues(values)
         /\ Called(curry, op, given, values)
         /\ UNCHANGED views

\* By name: GetMetricWith and Delete.
WithLabels(curry, given, op) ==
    LET labels == ConstrainLabels(given)
        values == ExtractLabelValues(labels, curry) IN
    IF WrongLabels(labels, curry) THEN VecRefused(curry, op, given, FALSE)
    ELSE /\ IF op = "GetMetricWith" THEN GetOrCreate(values) ELSE RemoveValues(values)
         /\ Called(curry, op, given, values)
         /\ UNCHANGED views

\* All of a bucket goes if one in it matches; the result counts the buckets.
DeletePartial(curry, given) ==
    LET matching == {h \in AllHashes : \E vs \in Range(buckets[h]) :
                        MatchPartialLabels(vs, ConstrainLabels(given), curry)} IN
    /\ buckets' = [h \in AllHashes |-> IF h \in matching THEN <<>> ELSE buckets[h]]
    /\ Called(curry, "DeletePartialMatch", given, Cardinality(matching))
    /\ UNCHANGED views

\* The values are those that were collected, of all labels; what is outside the curry stays.
DeleteCollectedIf(curry, values, ok) ==
    LET outside == \E i \in DOMAIN curry : values[i] # curry[i]
        vals == [j \in DOMAIN Uncurried(curry) |-> values[Uncurried(curry)[j]]] IN
    IF outside \/ WrongLabelValues(vals, curry) \/ ~ok \/ values \notin Stored
    THEN VecRefused(curry, "DeleteCollectedIf", values, FALSE)
    ELSE /\ RemoveValues(values)
         /\ Called(curry, "DeleteCollectedIf", values, values)
         /\ UNCHANGED views

ResetBuckets(curry) ==
    /\ buckets' = [h \in AllHashes |-> <<>>]
    /\ Called(curry, "Reset", <<>>, <<>>)
    /\ UNCHANGED views

\* A call is over, and the next may begin.
CallOver == vecCall.op # "none" /\ vecCall' = NoVecCall /\ UNCHANGED <<buckets, views>>

CurryNext ==
    \/ CallOver
    \/ /\ vecCall = NoVecCall
       /\ \E curry \in views :
            \/ \E labels \in LabelMaps : CurryWith(curry, labels) \/ DeletePartial(curry, labels)
            \/ \E lvs \in ValueLists, op \in {"GetMetricWithLabelValues", "DeleteLabelValues"} :
                    WithLabelValues(curry, lvs, op)
            \/ \E labels \in LabelMaps, op \in {"GetMetricWith", "Delete"} : WithLabels(curry, labels, op)
            \/ \E values \in Stored, ok \in BOOLEAN : DeleteCollectedIf(curry, values, ok)
            \/ ResetBuckets(curry)

CurrySpec == CurryInit /\ [][CurryNext]_curryVars

-----------------------------------------------------------------------------
\* The labels that a call stands for, by name: the curried ones and those given, with the
\* constraints of their own names. <<>> if they are not each label once.
Meant(c) ==
    LET curried == {VarNames[i] : i \in DOMAIN c.curry}
        free == SelectSeq(VarNames, LAMBDA n : n \notin curried)
        byName == c.op \in {"GetMetricWith", "Delete"}
        value(n) == IF byName THEN c.args[n] ELSE c.args[CHOOSE k \in DOMAIN free : free[k] = n]
        complete == IF byName THEN DOMAIN c.args = Range(free) ELSE Len(c.args) = Len(free)
    IN IF ~complete \/ \E n \in Range(free) : Constrain(n, value(n)) \in NotUTF8 THEN <<>>
       ELSE [i \in Positions |-> IF i \in DOMAIN c.curry THEN c.curry[i] ELSE Constrain(VarNames[i], value(VarNames[i]))]

\* Whichever curried vector is used and however the labels are given, a lookup or deletion
\* is of the one metric with these labels, or refused; each metric is in the map once, in
\* the bucket of its hash; and a deletion takes nothing else with it, except that a partial
\* match takes what shares a bucket with it (GetMetricWith, CurryWith, Delete and others).
CurriedIsSame ==
    LET c == vecCall
        byLabels == c.op \in {"GetMetricWithLabelValues", "GetMetricWith", "DeleteLabelValues", "Delete"} IN
    /\ \A h \in AllHashes : IsInjective(buckets[h]) /\ \A vs \in Range(buckets[h]) : VecHash(vs) = h
    /\ ~c.ok => Stored = c.before
    \* A panic is the answer only to too few values, where a label with a constraint exists.
    /\ ~c.ok /\ c.panics => byLabels /\ Meant(c) = <<>>
    /\ byLabels => IF Meant(c) = <<>> THEN ~c.ok /\ Stored = c.before
                   ELSE /\ c.ok /\ c.result = Meant(c)
                        /\ Stored = IF c.op \in {"GetMetricWithLabelValues", "GetMetricWith"}
                                    THEN c.before \cup {Meant(c)} ELSE c.before \ {Meant(c)}
    /\ c.op = "DeleteCollectedIf" =>
         /\ c.before \ Stored \subseteq {c.args}
         /\ c.before # Stored => \A i \in DOMAIN c.curry : c.args[i] = c.curry[i]
    /\ c.op = "DeletePartialMatch" =>
         LET hit(vs) == \A n \in DOMAIN c.args : \E i \in Positions :
                            VarNames[i] = n /\ i \notin DOMAIN c.curry /\ vs[i] = Constrain(n, c.args[n]) IN
         /\ \A vs \in c.before : hit(vs) => vs \notin Stored
         /\ \A vs \in c.before \ Stored : \E us \in c.before : hit(us) /\ VecHash(us) = VecHash(vs)
    \* The values of a curried vector are those of the vector it was made from and its own.
    /\ c.op = "CurryWith" /\ c.ok =>
         /\ \A i \in DOMAIN c.curry : c.result[i] = c.curry[i] /\ VarNames[i] \notin DOMAIN c.args
         /\ \A n \in DOMAIN c.args : c.result[PositionOf(n)] = Constrain(n, c.args[n])
         /\ Cardinality(DOMAIN c.result) = Cardinality(DOMAIN c.curry) + Cardinality(DOMAIN c.args)
=============================================================================
