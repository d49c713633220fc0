---------------------------- MODULE MergedGather ----------------------------
(***************************************************************************)
(* What several gatherers give, as one (prometheus/registry.go): Gatherers   *)
(* merges and checks what they return, one after the other; MultiTRegistry   *)
(* puts it side by side, and passes it on when its caller is done; and       *)
(* GatherFiltered drops what is not asked for.                               *)
(*                                                                          *)
(* A metric is its labels, a number in the order of MetricSorter; one that    *)
(* is not valid has another type than its family, or labels that are wrong.  *)
(***************************************************************************)
EXTENDS Naturals, Sequences, FiniteSets, SequencesExt

CONSTANTS
    MergeModes,   \* of "merge", "multi" and "filter"
    Gatherings,      \* per gatherer, what it may return: [mfs, err], a sequence of families
                  \* [name, help, type, metrics], and whether there is an error
    KeptNames,    \* the names that keep wants
    NameOrder,    \* family names as they sort
    MagicNames,   \* <<name, base, suffix>> for the names with a magic suffix
    WrongMetrics  \* metrics that are not valid

VARIABLES
    merge,      \* the mode
    given,      \* what the gatherers have returned so far
    byName,     \* metricFamiliesByName, in the order of creation; or mfs of MultiTRegistry
    mergeErrs,  \* how many errors there are
    undone,     \* the gatherers whose done function is still to be called
    merged      \* what is returned: [mfs, err], as a sequence that is empty before

mergeVars == <<merge, given, byName, mergeErrs, undone, merged>>

Rank(n) == CHOOSE i \in DOMAIN NameOrder : NameOrder[i] = n
SortedByName(fs) == SortSeq(fs, LAMBDA f, g : Rank(f.name) < Rank(g.name))

-----------------------------------------------------------------------------
IndexOfName(fs, n) == SelectInSeq(fs, LAMBDA f : f.name = n)

Adds(type, suffix) == type = "histogram" \/ (type = "summary" /\ suffix # "bucket")

\* checkSuffixCollisions
Collides(fs, new) ==
    \E s \in MagicNames, i \in DOMAIN fs :
        \/ s[1] = new.name /\ s[2] = fs[i].name /\ Adds(fs[i].type, s[3])
        \/ s[2] = new.name /\ s[1] = fs[i].name /\ Adds(new.type, s[3])

\* Mutation of AddMetric: the metrics of one gatherer only are compared.
AddMetric_Anew(st, i, m) == [st EXCEPT !.fs[i].metrics = Append(@, m)]
\* A metric that is wrong or there already is an error (checkMetricConsistency).
AddMetric(st, i, m) ==
    IF m \in WrongMetrics \/ m \in Range(st.fs[i].metrics) THEN [st EXCEPT !.errs = @ + 1]
    ELSE [st EXCEPT !.fs[i].metrics = Append(@, m)]

\* The first family of its name decides on help and type, also when its metrics are wrong.
AddFamily(st, f) ==
    LET i == IndexOfName(st.fs, f.name)
        begun == IF i # 0 THEN st ELSE [st EXCEPT !.fs = Append(@, [f EXCEPT !.metrics = <<>>])]
        own == IndexOfName(begun.fs, f.name)
        refused == IF i # 0 THEN <<st.fs[i].help, st.fs[i].type>> # <<f.help, f.type>>
                   ELSE Collides(st.fs, f)
    IN IF refused
       THEN [st EXCEPT !.errs = @ + 1]
       ELSE FoldLeft(LAMBDA s, m : AddMetric(s, own, m), begun, f.metrics)

\* NormalizeMetricFamilies
Normalized(fs) ==
    LET full == SortedByName(SelectSeq(fs, LAMBDA f : f.metrics # <<>>))
    IN [i \in DOMAIN full |-> [full[i] EXCEPT !.metrics = SortSeq(@, <)]]

-----------------------------------------------------------------------------
MergeInit ==
    /\ merge \in MergeModes
    /\ given = <<>> /\ byName = <<>> /\ mergeErrs = 0 /\ undone = {} /\ merged = <<>>

\* The next gatherer is asked, whatever the earlier ones returned.
GatherNext ==
    /\ merged = <<>> /\ Len(given) < Len(Gatherings)
    /\ \E g \in Gatherings[Len(given) + 1] :
         LET errs == mergeErrs + (IF g.err THEN 1 ELSE 0)
             st == FoldLeft(AddFamily, [fs |-> byName, errs |-> errs], g.mfs) IN
         /\ given' = Append(given, g)
         /\ CASE merge = "merge" -> byName' = st.fs /\ mergeErrs' = st.errs /\ UNCHANGED undone
              [] merge = "multi" -> byName' = byName \o g.mfs /\ mergeErrs' = errs /\ undone' = undone \cup {Len(given')}
              [] merge = "filter" -> byName' = g.mfs /\ mergeErrs' = errs /\ UNCHANGED undone
    /\ UNCHANGED <<merge, merged>>

\* GatherFiltered has one gatherer.
GatherReturns ==
    /\ merged = <<>> /\ Len(given) = IF merge = "filter" THEN 1 ELSE Len(Gatherings)
    /\ merged' = <<[err |-> mergeErrs > 0,
                    mfs |-> CASE merge = "merge" -> Normalized(byName)
                              [] merge = "multi" -> SortedByName(byName)
                              [] merge = "filter" -> SelectSeq(byName, LAMBDA f : f.name \in KeptNames)]>>
    /\ UNCHANGED <<merge, given, byName, mergeErrs, undone>>

\* The caller is done with what was returned.
CallDone ==
    /\ merged # <<>> /\ undone # {}
    /\ undone' = {}
    /\ UNCHANGED <<merge, given, byName, mergeErrs, merged>>

MergeNext == GatherNext \/ GatherReturns \/ CallDone
MergeSpec == MergeInit /\ [][MergeNext]_mergeVars

-----------------------------------------------------------------------------
Entries(fs) == UNION {{<<fs[i].name, m>> : m \in Range(fs[i].metrics)} : i \in DOMAIN fs}
AllGiven == FoldLeft(LAMBDA fs, g : fs \o g.mfs, <<>>, given)

\* However the families of several gatherers contradict each other: what is merged is
\* consistent and sorted, the first to come wins, and whatever is left out has something
\* before it that it contradicts and is reported; what is only put side by side is all
\* there, and in use until its caller is done (Gatherers.Gather, MultiTRegistry.Gather).
MergeSound ==
    merged # <<>> =>
        LET fs == merged[1].mfs
            contradicts(f, e) ==   \* e came before f
                \/ f.name = e.name /\ <<f.help, f.type>> # <<e.help, e.type>>
                \/ Collides(<<e>>, f)
            leftOut(i, m) ==       \* a reason why metric m of the i-th family is left out
                \/ m \in WrongMetrics
                \/ \E k \in 1 .. i - 1 : contradicts(AllGiven[i], AllGiven[k])
        IN
        /\ (\E i \in DOMAIN given : given[i].err) => merged[1].err
        /\ merge = "merge" =>
             /\ \A i \in 1 .. Len(fs) - 1 : Rank(fs[i].name) < Rank(fs[i + 1].name)
             /\ \A i \in DOMAIN fs : fs[i].metrics # <<>> /\ ~Collides(fs, fs[i])
             /\ \A i \in DOMAIN fs : \A k \in 1 .. Len(fs[i].metrics) - 1 : fs[i].metrics[k] < fs[i].metrics[k + 1]
             /\ \A i \in DOMAIN AllGiven, m \in UNION {Range(f.metrics) : f \in Range(AllGiven)} :
                  m \in Range(AllGiven[i].metrics) /\ <<AllGiven[i].name, m>> \notin Entries(fs) =>
                      merged[1].err /\ leftOut(i, m)
             /\ \A i, k \in DOMAIN AllGiven : AllGiven[i].name = AllGiven[k].name /\ i # k =>
                  \/ Range(AllGiven[i].metrics) \cap Range(AllGiven[k].metrics) = {}
                  \/ merged[1].err
        /\ merge = "multi" =>
             /\ Entries(fs) = Entries(AllGiven) /\ Len(fs) = Len(AllGiven)
             /\ \A i \in 1 .. Len(fs) - 1 : Rank(fs[i].name) <= Rank(fs[i + 1].name)
             /\ undone \in {{}, DOMAIN given}
        /\ merge = "filter" =>
             Entries(fs) = {e \in Entries(AllGiven) : e[1] \in KeptNames}
=============================================================================
