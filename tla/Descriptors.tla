---------------------------- MODULE Descriptors ----------------------------
(***************************************************************************)
(* Descriptors, label pairs and wrapping: Desc as NewDesc builds it and     *)
(* wrapDesc rebuilds it, MakeLabelPairs with the cache of label pairs that  *)
(* metrics share, and the labels that wrappingMetric.Write adds to those of *)
(* the metric it wraps.                                                     *)
(*                                                                          *)
(* Slices are modelled as they are: an array, which others may hold too,    *)
(* and a length; append writes into the array if there is room. A name is a *)
(* sequence of parts, so that a prefix can be put before it. The hashes are *)
(* taken to be free of collisions, except for the slot of the cache, which  *)
(* is a constant.                                                           *)
(***************************************************************************)
EXTENDS Naturals, Sequences, SequencesExt

CONSTANTS
    Descs,        \* arguments of the descriptors: a sequence of records
    Jobs,         \* metrics to make: [desc, values, wraps]
    Makers,       \* goroutines that make them and write them
    LabelOrder,   \* label names as strings sort, those with "$" included
    Dollar,       \* "$" + a label name
    LabelSlot,    \* labelPairHash
    BadParts,     \* parts of invalid metric names
    BadLabels,    \* label names that are invalid or reserved
    BadValues,    \* label values that are not UTF-8
    MaxMetricWrites  \* bound on the writes of a metric

VARIABLES
    heap,     \* the arrays: items and capacity
    cache,    \* labelPairCache
    maker     \* the goroutines

labelVars == <<heap, cache, maker>>

Pair(n, v) == [name |-> n, value |-> v]
Place(n) == CHOOSE i \in DOMAIN LabelOrder : LabelOrder[i] = n
SortedNames(ns) == SortSeq(ns, LAMBDA a, b : Place(a) < Place(b))
SortedPairs(ps) == SortSeq(ps, LAMBDA a, b : Place(a.name) < Place(b.name))

\* The pairs of a map from names to values.
PairsOf(labels) == LET ns == SelectSeq(LabelOrder, LAMBDA n : n \in DOMAIN labels)
                   IN [i \in DOMAIN ns |-> Pair(ns[i], labels[ns[i]])]
MapOf(pairs) == [n \in {p.name : p \in Range(pairs)} |->
                   (CHOOSE p \in Range(pairs) : p.name = n).value]

-----------------------------------------------------------------------------
(* Descriptors. *)

\* The variable labels of a descriptor made by NewInvalidDesc are a nil pointer.
NilLabels == "nil"

ValidMetricName(fq) == fq # <<>> /\ \A i \in DOMAIN fq : fq[i] \notin BadParts

\* Mutation of VariableNames: the names as they are.
VariableNames_Plain(vars) == vars
\* Variable labels are told from constant ones by a mark before the name.
VariableNames(vars) == [i \in DOMAIN vars |-> Dollar[vars[i]]]

NoDesc(fq, help, unit, vars, err) ==
    [fqName |-> fq, help |-> help, unit |-> unit, vars |-> vars, pairs |-> <<>>,
     id |-> <<>>, dimHash |-> <<>>, err |-> err]

NewInvalidDesc == NoDesc(<<>>, "", "", NilLabels, "given")

\* The first thing that is wrong is the error, and then nothing else is filled in. With
\* nil for the variable labels there is an error only if the name is invalid, too.
NewDesc(fq, help, unit, vars, consts) ==
    LET d(err) == NoDesc(fq, help, unit, vars, err)
        pairs == PairsOf(consts)
        names == [i \in DOMAIN pairs |-> pairs[i].name]
        all == names \o VariableNames(vars)
    IN CASE ~ValidMetricName(fq) -> d("name")
         [] vars = NilLabels -> d("nil dereference")
         [] \E n \in DOMAIN consts : n \in BadLabels -> d("label")
         [] \E n \in DOMAIN consts : consts[n] \in BadValues -> d("value")
         [] \E i \in DOMAIN vars : vars[i] \in BadLabels -> d("label")
         [] Cardinality(DOMAIN consts \cup Range(vars)) # Len(all) -> d("duplicate")
         [] OTHER -> [d("") EXCEPT !.pairs = pairs,
                        !.id = <<fq>> \o [i \in DOMAIN pairs |-> pairs[i].value],
                        !.dimHash = <<help, unit>> \o SortedNames(all)]

\* Mutation of WrapDesc: the earlier error is lost.
WrapDesc_Fresh(d, w) ==
    NewDesc(w.prefix \o d.fqName, d.help, d.unit, d.vars,
            [n \in DOMAIN MapOf(d.pairs) \cup DOMAIN w.labels |->
                IF n \in DOMAIN w.labels THEN w.labels[n] ELSE MapOf(d.pairs)[n]])
\* A label that is there already is an error; else an earlier error goes before a new one.
WrapDesc(d, w) ==
    LET own == MapOf(d.pairs)
        new == NewDesc(w.prefix \o d.fqName, d.help, d.unit, d.vars,
                       [n \in DOMAIN own \cup DOMAIN w.labels |->
                           IF n \in DOMAIN own THEN own[n] ELSE w.labels[n]])
    IN IF DOMAIN own \cap DOMAIN w.labels # {} THEN [d EXCEPT !.id = <<>>, !.dimHash = <<>>, !.err = "already used"]
       ELSE IF d.err # "" /\ new.err # "nil dereference" THEN [new EXCEPT !.err = d.err]
       ELSE new

MadeDescs == [k \in DOMAIN Descs |->
    IF Descs[k].invalid THEN NewInvalidDesc
    ELSE NewDesc(Descs[k].fqName, Descs[k].help, Descs[k].unit, Descs[k].vars, Descs[k].consts)]
DescOf(k) == MadeDescs[k]

\* The descriptor that the outermost of the wrapping collectors describes.
Wrapped(k, wraps) == FoldLeft(WrapDesc, DescOf(k), wraps)

-----------------------------------------------------------------------------
(* Slices. *)

NoPairs == [at |-> 0, len |-> 0]
Items(s) == IF s.at = 0 THEN <<>> ELSE SubSeq(heap[s.at].items, 1, s.len)

\* append: in place if there is room, else to a new array that may be larger.
AppendAll(h, s, ps) ==
    IF s.at # 0 /\ s.len + Len(ps) <= h[s.at].cap
    THEN [heap |-> [h EXCEPT ![s.at].items = SubSeq(@, 1, s.len) \o ps],
          slice |-> [at |-> s.at, len |-> s.len + Len(ps)]]
    ELSE [heap |-> Append(h, [items |-> (IF s.at = 0 THEN <<>> ELSE SubSeq(h[s.at].items, 1, s.len)) \o ps,
                              cap |-> 2 * (s.len + Len(ps))]),
          slice |-> [at |-> Len(h) + 1, len |-> s.len + Len(ps)]]

\* sort.Sort sorts the array.
SortedIn(r) == [r EXCEPT !.heap[r.slice.at].items = SortedPairs(@)]

-----------------------------------------------------------------------------
NewMaker == [pc |-> "idle", job |-> [desc |-> 0, values |-> <<>>, wraps |-> <<>>],
             full |-> NewInvalidDesc, pairs |-> NoPairs, out |-> NoPairs, wrap |-> 0, writes |-> 0]

\* The constant pairs of a descriptor have an array of their own, with no room to spare.
LabelInit ==
    /\ heap = [k \in DOMAIN Descs |-> [items |-> DescOf(k).pairs, cap |-> Len(DescOf(k).pairs)]]
    /\ cache = [h \in Range(LabelSlot) |-> <<>>]
    /\ maker = [p \in Makers |-> NewMaker]

\* A collector is described, and it makes a metric, as NewConstMetric and the children of
\* the vectors do. An invalid descriptor, a wrong number of values and values that are
\* not UTF-8 are refused. Without variable labels the pairs are those of the descriptor.
Make(p, j) ==
    LET d == DescOf(j.desc)
        refused == d.err # "" \/ Len(j.values) # Len(d.vars) \/ \E i \in DOMAIN j.values : j.values[i] \in BadValues
        made == [NewMaker EXCEPT !.job = j, !.full = Wrapped(j.desc, j.wraps)]
    IN
    /\ maker[p].pc = "idle"
    /\ maker' = [maker EXCEPT ![p] =
         CASE refused -> [made EXCEPT !.pc = "refused"]
           [] ~refused /\ d.vars = <<>> ->
                [made EXCEPT !.pc = "made", !.pairs = IF d.pairs = <<>> THEN NoPairs ELSE [at |-> j.desc, len |-> Len(d.pairs)]]
           [] ~refused /\ d.vars # <<>> -> [made EXCEPT !.pc = IF d.pairs = <<>> THEN "load" ELSE "build"]]
    /\ UNCHANGED <<heap, cache>>

\* Mutation of CachedFor: the values alone are compared.
CachedFor_Values(s, names, values) == s # <<>> /\ s[1].values = values
CachedFor(s, names, values) == s # <<>> /\ s[1].names = names /\ s[1].values = values

SlotOf(p) == LabelSlot[DescOf(maker[p].job.desc).vars \o maker[p].job.values]

\* cachedLabelPairs: the slot may hold what other names or values hash to.
Load(p) ==
    LET s == cache[SlotOf(p)] IN
    /\ maker[p].pc = "load"
    /\ IF CachedFor(s, DescOf(maker[p].job.desc).vars, maker[p].job.values)
       THEN maker' = [maker EXCEPT ![p].pc = "made", ![p].pairs = s[1].pairs]
       ELSE maker' = [maker EXCEPT ![p].pc = "build"]
    /\ UNCHANGED <<heap, cache>>

\* Mutation of RoomFor: the array has room for more.
RoomFor_More(d) == Len(d.vars) + Len(d.pairs) + 2
\* The array has room for these pairs and no other.
RoomFor(d) == Len(d.vars) + Len(d.pairs)

Built(d, values) == SortedPairs([i \in DOMAIN values |-> Pair(d.vars[i], values[i])] \o d.pairs)

Build(p) ==
    LET d == DescOf(maker[p].job.desc)
        items == Built(d, maker[p].job.values) IN
    /\ maker[p].pc = "build"
    /\ heap' = Append(heap, [items |-> items, cap |-> RoomFor(d)])
    /\ maker' = [maker EXCEPT ![p].pairs = [at |-> Len(heap'), len |-> Len(items)],
                              ![p].pc = IF d.pairs = <<>> THEN "store" ELSE "made"]
    /\ UNCHANGED cache

\* putLabelPairs overwrites what the slot holds.
Store(p) ==
    /\ maker[p].pc = "store"
    /\ cache' = [cache EXCEPT ![SlotOf(p)] = <<[names |-> DescOf(maker[p].job.desc).vars,
                                               values |-> maker[p].job.values, pairs |-> maker[p].pairs]>>]
    /\ maker' = [maker EXCEPT ![p].pc = "made"]
    /\ UNCHANGED heap

\* The metric's own Write hands out its pairs.
WriteOwn(p) ==
    /\ maker[p].pc = "made" /\ maker[p].writes < MaxMetricWrites
    /\ maker' = [maker EXCEPT ![p].pc = "wrap", ![p].out = maker[p].pairs, ![p].wrap = 0]
    /\ UNCHANGED <<heap, cache>>

\* wrappingMetric.Write adds its labels and sorts, without labels it does neither.
WriteWrapped(p) ==
    LET m == maker[p]
        labels == PairsOf(m.job.wraps[m.wrap + 1].labels)
        r == SortedIn(AppendAll(heap, m.out, labels)) IN
    /\ m.pc = "wrap" /\ m.wrap < Len(m.job.wraps)
    /\ IF labels = <<>>
       THEN maker' = [maker EXCEPT ![p].wrap = @ + 1] /\ UNCHANGED heap
       ELSE heap' = r.heap /\ maker' = [maker EXCEPT ![p].wrap = @ + 1, ![p].out = r.slice]
    /\ UNCHANGED cache

Written(p) ==
    /\ maker[p].pc = "wrap" /\ maker[p].wrap = Len(maker[p].job.wraps)
    /\ maker' = [maker EXCEPT ![p].pc = "made", ![p].writes = @ + 1]
    /\ UNCHANGED <<heap, cache>>

LabelNext ==
    \E p \in Makers : \/ \E j \in Jobs : Make(p, j)
                      \/ Load(p) \/ Build(p) \/ Store(p)
                      \/ WriteOwn(p) \/ WriteWrapped(p) \/ Written(p)

-----------------------------------------------------------------------------
HasPairs(p) == maker[p].pc \in {"store", "made", "wrap"}
Wrote(p) == maker[p].pc = "made" /\ maker[p].writes > 0

\* What a metric, a descriptor and the cache hold is never changed by what others make,
\* wrap and write, and what a wrapped metric writes has the labels of the descriptor it
\* was described with: its constant ones and, under their names, the values (Write of
\* wrappingMetric on label pairs shared through labelPairCache).
LabelsIntact ==
    /\ \A p \in Makers : maker[p].pc # "idle" =>
         LET k == maker[p].job.desc IN Items([at |-> k, len |-> Len(DescOf(k).pairs)]) = DescOf(k).pairs
    /\ \A h \in DOMAIN cache : cache[h] # <<>> =>
         MapOf(Items(cache[h][1].pairs)) = [n \in Range(cache[h][1].names) |->
             cache[h][1].values[CHOOSE i \in DOMAIN cache[h][1].names : cache[h][1].names[i] = n]]
    /\ \A p \in Makers : HasPairs(p) =>
         Items(maker[p].pairs) = Built(DescOf(maker[p].job.desc), maker[p].job.values)
    /\ \A p \in Makers : Wrote(p) /\ maker[p].full.err = "" =>
         Items(maker[p].out) = Built(maker[p].full, maker[p].job.values)

MarkedNames == Range(Dollar)
Names(d) == {p.name : p \in Range(d.pairs)}

\* Two descriptors have the same dimHash just if help, unit, constant and variable label
\* names are the same, and the same id just if name and values of the constant labels are
\* - for label names that do not begin with "$"; however they were wrapped: an invalid
\* descriptor stays invalid, and wrapping twice is wrapping with both labels and prefixes.
DescIdentity ==
    \A p, q \in Makers :
        LET d == maker[p].full
            e == maker[q].full IN
        maker[p].pc # "idle" /\ maker[q].pc # "idle" =>
            /\ DescOf(maker[p].job.desc).err # "" => d.err # ""
            /\ d.err = "" /\ e.err = "" /\ (Names(d) \cup Names(e)) \cap MarkedNames = {} =>
                 /\ (d.dimHash = e.dimHash) <=>
                       /\ d.help = e.help /\ d.unit = e.unit
                       /\ Names(d) = Names(e) /\ Range(d.vars) = Range(e.vars)
                 /\ (d.id = e.id) <=> /\ d.fqName = e.fqName
                                      /\ [i \in DOMAIN d.pairs |-> d.pairs[i].value] = [i \in DOMAIN e.pairs |-> e.pairs[i].value]
            /\ d.err = "" =>
                 /\ d.fqName = FoldLeft(LAMBDA n, w : w.prefix \o n, Descs[maker[p].job.desc].fqName, maker[p].job.wraps)
                 /\ Names(d) = DOMAIN Descs[maker[p].job.desc].consts \cup
                                 UNION {DOMAIN maker[p].job.wraps[i].labels : i \in DOMAIN maker[p].job.wraps}
=============================================================================
