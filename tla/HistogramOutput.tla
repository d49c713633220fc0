-------------------------- MODULE HistogramOutput --------------------------
(***************************************************************************)
(* What a histogram keeps beside its counts, and how it is written: the     *)
(* exemplars of the classic buckets, which concurrent observers store in a  *)
(* table that the first of them allocates; the few exemplars of a native    *)
(* histogram, spread by value; the dto that Write fills in anew or refills; *)
(* and sparse buckets as spans and deltas, from a histogram or as constant  *)
(* histograms are given them.                                               *)
(*                                                                          *)
(* An observation is one step here: Histogram has its atomic operations.    *)
(* Values are integers, one of which stands for NaN, and their logarithms   *)
(* are a constant.                                                          *)
(***************************************************************************)
EXTENDS Integers, Sequences, FiniteSets, SequencesExt

CONSTANTS
    Updaters,      \* goroutines that observe with exemplars, numbered from 1
    OutputSetups,  \* options: buckets, native, maxExemplars, ttl; what is observed and by whom; the kinds of
                   \* Write; arguments of NewConstNativeHistogram; and bounds: updates, time
    NaNValue,      \* the value that stands for NaN
    LogOf,         \* math.Log of the values: an integer, NegInf or NaNLog
    NegInf, PosInf, NaNLog,
    DefaultTTL     \* five minutes

VARIABLES
    hist,         \* the setup; hist.buckets is upperBounds
    bucketCounts, \* observations per classic bucket
    tables,       \* tables of exemplars, one per goroutine that may allocate one
    exemplars,    \* histogram.exemplars: whose table it is, 0 for nil
    natives,      \* nativeExemplars.exemplars
    updater,      \* the goroutines in ObserveWithExemplar
    dto,          \* what Write has filled in last
    updates, clock,
    const,        \* the last constant histogram: arguments, error, what it writes
    latest,       \* history: the last exemplar stored per bucket
    added,        \* history: the last call of addExemplar: natives before, and the exemplar
    fresh         \* history: what Write would have built anew when dto was filled in

outputVars ==
    <<hist, bucketCounts, tables, exemplars, natives, updater, dto, updates, clock, const, latest, added, fresh>>

NoExemplar == [value |-> NaNValue, at |-> -1, id |-> 0]
LeqValue(v, w) == v # NaNValue /\ v <= w
FirstIn(S, n) == IF S = {} THEN n ELSE Min(S)

-----------------------------------------------------------------------------
(* newHistogram, findBucket, makeNativeExemplars. *)

\* The bounds must increase, and a last one of +Inf is implicit.
Increasing(bs) == \A i \in 1 .. Len(bs) - 1 : bs[i] < bs[i + 1]
UpperBounds(bs) == IF bs # <<>> /\ Last(bs) = PosInf THEN Front(bs) ELSE bs

\* Buckets count from 0, the one for +Inf is Len(bs).
FindBucket(bs, v) ==
    LET n == Len(bs)
        holding == {i \in 0 .. n - 1 : LeqValue(v, bs[i + 1])} IN
    IF n = 0 THEN 0
    ELSE IF LeqValue(v, bs[1]) THEN 0
    ELSE IF v # NaNValue /\ v > bs[n] THEN n
    ELSE FirstIn(holding, n)

\* 0 is the default, and a negative number of exemplars turns them off: the time to live
\* is Off then, which may be given by the caller, too.
Capacity(max) == IF max = 0 THEN 10 ELSE IF max < 0 THEN 0 ELSE max
Off == -1
TTL(h) == IF h.maxExemplars < 0 THEN Off ELSE IF h.ttl = 0 THEN DefaultTTL ELSE h.ttl
Enabled(h) == h.native /\ TTL(h) # Off

-----------------------------------------------------------------------------
(* addExemplar *)

Diff(x, y) == IF NaNLog \in {x, y} \/ (x = NegInf /\ y = NegInf) THEN NaNLog
              ELSE IF NegInf \in {x, y} THEN PosInf
              ELSE IF x < y THEN y - x ELSE x - y
LessLog(x, y) == NaNLog \notin {x, y} /\ x < y
Distance(e, f) == Diff(LogOf[e.value], LogOf[f.value])

\* The first of the oldest.
Oldest(ex) == Min({i \in DOMAIN ex : \A j \in DOMAIN ex : ex[i].at <= ex[j].at})

\* The older one of the closest pair of neighbours; NaN is closer than nothing.
Closest(ex) ==
    FoldLeft(LAMBDA st, i :
               LET d == Distance(ex[i], ex[i - 1]) IN
               IF i = 2 \/ LessLog(d, st.md)
               THEN [md |-> d, r |-> IF ex[i].at < ex[i - 1].at THEN i ELSE i - 1] ELSE st,
             [md |-> 0, r |-> 0], [k \in 1 .. Len(ex) - 1 |-> k + 1])

\* Mutation of ToReplace: the pairs that the new exemplar makes are left out.
ToReplace_Before(ex, e, n, ttl) ==
    IF e.at - ex[Oldest(ex)].at > ttl THEN Oldest(ex) ELSE Closest(ex).r
\* The oldest if it has expired; else one of the closest pair, the new exemplar, to be
\* inserted at n, included.
ToReplace(ex, e, n, ttl) ==
    LET c == Closest(ex)
        before == IF n > 1 /\ LessLog(Distance(e, ex[n - 1]), c.md)
                  THEN [md |-> Distance(e, ex[n - 1]), r |-> n - 1] ELSE c
    IN IF e.at - ex[Oldest(ex)].at > ttl THEN Oldest(ex)
       ELSE IF n <= Len(ex) /\ LessLog(Distance(e, ex[n]), before.md) THEN n ELSE before.r

AddExemplar(ex, e, cap, ttl) ==
    LET first(S) == FirstIn(S, Len(ex) + 1)
        n == first({i \in DOMAIN ex : e.value <= ex[i].value})
        r == ToReplace(ex, e, n, ttl)
    IN IF Len(ex) < cap THEN InsertAt(ex, first({i \in DOMAIN ex : e.value < ex[i].value}), e)
       ELSE IF Len(ex) = 1 THEN <<e>>
       ELSE InsertAt(RemoveAt(ex, r), IF r < n THEN n - 1 ELSE n, e)

-----------------------------------------------------------------------------
(* Sparse buckets as spans and deltas. *)

NoSpans == [spans |-> <<>>, deltas |-> <<>>, prev |-> 0, next |-> 0]

AppendDelta(st, count) ==
    [st EXCEPT !.spans[Len(st.spans)].length = @ + 1,
               !.deltas = Append(@, count - st.prev), !.prev = count]

\* A gap of one or two buckets is filled with empty ones, a larger one starts a new span.
AppendBucket(st, i, count) ==
    LET gap == i - st.next
        begun == IF st.spans = <<>> \/ gap > 2
                 THEN [st EXCEPT !.spans = Append(@, [offset |-> gap, length |-> 0])]
                 ELSE FoldLeft(LAMBDA s, j : AppendDelta(s, 0), st, [j \in 1 .. gap |-> j])
    IN [AppendDelta(begun, count) EXCEPT !.next = i + 1]

MakeBuckets(buckets) ==
    FoldLeft(LAMBDA st, i : AppendBucket(st, i, buckets[i]), NoSpans,
             SetToSortSeq(DOMAIN buckets, <))

Population(buckets) == FoldFunction(LAMBDA c, n : c + n, 0, buckets)

\* validateCount: with a sum that is NaN some observations may be in no bucket.
ValidCount(x) ==
    LET n == Population(x.pos) + Population(x.neg) + x.zero
    IN IF x.sumNaN THEN n <= x.count ELSE n = x.count

\* A span of no buckets tells a native histogram without any from a classic one.
NativeSpans(x) ==
    LET p == MakeBuckets(x.pos).spans IN
    IF x.threshold = 0 /\ x.zero = 0 /\ p = <<>> /\ MakeBuckets(x.neg).spans = <<>>
    THEN <<[offset |-> 0, length |-> 0]>> ELSE p

-----------------------------------------------------------------------------
NewUpdater == [pc |-> "idle", bucket |-> 0, e |-> NoExemplar, table |-> 0]
ClassicBuckets == 0 .. Len(hist.buckets)
NoTable == [b \in ClassicBuckets |-> NoExemplar]
NoConst == [err |-> TRUE]
NoDto == [buckets |-> <<>>, exemplars |-> <<>>]

OutputInit ==
    /\ \E s \in OutputSetups :
         /\ Increasing(s.buckets)
         /\ hist = [s EXCEPT !.buckets = UpperBounds(@)]
    /\ bucketCounts = [b \in ClassicBuckets |-> 0]
    /\ tables = [u \in Updaters |-> NoTable] /\ exemplars = 0
    /\ natives = <<>>
    /\ updater = [u \in Updaters |-> NewUpdater]
    /\ dto = NoDto /\ fresh = NoDto
    /\ updates = 0 /\ clock = 0
    /\ const = NoConst
    /\ latest = NoTable
    /\ added = [before |-> <<>>, e |-> NoExemplar]

\* The observation, then the exemplar if there are labels; invalid ones panic.
ObserveWithExemplar(u, v, labels) ==
    LET b == FindBucket(hist.buckets, v) IN
    /\ updater[u].pc = "idle" /\ updates < hist.updates
    /\ updates' = updates + 1
    /\ bucketCounts' = [bucketCounts EXCEPT ![b] = @ + 1]
    /\ updater' = IF labels = "valid"
                  THEN [updater EXCEPT ![u] = [pc |-> "slots", bucket |-> b, e |-> [value |-> v, at |-> clock, id |-> updates'], table |-> 0]]
                  ELSE updater
    /\ UNCHANGED <<hist, tables, exemplars, natives, dto, clock, const, latest, added, fresh>>

\* exemplarSlots: the table there is, or one of its own to put in its place.
LoadSlots(u) ==
    /\ updater[u].pc = "slots"
    /\ updater' = [updater EXCEPT ![u].pc = IF exemplars # 0 THEN "store" ELSE "swap", ![u].table = exemplars]
    /\ UNCHANGED <<hist, bucketCounts, tables, exemplars, natives, dto, updates, clock, const, latest, added, fresh>>

\* Mutation of Winner: whoever allocates a table puts it in place.
Winner_Last(u) == u
Winner(u) == IF exemplars = 0 THEN u ELSE exemplars

SwapSlots(u) ==
    /\ updater[u].pc = "swap"
    /\ exemplars' = Winner(u)
    /\ tables' = IF exemplars' = u THEN [tables EXCEPT ![u] = NoTable] ELSE tables
    /\ updater' = [updater EXCEPT ![u].pc = "store", ![u].table = exemplars']
    /\ UNCHANGED <<hist, bucketCounts, natives, dto, updates, clock, const, latest, added, fresh>>

StoreExemplar(u) ==
    LET x == updater[u] IN
    /\ x.pc = "store"
    /\ tables' = [tables EXCEPT ![x.table][x.bucket] = x.e]
    /\ latest' = [latest EXCEPT ![x.bucket] = x.e]
    /\ updater' = [updater EXCEPT ![u].pc = IF hist.native /\ x.e.value # NaNValue THEN "native" ELSE "idle"]
    /\ UNCHANGED <<hist, bucketCounts, exemplars, natives, dto, updates, clock, const, added, fresh>>

AddNative(u) ==
    LET e == updater[u].e IN
    /\ updater[u].pc = "native"
    /\ IF Enabled(hist)
       THEN /\ natives' = AddExemplar(natives, e, Capacity(hist.maxExemplars), TTL(hist))
            /\ added' = [before |-> natives, e |-> e]
       ELSE UNCHANGED <<natives, added>>
    /\ updater' = [updater EXCEPT ![u].pc = "idle"]
    /\ UNCHANGED <<hist, bucketCounts, tables, exemplars, dto, updates, clock, const, latest, fresh>>

-----------------------------------------------------------------------------
(* Write *)

ExemplarAt(b) == IF exemplars = 0 THEN NoExemplar ELSE tables[exemplars][b]

Cumulated(b) == FoldFunctionOnSet(LAMBDA c, n : c + n, 0, bucketCounts, 0 .. b)
BucketOf(b, e) == [bound |-> IF b = Len(hist.buckets) THEN PosInf ELSE hist.buckets[b + 1],
                   count |-> Cumulated(b), exemplar |-> e]

\* The +Inf bucket is there for its exemplar only.
BuiltDto ==
    LET n == Len(hist.buckets) IN
    [buckets |-> [i \in 1 .. IF ExemplarAt(n) = NoExemplar THEN n ELSE n + 1 |-> BucketOf(i - 1, ExemplarAt(i - 1))],
     exemplars |-> IF Enabled(hist) THEN natives ELSE <<>>]

\* Mutation of MayRefill: the exemplar on +Inf is not looked at.
MayRefill_AnyExemplar(d) == ~hist.native /\ d # NoDto /\ Len(d.buckets) = Len(hist.buckets)
MayRefill(d) ==
    /\ ~hist.native /\ d # NoDto /\ Len(d.buckets) = Len(hist.buckets)
    /\ ExemplarAt(Len(hist.buckets)) = NoExemplar
    /\ \A i \in DOMAIN d.buckets : d.buckets[i].bound = hist.buckets[i]

\* The exemplars it has stay where there is no other.
Refilled(d) ==
    [d EXCEPT !.buckets = [i \in DOMAIN d.buckets |->
        BucketOf(i - 1, IF ExemplarAt(i - 1) = NoExemplar THEN d.buckets[i].exemplar ELSE ExemplarAt(i - 1))]]

\* To the dto of the last Write, or to a new one.
WriteHistogram(reuse) ==
    /\ dto' = IF reuse /\ MayRefill(dto) THEN Refilled(dto) ELSE BuiltDto
    /\ fresh' = BuiltDto
    /\ UNCHANGED <<hist, bucketCounts, tables, exemplars, natives, updater, updates, clock, const, latest, added>>

\* NewConstNativeHistogram, whose Write hands out what it has made.
MakeConst(x) ==
    /\ const = NoConst
    /\ const' = IF x.schema \notin -4 .. 8 \/ ~ValidCount(x) THEN [args |-> x, err |-> TRUE]
                ELSE [args |-> x, err |-> FALSE, posSpans |-> NativeSpans(x), posDeltas |-> MakeBuckets(x.pos).deltas,
                      negSpans |-> MakeBuckets(x.neg).spans, negDeltas |-> MakeBuckets(x.neg).deltas]
    /\ UNCHANGED <<hist, bucketCounts, tables, exemplars, natives, updater, dto, updates, clock, latest, added, fresh>>

Elapse ==
    /\ clock < hist.time
    /\ clock' = clock + 1
    /\ UNCHANGED <<hist, bucketCounts, tables, exemplars, natives, updater, dto, updates, const, latest, added, fresh>>

OutputNext ==
    \/ \E u \in hist.by :
         \/ \E v \in hist.values, l \in hist.labels : ObserveWithExemplar(u, v, l)
         \/ LoadSlots(u) \/ SwapSlots(u) \/ StoreExemplar(u) \/ AddNative(u)
    \/ \E reuse \in hist.reuse : WriteHistogram(reuse)
    \/ \E x \in hist.consts : MakeConst(x)
    \/ Elapse

OutputSpec == OutputInit /\ [][OutputNext]_outputVars

-----------------------------------------------------------------------------
\* An exemplar that was stored is the one written, until another is stored for its
\* bucket, also when two observers allocate the table at once (exemplarSlots).
ExemplarsKept == \A b \in ClassicBuckets : ExemplarAt(b) = latest[b]

\* The exemplars of a native histogram are in order and no more than there is room for;
\* an update adds its exemplar and replaces at most one, only when there is no room:
\* if one had expired then an oldest one, else, with logarithms that can be compared,
\* one of two neighbours that were as close as any, so that they stay spread.
NativeSpread ==
    LET before == added.before
        all == Range(before) \cup {added.e}
        gone == all \ Range(natives)
        expired(x) == added.e.at - x.at > TTL(hist)
        oldest(x) == \A y \in Range(before) : x.at <= y.at
        near(x, y) == \A p, q \in all : p # q => ~LessLog(Distance(p, q), Distance(x, y)) IN
    /\ Len(natives) <= Capacity(hist.maxExemplars)
    /\ \A i \in 1 .. Len(natives) - 1 : natives[i].value <= natives[i + 1].value
    /\ added.e # NoExemplar =>
         /\ added.e \in Range(natives) /\ Range(natives) \subseteq all
         /\ Len(before) < Capacity(hist.maxExemplars) => gone = {} /\ Len(natives) = Len(before) + 1
         /\ Len(before) = Capacity(hist.maxExemplars) => Len(natives) = Len(before)
         /\ \A x \in gone : Len(before) > 1 =>
              IF \E y \in Range(before) : expired(y) THEN oldest(x)
              ELSE (\A y \in all : LogOf[y.value] \notin {NaNLog, NegInf}) =>
                     \E y \in all \ {x} : near(x, y)

\* A dto that is refilled says what a new one would have said.
RefillExact == dto = fresh

\* The spans and deltas of a native histogram say what its buckets hold, with empty
\* buckets in gaps of at most two only; its buckets hold its count, or less if its sum
\* is NaN; and it does not look like a classic one.
SpanCounts(spans, deltas) ==
    LET step(st, s) ==
          [at |-> st.at + s.offset + s.length,
           keys |-> st.keys \o [i \in 1 .. s.length |-> st.at + s.offset + i - 1]]
        keys == FoldLeft(step, [at |-> 0, keys |-> <<>>], spans).keys
    IN [i \in DOMAIN keys |-> [key |-> keys[i], count |-> FoldLeft(+, 0, SubSeq(deltas, 1, i))]]

SpansSay(spans, deltas, buckets) ==
    LET d == SpanCounts(spans, deltas) IN
    /\ Len(d) = Len(deltas)
    /\ {x \in Range(d) : x.count # 0} = {[key |-> k, count |-> buckets[k]] : k \in DOMAIN buckets}
    /\ \A i \in 2 .. Len(spans) : spans[i].offset > 2
    /\ \A i \in 1 .. Len(d) - 2 : \E j \in i .. i + 2 : d[j].count # 0

ConstExact ==
    ~const.err =>
        LET x == const.args
            held == FoldLeft(LAMBDA n, c : n + c.count, x.zero,
                             SpanCounts(const.posSpans, const.posDeltas) \o SpanCounts(const.negSpans, const.negDeltas)) IN
        /\ SpansSay(const.posSpans, const.posDeltas, x.pos)
        /\ SpansSay(const.negSpans, const.negDeltas, x.neg)
        /\ held <= x.count /\ (~x.sumNaN => held = x.count)
        /\ \/ x.threshold # 0 \/ x.zero # 0
           \/ const.posSpans # <<>> \/ const.negSpans # <<>>

\* A histogram writes what it holds.
HistogramWrites == ExemplarsKept /\ NativeSpread /\ RefillExact /\ ConstExact
=============================================================================
