----------------------------- MODULE Histogram -----------------------------
(***************************************************************************)
(* The histogram of prometheus/histogram.go: lock-free observations into   *)
(* the hot counts; Write, the bucket limitation of a native histogram      *)
(* (reset, wider zero bucket, doubled bucket width) and the scheduled      *)
(* reset, which swap hot and cold under mtx, wait until the counts that    *)
(* turned cold are complete and merge them into the new hot ones.          *)
(*                                                                         *)
(* Abstractions.  A float is a member of Values.  Its magnitude is the key *)
(* of its sparse bucket in the initial schema; a threshold is such a key   *)
(* too, the bound of that bucket, and a schema is the number of times the  *)
(* bucket width has been doubled.  A sum of floats is the bag of its       *)
(* summands.  Exemplars are left out; mark, which ends observe, is in      *)
(* ChangeTracker and TrackedExposer.                                       *)
(***************************************************************************)
EXTENDS Integers, FiniteSets, FiniteSetsExt, Functions

CONSTANTS
    Observers,      \* goroutines that observe
    Scraper,        \* the goroutine that calls Write
    Timer,          \* the goroutine of the scheduled reset
    None,           \* nobody holds mtx
    Values,         \* what is observed
    NaNs,           \* the values that are NaN
    Negatives,      \* the values below zero
    FineKey,        \* the sparse bucket of a value's magnitude in the initial schema
    NumBuckets,     \* len(upperBounds)
    Bucket,         \* findBucket, NumBuckets + 1 for the +Inf bucket
    Native,         \* nativeHistogramSchema > math.MinInt32
    MaxBuckets,     \* nativeHistogramMaxBuckets, 0 for no limit
    ZeroThreshold,  \* nativeHistogramZeroThreshold
    MaxThreshold,   \* nativeHistogramMaxZeroThreshold
    MaxLevel,       \* how often the width may be doubled: down to schema -4
    Resets,         \* nativeHistogramMinResetDuration > 0
    MaxObservations, MaxScrapes   \* bounds

Procs == Observers \cup {Scraper, Timer}

ASSUME ProcsAssumption == /\ IsFiniteSet(Observers) /\ Scraper # Timer
                          /\ {Scraper, Timer} \cap Observers = {} /\ None \notin Procs
ASSUME ValuesAssumption == /\ IsFiniteSet(Values) /\ Values # {} /\ NaNs \subseteq Values
                           /\ Negatives \subseteq Values \ NaNs
                           /\ FineKey \in [Values -> Int]
ASSUME BucketsAssumption == /\ NumBuckets \in Nat
                            /\ Bucket \in [Values -> 1..(NumBuckets + 1)]
                            /\ \A v \in NaNs : Bucket[v] = NumBuckets + 1
ASSUME OptionsAssumption == /\ {Native, Resets} \subseteq BOOLEAN
                            /\ {MaxBuckets, MaxLevel} \subseteq Nat
                            /\ {ZeroThreshold, MaxThreshold} \subseteq Int
ASSUME BoundsAssumption == {MaxObservations, MaxScrapes} \subseteq Nat

VARIABLES
    hot,        \* the high bit of countAndHotIdx
    begun,      \* its low bits: the observations begun since the last reset
    counts,     \* histogram.counts
    mtx,        \* its holder
    scheduled,  \* resetScheduled
    elapsed,    \* nativeHistogramMinResetDuration has passed since lastResetTime
    created,    \* lastResetTime, as the number of the reset
    pc,         \* the next step of each goroutine
    val, side,  \* observe's v and hotCounts
    seen,       \* observe's schema and zeroThreshold
    plan,       \* why hot and cold are swapped: write, widen, double, reset
    awaited,    \* what waitForCooldown waits for
    smallest,   \* smallestKey of maybeWidenZeroBucket
    left,       \* the cold sparse buckets Range has still to visit
    observed, scrapes,  \* observations and scrapes made, for the bounds
    made,       \* history: the observations begun since the last reset, a bag
    forgotten,  \* history: those begun before, a bag
    snap,       \* history: all observations begun when the last Write swapped
    reported    \* history: what the last Write wrote: the sum, and created;
                \* with what was forgotten by then

hotVars == <<hot, begun, counts>>
mtxVars == <<mtx, scheduled, elapsed, created, plan, awaited, smallest, left>>
observerVars == <<val, side, seen, observed>>
historyVars == <<made, forgotten, snap, reported>>
vars == <<hotVars, mtxVars, observerVars, historyVars, pc, scrapes>>

cold == 1 - hot

-----------------------------------------------------------------------------
(* The counts *)

NoValues == [v \in Values |-> 0]
NoBuckets == [k \in {} |-> 0]

\* resetCounts, and newHistogram: empty, in the initial resolution
Fresh == [count |-> 0, sum |-> NoValues, classic |-> [b \in 1..NumBuckets |-> 0],
          zero |-> 0, thr |-> ZeroThreshold, lvl |-> 0, num |-> 0, sparse |-> NoBuckets]

\* addToBucket, and whether it creates the bucket
Creates(buckets, k) == k \notin DOMAIN buckets
AddToBucket(buckets, k, n) ==
    [x \in DOMAIN buckets \cup {k} |->
        (IF x \in DOMAIN buckets THEN buckets[x] ELSE 0) + (IF x = k THEN n ELSE 0)]

Without(buckets, k) == [x \in DOMAIN buckets \ {k} |-> buckets[x]]

\* observe: a bucket at schema l is 2^l buckets of the initial schema, of which
\* it has the upper bound
KeyAt(v, l) == -((-FineKey[v]) \div 2^l)
SparseKey(v, l) == [neg |-> v \in Negatives, key |-> KeyAt(v, l)]

\* getLe
Le(key, l) == key * 2^l

\* doSparse
DoSparse(v) == Native /\ v \notin NaNs

\* observe: the comparisons with the zero threshold
InZero(v, t) == FineKey[v] <= t

\* observe: the classic bucket and the sum
ObserveClassic(hc, v) ==
    [hc EXCEPT !.classic = [b \in 1..NumBuckets |-> @[b] + (IF b = Bucket[v] THEN 1 ELSE 0)],
               !.sum[v] = @ + 1]

\* observe: the zero bucket or the sparse bucket, for the schema and threshold seen
ObservePlace(hc, v, s) ==
    IF InZero(v, s.thr) THEN [hc EXCEPT !.zero = @ + 1]
                        ELSE [hc EXCEPT !.sparse = AddToBucket(@, SparseKey(v, s.lvl), 1)]

\* observe, as maybeReset calls it on counts that nobody else uses
ObserveAll(hc, v) ==
    [ObservePlace(ObserveClassic(hc, v), v, [lvl |-> hc.lvl, thr |-> hc.thr])
        EXCEPT !.num = IF InZero(v, hc.thr) THEN @ ELSE @ + 1, !.count = @ + 1]

\* addAndResetCounts
MergedInto(h, c) ==
    [h EXCEPT !.count = @ + c.count, !.zero = @ + c.zero,
              !.sum = [v \in Values |-> @[v] + c.sum[v]],
              !.classic = [b \in 1..NumBuckets |-> @[b] + c.classic[b]]]

\* Mutations of Emptied: the count, or the sum, is not reset.
Emptied_KeepsCount(c) == [c EXCEPT !.zero = 0, !.sum = NoValues,
                                   !.classic = [b \in 1..NumBuckets |-> 0]]
Emptied_KeepsSum(c) == [c EXCEPT !.count = 0, !.zero = 0,
                                 !.classic = [b \in 1..NumBuckets |-> 0]]

Emptied(c) == [c EXCEPT !.count = 0, !.zero = 0, !.sum = NoValues,
                        !.classic = [b \in 1..NumBuckets |-> 0]]

\* addToBucket into the hot counts, and their number of buckets
SparseInto(h, k, n) ==
    [h EXCEPT !.num = IF Creates(h.sparse, k) THEN @ + 1 ELSE @,
              !.sparse = AddToBucket(@, k, n)]

-----------------------------------------------------------------------------

Init ==
    /\ hot = 0 /\ begun = 0
    /\ counts = [c \in 0..1 |-> Fresh]
    /\ mtx = None /\ scheduled = FALSE /\ elapsed = FALSE /\ created = 0
    /\ pc = [p \in Procs |-> "rest"]
    /\ val = [o \in Observers |-> CHOOSE v \in Values : TRUE]
    /\ side = [o \in Observers |-> 0]
    /\ seen = [o \in Observers |-> [lvl |-> 0, thr |-> ZeroThreshold]]
    /\ plan = "write" /\ awaited = 0 /\ smallest = 0 /\ left = {}
    /\ observed = 0 /\ scrapes = 0
    /\ made = NoValues /\ forgotten = NoValues /\ snap = NoValues
    /\ reported = [sum |-> NoValues, created |-> 0, forgotten |-> NoValues]

Goto(p, l) == pc' = [pc EXCEPT ![p] = l]

-----------------------------------------------------------------------------
(* observe *)

\* countAndHotIdx is incremented: the observation belongs to the counts hot now
Begin(o, v) ==
    /\ pc[o] = "rest"
    /\ observed < MaxObservations
    /\ observed' = observed + 1
    /\ begun' = begun + 1
    /\ made' = [made EXCEPT ![v] = @ + 1]
    /\ side' = [side EXCEPT ![o] = hot]
    /\ val' = [val EXCEPT ![o] = v]
    /\ Goto(o, "classic")
    /\ UNCHANGED <<hot, counts, mtxVars, seen, forgotten, snap, reported, scrapes>>

\* A step of observe on its counts
OnCounts(o, hc) == counts' = [counts EXCEPT ![side[o]] = hc]

Classic(o) ==
    /\ pc[o] = "classic"
    /\ OnCounts(o, ObserveClassic(counts[side[o]], val[o]))
    /\ Goto(o, IF DoSparse(val[o]) THEN "look" ELSE "count")
    /\ UNCHANGED <<hot, begun, mtxVars, observerVars, historyVars, scrapes>>

\* The schema and the zero threshold are loaded
Look(o) ==
    /\ pc[o] = "look"
    /\ seen' = [seen EXCEPT ![o] = [lvl |-> counts[side[o]].lvl, thr |-> counts[side[o]].thr]]
    /\ Goto(o, "place")
    /\ UNCHANGED <<hotVars, mtxVars, val, side, observed, historyVars, scrapes>>

Place(o) ==
    /\ pc[o] = "place"
    /\ OnCounts(o, ObservePlace(counts[side[o]], val[o], seen[o]))
    /\ Goto(o, IF /\ ~InZero(val[o], seen[o].thr)
                  /\ Creates(counts[side[o]].sparse, SparseKey(val[o], seen[o].lvl))
               THEN "number" ELSE "count")
    /\ UNCHANGED <<hot, begun, mtxVars, observerVars, historyVars, scrapes>>

\* bucketCreated: nativeHistogramBucketsNumber is incremented
Number(o) ==
    /\ pc[o] = "number"
    /\ OnCounts(o, [counts[side[o]] EXCEPT !.num = @ + 1])
    /\ Goto(o, "count")
    /\ UNCHANGED <<hot, begun, mtxVars, observerVars, historyVars, scrapes>>

\* "Increment count last as we take it as a signal that the observation is complete"
Count(o) ==
    /\ pc[o] = "count"
    /\ OnCounts(o, [counts[side[o]] EXCEPT !.count = @ + 1])
    /\ Goto(o, IF DoSparse(val[o]) THEN "limit" ELSE "rest")
    /\ UNCHANGED <<hot, begun, mtxVars, observerVars, historyVars, scrapes>>

-----------------------------------------------------------------------------
(* limitBuckets *)

WithinLimit(c) == MaxBuckets = 0 \/ counts[c].num <= MaxBuckets

\* The check before the mutex
LimitCheck(o) ==
    /\ pc[o] = "limit"
    /\ Goto(o, IF WithinLimit(side[o]) THEN "rest" ELSE "lock")
    /\ UNCHANGED <<hotVars, mtxVars, observerVars, historyVars, scrapes>>

\* The mutex is got, and the hot counts of now are within the limit after all
LimitKept(o) ==
    /\ pc[o] = "lock" /\ mtx = None
    /\ WithinLimit(hot)
    /\ Goto(o, "rest")
    /\ UNCHANGED <<hotVars, mtxVars, observerVars, historyVars, scrapes>>

\* maybeReset's conditions
MayReset == Resets /\ ~scheduled /\ elapsed

\* The mutex is got and the limit is exceeded
Limits(o) == pc[o] = "lock" /\ mtx = None /\ ~WithinLimit(hot)

\* The mutex is taken and the cold counts are made ready to become the hot ones
Prepare(p, strategy, hc) ==
    /\ mtx' = p
    /\ plan' = strategy
    /\ counts' = [counts EXCEPT ![cold] = hc]
    /\ Goto(p, "swap")

\* maybeReset, to the swap
LimitReset(o) ==
    /\ Limits(o) /\ MayReset
    /\ Prepare(o, "reset", ObserveAll(Fresh, val[o]))
    /\ UNCHANGED <<hot, begun, scheduled, elapsed, created, awaited, smallest, left,
                   observerVars, historyVars, scrapes>>

\* Mutation of Schedule: nothing is scheduled.
Schedule_Never == UNCHANGED scheduled

\* A reset is scheduled, to undo what comes next
Schedule == scheduled' = (scheduled \/ Resets)

\* findSmallestKey of both signs, and maybeWidenZeroBucket's conditions
KeysOf(c) == {k.key : k \in DOMAIN counts[c].sparse}
MayWiden == /\ counts[hot].thr < MaxThreshold
            /\ KeysOf(hot) # {}
            /\ Le(Min(KeysOf(hot)), counts[hot].lvl) <= MaxThreshold

\* Mutation of Removed: a bucket of each sign is counted out, there or not.
Removed_Both(hc, key) ==
    [hc EXCEPT !.num = @ - 2, !.sparse = [k \in {x \in DOMAIN @ : x.key # key} |-> @[k]]]

\* LoadAndDelete of the buckets of a key, of either sign
Removed(hc, key) ==
    LET there == {k \in DOMAIN hc.sparse : k.key = key}
    IN  [hc EXCEPT !.num = @ - Cardinality(there),
                   !.sparse = [k \in DOMAIN @ \ there |-> @[k]]]

\* maybeWidenZeroBucket, to the swap
LimitWiden(o) ==
    /\ Limits(o) /\ ~MayReset /\ MayWiden
    /\ Schedule
    /\ smallest' = Min(KeysOf(hot))
    /\ Prepare(o, "widen", [Removed(counts[cold], smallest') EXCEPT
                                !.thr = Le(smallest', counts[hot].lvl)])
    /\ UNCHANGED <<hot, begun, elapsed, created, awaited, left, observerVars, historyVars,
                   scrapes>>

\* doubleBucketWidth, to the swap
LimitDouble(o) ==
    /\ Limits(o) /\ ~MayReset /\ ~MayWiden
    /\ counts[cold].lvl < MaxLevel
    /\ Schedule
    /\ Prepare(o, "double", [counts[cold] EXCEPT !.lvl = @ + 1, !.num = 0, !.sparse = NoBuckets])
    /\ UNCHANGED <<hot, begun, elapsed, created, awaited, smallest, left, observerVars,
                   historyVars, scrapes>>

\* doubleBucketWidth at the lowest resolution
LimitLowest(o) ==
    /\ Limits(o) /\ ~MayReset /\ ~MayWiden
    /\ counts[cold].lvl = MaxLevel
    /\ Schedule
    /\ Goto(o, "rest")
    /\ UNCHANGED <<hotVars, mtx, elapsed, created, plan, awaited, smallest, left, observerVars,
                   historyVars, scrapes>>

-----------------------------------------------------------------------------
(* reset and Write, to the swap *)

\* reset, called by the timer
TimerReset ==
    /\ pc[Timer] = "rest" /\ scheduled /\ elapsed /\ mtx = None
    /\ Prepare(Timer, "reset", Fresh)
    /\ UNCHANGED <<hot, begun, scheduled, elapsed, created, awaited, smallest, left,
                   observerVars, historyVars, scrapes>>

\* Write
WriteLock ==
    /\ pc[Scraper] = "rest" /\ scrapes < MaxScrapes /\ mtx = None
    /\ scrapes' = scrapes + 1
    /\ Prepare(Scraper, "write", counts[cold])
    /\ UNCHANGED <<hot, begun, scheduled, elapsed, created, awaited, smallest, left,
                   observerVars, historyVars>>

\* nativeHistogramMinResetDuration passes
TimePasses ==
    /\ Resets
    /\ elapsed' = TRUE
    /\ UNCHANGED <<hotVars, mtx, scheduled, created, plan, awaited, smallest, left, observerVars,
                   historyVars, pc, scrapes>>

-----------------------------------------------------------------------------
(* The swap, the cooldown and the merge, in mtx *)

\* A reset repeats the observation that made it, the timer's none
Repeated(p) == IF p = Timer THEN NoValues ELSE [NoValues EXCEPT ![val[p]] = 1]

Both(bag1, bag2) == [v \in Values |-> bag1[v] + bag2[v]]

\* The hot index is switched; with a reset the count starts again
Swap(p) ==
    /\ pc[p] = "swap"
    /\ hot' = cold
    /\ awaited' = begun
    /\ IF plan = "reset"
         THEN /\ begun' = IF p = Timer THEN 0 ELSE 1
              /\ made' = Repeated(p)
              /\ forgotten' = Both(forgotten, made)
         ELSE UNCHANGED <<begun, made, forgotten>>
    /\ snap' = IF plan = "write" THEN Both(forgotten, made) ELSE snap
    /\ Goto(p, "cool")
    /\ UNCHANGED <<counts, mtx, scheduled, elapsed, created, plan, smallest, left,
                   observerVars, reported, scrapes>>

\* Mutation of Cooled: the counts are read right after the swap.
Cooled_Unchecked == TRUE

\* waitForCooldown returns
Cooled == counts[cold].count = awaited

\* The cold counts are complete; Write reads them
Cool(p) ==
    /\ pc[p] = "cool" /\ plan # "reset"
    /\ Cooled
    /\ reported' = IF plan # "write" THEN reported
                   ELSE [sum |-> counts[cold].sum, created |-> created, forgotten |-> forgotten]
    /\ Goto(p, "merge")
    /\ UNCHANGED <<hotVars, mtxVars, observerVars, made, forgotten, snap, scrapes>>

\* Mutation of NextCreated: the reset keeps the created timestamp.
NextCreated_Same == created

\* h.lastResetTime = h.now()
NextCreated == created + 1

\* maybeReset and reset: the formerly hot counts are reset, too
CoolReset(p) ==
    /\ pc[p] = "cool" /\ plan = "reset"
    /\ Cooled
    /\ counts' = [counts EXCEPT ![cold] = Fresh]
    /\ created' = NextCreated
    /\ elapsed' = FALSE
    /\ scheduled' = (scheduled /\ p # Timer)
    /\ mtx' = None
    /\ Goto(p, "rest")
    /\ UNCHANGED <<hot, begun, plan, awaited, smallest, left, observerVars, historyVars,
                   scrapes>>

\* addAndResetCounts, and the new threshold or schema in the cold counts, too
Merge(p) ==
    /\ pc[p] = "merge"
    /\ LET h == counts[hot]
           c == Emptied(counts[cold])
       IN  counts' = [counts EXCEPT
               ![hot] = MergedInto(h, counts[cold]),
               ![cold] = [c EXCEPT !.thr = IF plan = "widen" THEN h.thr ELSE @,
                                   !.lvl = IF plan = "double" THEN h.lvl ELSE @]]
    /\ left' = DOMAIN counts[cold].sparse
    /\ Goto(p, "sparse")
    /\ UNCHANGED <<hot, begun, mtx, scheduled, elapsed, created, plan, awaited, smallest,
                   observerVars, historyVars, scrapes>>

\* Mutation of Halve: no rounding up.
Halve_Down(key) == key \div 2

\* doubleBucketWidth: key++ if positive, then key /= 2, which rounds towards zero
Halve(key) == IF key > 0 THEN (key + 1) \div 2 ELSE -((-key) \div 2)

\* addAndReset, one bucket: added to the hot one, reset and left in place
Refilled(k) ==
    [counts EXCEPT ![hot] = SparseInto(@, k, counts[cold].sparse[k]), ![cold].sparse[k] = 0]

\* Mutation of IntoZero: the bucket is merged and stays.
IntoZero_Kept(k) == [counts EXCEPT ![hot].zero = @ + counts[cold].sparse[k]]

\* maybeWidenZeroBucket, a bucket of the smallest key: into the hot zero bucket
IntoZero(k) ==
    [counts EXCEPT ![hot].zero = @ + counts[cold].sparse[k],
                   ![cold].sparse = Without(@, k), ![cold].num = @ - 1]

\* doubleBucketWidth, one bucket: into the hot bucket that covers it
IntoWider(k) ==
    [counts EXCEPT ![hot] = SparseInto(@, [k EXCEPT !.key = Halve(@)], counts[cold].sparse[k])]

\* One bucket of the Range over the cold sparse buckets
MergeSparse(p) ==
    /\ pc[p] = "sparse"
    /\ \E k \in left :
           /\ left' = left \ {k}
           /\ counts' = CASE plan = "write" -> Refilled(k)
                          [] plan = "widen" -> IF k.key = smallest THEN IntoZero(k)
                                                                   ELSE Refilled(k)
                          [] plan = "double" -> IntoWider(k)
    /\ UNCHANGED <<hot, begun, mtx, scheduled, elapsed, created, plan, awaited, smallest,
                   observerVars, historyVars, pc, scrapes>>

\* The end; doubleBucketWidth deletes all cold buckets
MergeDone(p) ==
    /\ pc[p] = "sparse" /\ left = {}
    /\ counts' = IF plan = "double"
                   THEN [counts EXCEPT ![cold].num = 0, ![cold].sparse = NoBuckets]
                   ELSE counts
    /\ mtx' = None
    /\ Goto(p, "rest")
    /\ UNCHANGED <<hot, begun, scheduled, elapsed, created, plan, awaited, smallest, left,
                   observerVars, historyVars, scrapes>>

-----------------------------------------------------------------------------

InMutex(p) == Swap(p) \/ Cool(p) \/ CoolReset(p) \/ Merge(p) \/ MergeSparse(p) \/ MergeDone(p)

Observe(o) == Classic(o) \/ Look(o) \/ Place(o) \/ Number(o) \/ Count(o)

LimitBuckets(o) == \/ LimitCheck(o) \/ LimitKept(o) \/ LimitReset(o) \/ LimitWiden(o)
                   \/ LimitDouble(o) \/ LimitLowest(o)

\* The bounds are reached and nothing is in progress.
Terminating == /\ \A p \in Procs : pc[p] = "rest"
               /\ observed = MaxObservations /\ scrapes = MaxScrapes
               /\ UNCHANGED vars

Next == \/ \E o \in Observers : \/ \E v \in Values : Begin(o, v)
                                \/ Observe(o) \/ LimitBuckets(o)
        \/ WriteLock \/ TimerReset \/ TimePasses
        \/ \E p \in Procs : InMutex(p)
        \/ Terminating

Spec == Init /\ [][Next]_vars

\* A goroutine that can run does run, whoever waits for the mutex gets it in the
\* end (sync.Mutex hands it over to a waiter that starves), and time passes.
Fairness == /\ \A o \in Observers : WF_vars(Observe(o)) /\ SF_vars(LimitBuckets(o))
            /\ \A p \in Procs : WF_vars(InMutex(p))
            /\ SF_vars(TimerReset) /\ WF_vars(TimePasses)

FairSpec == Spec /\ Fairness

-----------------------------------------------------------------------------
(* Properties *)

\* Every variable has its type: a number of buckets never falls below zero, where
\* it would wrap and the limit be exceeded for good.
TypeOK ==
    /\ hot \in 0..1 /\ begun \in Nat
    /\ DOMAIN counts = 0..1
    /\ \A c \in 0..1 :
           /\ {counts[c].count, counts[c].zero, counts[c].num} \subseteq Nat
           /\ counts[c].sum \in [Values -> Nat]
           /\ counts[c].classic \in [1..NumBuckets -> Nat]
           /\ counts[c].thr \in Int /\ counts[c].lvl \in 0..MaxLevel
           /\ \A k \in DOMAIN counts[c].sparse : counts[c].sparse[k] \in Nat
    /\ mtx \in Procs \cup {None}
    /\ {scheduled, elapsed} \subseteq BOOLEAN /\ created \in Nat
    /\ plan \in {"write", "widen", "double", "reset"}
    /\ \A p \in Procs : pc[p] \in {"swap", "cool", "merge", "sparse"} <=> mtx = p
    /\ awaited \in Nat /\ left \subseteq DOMAIN counts[cold].sparse

Total(bag, S) == SumFunctionOnSet(bag, S)
InBucket(hc, b) == Total(hc.sum, {v \in Values : Bucket[v] = b})
InSparse(hc) == SumFunction(hc.sparse)
SparseAt(hc, k) == IF k \in DOMAIN hc.sparse THEN hc.sparse[k] ELSE 0

\* The values of a sparse bucket, and those of them no zero bucket may count.
Sparsed == Values \ NaNs
Here(k, l) == {v \in Sparsed : SparseKey(v, l) = k}
Highest == Max({ZeroThreshold, MaxThreshold})
Far(k, l) == {v \in Here(k, l) : ~InZero(v, Highest)}

\* Every observation of the sum is in its classic bucket, and in its sparse bucket
\* or in the zero bucket, the latter none beyond the maximum of the zero threshold.
Filed(hc) ==
    /\ \A b \in 1..NumBuckets : hc.classic[b] = InBucket(hc, b)
    /\ Native =>
        /\ hc.zero + InSparse(hc) = Total(hc.sum, Sparsed)
        /\ \A k \in DOMAIN hc.sparse \cup {SparseKey(v, hc.lvl) : v \in Sparsed} :
               /\ SparseAt(hc, k) <= Total(hc.sum, Here(k, hc.lvl))
               /\ SparseAt(hc, k) >= Total(hc.sum, Far(k, hc.lvl))

\* The goroutine in mtx has waited for the cold counts.
HasCooled == \E p \in Procs : pc[p] = "merge"

\* waitForCooldown is enough: the counts that have cooled are those of the
\* observations begun before the swap, all of each and nothing of a later one, in
\* the buckets of the schema and threshold in force, however the resets, the
\* wider zero buckets and the doublings before it went.
CoolIsWhole ==
    HasCooled => /\ counts[cold].count = Total(counts[cold].sum, Values)
                 /\ Filed(counts[cold])
                 /\ \A o \in Observers :
                        pc[o] \in {"classic", "look", "place", "number", "count"} => side[o] = hot

\* No observation is lost or counted twice: hot and cold counts together with the
\* observations on their way are those begun since the last reset.
UnderWay(v) == Cardinality({o \in Observers : pc[o] = "classic" /\ val[o] = v})
NoneLost ==
    (plan = "reset" /\ mtx # None) \/
        \A v \in Values : made[v] = counts[0].sum[v] + counts[1].sum[v] + UnderWay(v)

\* With the mutex free and no observation under way, the number of buckets that
\* decides about the limit is the number of buckets, and the cold counts are
\* empty and in the same resolution; and at all times every variable has its type and
\* no observation is lost.
AtRest == mtx = None /\ \A o \in Observers : pc[o] \in {"rest", "limit", "lock"}
RestIsExact ==
    /\ TypeOK
    /\ NoneLost
    /\ AtRest =>
              /\ \A c \in 0..1 : counts[c].num = Cardinality(DOMAIN counts[c].sparse)
              /\ counts[cold].thr = counts[hot].thr /\ counts[cold].lvl = counts[hot].lvl
              /\ counts[cold].count = 0 /\ counts[hot].count = begun
              /\ \A k \in DOMAIN counts[cold].sparse : counts[cold].sparse[k] = 0

\* Between two scrapes with the same created timestamp no count goes down, so that
\* a scraper recognizes a reset.
ResetShows ==
    [][reported'.created = reported.created =>
           \A v \in Values : reported'.sum[v] >= reported.sum[v]]_vars

\* waitForCooldown returns, although new observations begin meanwhile.
CooldownEnds == (\E p \in Procs : pc[p] = "cool") ~> (\A p \in Procs : pc[p] # "cool")

\* "To undo what they will do as soon as enough time has passed ..., schedule a
\* reset at the right time" (limitBuckets): the resolution comes back.
ResolutionRestored ==
    Resets => (counts[hot].lvl > 0 \/ counts[hot].thr # ZeroThreshold
                   ~> counts[hot].lvl = 0 /\ counts[hot].thr = ZeroThreshold)

\* "nativeHistogramZeroBucket counts all (positive and negative) observations in
\* the zero bucket (with an absolute value less or equal the current threshold"
ZeroBucketWhole ==
    HasCooled => \A k \in DOMAIN counts[cold].sparse :
        Le(k.key, counts[cold].lvl) <= counts[cold].thr => counts[cold].sparse[k] = 0

\* What Write reports, with what was forgotten in resets, are all observations
\* begun before its swap, and none begun later, see AtomicCut.
AtomicCut == INSTANCE AtomicCut WITH
                 Instances <- Values, made <- Both(forgotten, made),
                 reported <- Both(reported.forgotten, reported.sum),
                 open <- pc[Scraper] = "cool"

ImplementsAtomicCut == AtomicCut!Spec

-----------------------------------------------------------------------------
(* The inductive invariant behind RestIsExact, ResetShows and the refinement *)

Labels == {"rest", "classic", "look", "place", "number", "count", "limit", "lock",
           "swap", "cool", "merge", "sparse"}
Observing == {"classic", "look", "place", "number", "count"}
Holding == {"swap", "cool", "merge", "sparse"}
Bags == [Values -> Nat]

\* The sparse buckets of one histogramCounts: finitely many, of either sign.
SparseKeys == [neg : BOOLEAN, key : Int]
Buckets == {b \in UNION {[K -> Nat] : K \in SUBSET SparseKeys} : IsFiniteSet(DOMAIN b)}
Counts == [count : Nat, sum : Bags, classic : [1..NumBuckets -> Nat], zero : Nat, thr : Int,
           lvl : 0..MaxLevel, num : Nat, sparse : Buckets]

Types ==
    /\ hot \in 0..1 /\ begun \in Nat /\ counts \in [0..1 -> Counts]
    /\ mtx \in Procs \cup {None} /\ scheduled \in BOOLEAN /\ elapsed \in BOOLEAN
    /\ created \in Nat /\ plan \in {"write", "widen", "double", "reset"} /\ awaited \in Nat
    /\ smallest \in Int /\ pc \in [Procs -> Labels]
    /\ val \in [Observers -> Values] /\ side \in [Observers -> 0..1]
    /\ seen \in [Observers -> [lvl : 0..MaxLevel, thr : Int]]
    /\ made \in Bags /\ forgotten \in Bags /\ snap \in Bags
    /\ reported \in [sum : Bags, created : Nat, forgotten : Bags]

\* Who is in mtx, and what for.
phase == IF mtx = None THEN "rest" ELSE pc[mtx]
MutexInv ==
    /\ \A p \in Procs : pc[p] \in Holding <=> mtx = p
    /\ \A p \in {Scraper, Timer} : pc[p] \in Holding \cup {"rest"}
    /\ mtx # None => (plan = "write" <=> mtx = Scraper) /\ (mtx = Timer => plan = "reset")
    /\ phase \in {"merge", "sparse"} => plan # "reset"

\* The observations begun on one side: those complete, and those under way.
InFlight(c) == {o \in Observers : pc[o] \in Observing /\ side[o] = c}
Coming(c, v) == {o \in Observers : pc[o] = "classic" /\ side[o] = c /\ val[o] = v}
Begun(c) == counts[c].count + Cardinality(InFlight(c))
BegunOf(c, v) == counts[c].sum[v] + Cardinality(Coming(c, v))

\* While the counts that turned cold cool down, and until they are merged, the
\* observations are on both sides; with a reset those on the cold side are forgotten.
OnBothSides == phase \in {"cool", "merge"} /\ plan # "reset"
HotInv(c) == Begun(c) = IF OnBothSides THEN begun - awaited ELSE begun
HotSumInv(c, v) == IF OnBothSides THEN BegunOf(c, v) + BegunOf(1 - c, v) = made[v]
                                  ELSE BegunOf(c, v) = made[v]

\* The cold side is empty, but for the observation that a reset is to repeat; nobody
\* observes there, but for those who began before the swap.
ColdInv(c) ==
    /\ phase # "cool" => InFlight(c) = {}
    /\ phase \in {"cool", "merge"} => Begun(c) = awaited
    /\ phase \in {"rest", "sparse"} \/ (phase = "swap" /\ plan # "reset") =>
           counts[c].count = 0 /\ counts[c].sum = NoValues
    /\ phase = "swap" /\ plan = "reset" =>
           counts[c].count = (IF mtx = Timer THEN 0 ELSE 1) /\ counts[c].sum = Repeated(mtx)

CountInv ==
    \A c \in 0..1 : IF c = hot THEN HotInv(c) /\ \A v \in Values : HotSumInv(c, v) ELSE ColdInv(c)

\* The number of buckets, but for those just created.
Numbering(c) == {o \in Observers : pc[o] = "number" /\ side[o] = c}
NumberInv(c) == counts[c].num + Cardinality(Numbering(c)) = Cardinality(DOMAIN counts[c].sparse)

\* Where the resolution of hot and cold counts may differ, and what is left in the cold
\* sparse buckets.
ResolutionInv(h, c) ==
    /\ phase = "rest" \/ plan \in {"write", "double"} \/ (phase = "sparse" /\ plan = "widen") =>
           counts[c].thr = counts[h].thr
    /\ phase = "rest" \/ plan \in {"write", "widen"} \/ (phase = "sparse" /\ plan = "double") =>
           counts[c].lvl = counts[h].lvl
    /\ plan = "reset" /\ phase = "swap" => counts[c].thr = ZeroThreshold /\ counts[c].lvl = 0
    /\ plan = "reset" /\ phase = "cool" => counts[h].thr = ZeroThreshold /\ counts[h].lvl = 0
LeftInv(c) ==
    /\ left \subseteq DOMAIN counts[c].sparse
    /\ phase # "sparse" => left = {}
    /\ phase = "rest" \/ (phase = "swap" /\ plan # "reset") \/ (phase = "sparse" /\ plan # "double") =>
           \A k \in DOMAIN counts[c].sparse \ left : counts[c].sparse[k] = 0
SparseInv ==
    /\ \A c \in 0..1 : NumberInv(c)
    /\ \A c \in 0..1 : c # hot => LeftInv(c) /\ ResolutionInv(1 - c, c)

\* What Write has reported, and is about to report.
ReportInv(c, v) ==
    /\ pc[Scraper] = "cool" => snap[v] = forgotten[v] + BegunOf(c, v)
    /\ reported.created = created =>
        /\ phase \notin {"cool", "merge"} => reported.sum[v] <= made[v]
        /\ OnBothSides => reported.sum[v] <= BegunOf(c, v)
ReportsInv ==
    /\ reported.created <= created
    /\ \A c \in 0..1 : c # hot => \A v \in Values : ReportInv(c, v)

HistInv == Types /\ MutexInv /\ CountInv /\ SparseInv /\ ReportsInv

-----------------------------------------------------------------------------
(* The invariant behind CoolIsWhole, inductive together with HistInv *)

\* The observations in the sum of one side that no sparse bucket and no zero bucket
\* counts yet, by a set of their values; and those past the sum that count not yet.
Unfiled(c) == [S \in SUBSET Values |->
    Cardinality({o \in Observers : pc[o] \in {"look", "place"} /\ side[o] = c /\ val[o] \in S})]
Summed(c) == {o \in InFlight(c) : pc[o] # "classic"}

\* Where the merge puts a cold sparse bucket, and what of the buckets left it owes to
\* one hot sparse bucket, and to all and the zero bucket.
Destination(k) == IF plan = "double" THEN [k EXCEPT !.key = Halve(@)] ELSE k
Vanishes(k) == plan = "widen" /\ k.key = smallest
Owing(k) == {j \in left : Destination(j) = k /\ ~Vanishes(j)}
Owed == [k \in SparseKeys |-> Total(counts[cold].sparse, Owing(k))]
Due == Total(counts[cold].sparse, left)
NothingOwed == [k \in SparseKeys |-> 0]

\* Filed, of the counts of one side that are not complete yet.
Files(hc, unfiled, owed, due) ==
    /\ \A b \in 1..NumBuckets : hc.classic[b] = InBucket(hc, b)
    /\ Native =>
        /\ hc.zero + InSparse(hc) + due + unfiled[Sparsed] = Total(hc.sum, Sparsed)
        /\ \A k \in SparseKeys :
            /\ SparseAt(hc, k) + owed[k] + unfiled[Here(k, hc.lvl)] <= Total(hc.sum, Here(k, hc.lvl))
            /\ SparseAt(hc, k) + owed[k] + unfiled[Far(k, hc.lvl)] >= Total(hc.sum, Far(k, hc.lvl))
Unused(hc) == hc.zero = 0 /\ \A b \in 1..NumBuckets : hc.classic[b] = 0

\* An observer on its way to a sparse bucket, and to the reset that repeats its
\* observation, has a value for it and the schema of its side.
SeenInv ==
    \A o \in Observers :
        /\ pc[o] \in {"look", "place", "limit", "lock"} => DoSparse(val[o])
        /\ pc[o] = "place" => seen[o].lvl = counts[side[o]].lvl /\ seen[o].thr <= Highest

\* How far a new strategy may go, and what it changes.
PlanInv(h, c) ==
    /\ counts[h].thr <= Highest /\ counts[c].thr <= Highest
    /\ plan = "widen" /\ phase # "rest" => Le(smallest, counts[h].lvl) <= MaxThreshold
    /\ plan = "double" /\ phase = "swap" => counts[c].lvl = counts[h].lvl + 1
    /\ plan = "double" /\ phase \in {"cool", "merge"} => counts[h].lvl = counts[c].lvl + 1

SideInv(c) ==
    /\ counts[c].count + Cardinality(Summed(c)) = Total(counts[c].sum, Values)
    /\ IF c = hot THEN Files(counts[c], Unfiled(c), Owed, Due)
       ELSE IF phase \in {"cool", "merge"} \/ (phase = "swap" /\ plan = "reset")
              THEN Files(counts[c], Unfiled(c), NothingOwed, 0)
              ELSE Unused(counts[c])

FilingInv == /\ SeenInv
             /\ \A c \in 0..1 : SideInv(c) /\ (c # hot => PlanInv(1 - c, c))

=============================================================================
