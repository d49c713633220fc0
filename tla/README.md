# A TLA+ development for client_golang with change tracking and delta exposition

This directory models the concurrent and stateful core of the repository, checks
it with TLC on small instances and proves the central results with TLAPS. The
repository is a fork of the Prometheus Go client library. Next to the classic
registry and exposition it tracks which metric instances were written since the
last scrape (`prometheus/changetracking.go`) and exposes only those, as increments
if so configured (`prometheus/promhttp/delta`).

## 1. Inventory

| Component | Source | State | Operations | Interacts with |
|---|---|---|---|---|
| Change tracker | `prometheus/changetracking.go` | per instance: `since` by parity of the cut, `atCut`, `epoch`, deletion flag; per shard: `epoch`, `dirty`, `inflight`, mutex; the cut and its RWMutex | `count`, `mark`, `add`, `Atomically`, `Cut`, `fold`, `Take`, `MarkChanged`, `RangeBucket`, `DeleteTracked*`, `ReviveTracked`, `AddTracked*` | every metric write calls it; one exposer consumes it |
| Counter, gauge | `counter.go`, `gauge.go` | two atomic words and an exemplar; one atomic word | `Add`, `AddWithExemplar`, `Inc`, `Set`, `Sub`, `Write` | the tracker, after every write |
| Histogram | `histogram.go` | two sets of counts, hot and cold, a count of observations begun, a mutex; tables of exemplars | `observe`, `ObserveWithExemplar`, `Write`, `limitBuckets`, `reset` | the tracker |
| Summary | `summary.go` | hot and cold buffers, a ring of streams; or hot and cold counts | `Observe`, `Write`, `asyncFlush` | the tracker |
| Metric vectors | `vec.go`, `labels.go` | a map from hash to instances with label values, a mutex; the curried values | lookups that create, deletions, `CurryWith`, `Reset` | `trackMetric`, `untrackMetric` |
| Descriptors and wrapping | `desc.go`, `value.go`, `labelpaircache.go`, `wrap.go` | label pairs shared through a cache of atomic slots | `NewDesc`, `MakeLabelPairs`, `wrapDesc`, `wrappingMetric.Write` | vectors, registry |
| Registry | `registry.go` | collectors by ID, descriptor IDs, dimension hashes | `Register`, `Unregister`, `Gather` | every collector |
| Merged gatherers | `registry.go`, `internal/metric.go` | what was gathered so far | `Gatherers.Gather`, `MultiTRegistry.Gather`, `GatherFiltered` | registries, the handler |
| Tracked exposer | `promhttp/delta/tracked.go`, `tracked_emit.go`, `ack.go` | round, held round, an entry per instance, the gauges list | `Serve`, `pick`, `settleDeleted`, `drop`, `settle` | tracker, Vecs, the scraper over HTTP |
| Gather-path exposer | `promhttp/delta/delta.go`, `gen.go`, `default.go` | entries by series, generations | `Serve`, `plan`, `decide`, `sweep` | registry, Vecs, the scraper |
| Encoding | `promhttp/delta/encode.go`, `compress.go` | pools | formatting and compression | the exposers |
| HTTP handler | `promhttp/http.go` | in-flight semaphore, the gather in progress and who shares it | `ServeHTTP` | registry, delta endpoint, `net/http` |
| HTTP instrumentation | `promhttp/instrument_*.go`, `delegator.go`, `option.go` | status, bytes, whether a header was seen | middlewares of servers and of clients | vectors, `net/http` |
| Remote write | `exp/api/remote` | a pool of buffers, retry state | `API.Write`, the receiving handler | network |
| Pusher, Graphite bridge, API client | `push/`, `graphite/`, `api/` | first error and grouping; ticker; the goroutine that reads | requests and pushes | network |
| Diff | `internal/difflib.go` | cached blocks and operations | `SetSeqs`, `GetOpCodes`, `GetGroupedOpCodes`, `WriteUnifiedDiff` | `testutil` |
| Collectors | `go_collector*.go`, `process_collector*.go`, `collectors/` | samples | `Collect` | runtime, operating system |

What is hard in this code, and therefore what the models are about:

* the write path is lock-free and races with the scrape at every atomic operation;
* a scrape is destructive: it empties the dirty lists and moves the cut on, and
  everything has to come back if the response is not delivered, or not processed;
* instances are deleted from their Vec, by idle cleanup and by users, while
  goroutines still hold and write them;
* a round is held until the scraper acknowledges it, over a connection that loses
  responses, with scrapers that restart and requests that only peek;
* a gather is shared by requests that time out, panic or come late, and what it
  returned is in use after some of them have been answered;
* requests and answers are lost between the senders and their servers, and buffers
  go back to a pool in between;
* label values pass through currying, constraints, hashes that collide and slices
  that several metrics share.

The hazards, each at its line, are in `PROJECT.json`; the properties below are
there to catch them.

## 2. Modules

| Module | Models | 
|---|---|
| `ChangeTracker` | the tracker with its writers and its consumer, one action per atomic operation |
| `AtomicCut` | what `Cut` and `Take` promise: all counters read in one step |
| `ChangeTrackerProofs` | the theorems about `ChangeTracker`: what is counted and listed; in which order writes are reported |
| `TrackedExposer` | the tracked exposer for one label set, its Vec, the goroutines that write, the users that delete, the scraper |
| `TrackedExposerProofs` | the theorems about `TrackedExposer` |
| `SumTheorems` | sums of functions over finite sets, which they rest on |
| `GatherExposer` | the Gather-path exposer for one series, its application, the scraper and the aggregator behind it |
| `GatherExposerProofs` | the theorems about `GatherExposer` |
| `Histogram` | observations, `Write`, bucket limitation and resets of one histogram; implements `AtomicCut` too |
| `HistogramProofs` | the theorems about `Histogram` |
| `HistogramOutput` | exemplars, refilled dtos and spans |
| `Summary` | summaries with and without objectives |
| `ValueCells` | the atomic words of counters and gauges |
| `MetricVec` | a metric vector with its hash buckets and its place in change tracking |
| `CurriedVec` | label values on their way into a vector |
| `Descriptors` | descriptors, label pairs and their cache, wrapping |
| `Registry` | registration and `gather`; composed with `MetricVec`, which is one of the collectors |
| `RegistryProofs` | the theorems about `MetricVec` and `Registry` |
| `MergedGather` | several gatherers as one |
| `MetricHandler` | the exposition handler as `Handler` assembles it, with the delta endpoint |
| `HandlerProofs` | the theorems about `MetricHandler` and `Instrumentation` |
| `Instrumentation` | the middlewares and their delegators |
| `RemoteWrite` | senders, network and receiver of remote write |
| `Pusher`, `GraphiteBridge`, `ApiClient` | the other clients |
| `ServicesProofs` | the theorems about `Pusher`, `RemoteWrite`, `Summary`, `ValueCells`, `ApiClient` and `GraphiteBridge` |
| `Difflib` | the matcher and the unified diff |
| `MCChangeTracker`, `MCTrackedExposer`, `MCGatherExposer`, `MCHistogram`, `MCRegistry` | instances for TLC |
| `MCServices` | instances of all modules that share no state with the others, one to a behaviour |

### ChangeTracker

A variable per field (`value`, `since`, `atCut`, `dEpoch` per instance; `sEpoch`,
`dirty`, `mu`, `inflight` per shard; `cut`, and `readers` and `cutWaits` for the
RWMutex) and a program counter per goroutine. `counter.Inc` and `dirtyState.count`
are the actions `Add`, `LoadCut`, `Enter`, `Recheck`, `BackOut`, `Count`, then
`MarkLoad`, `MarkCompare`, `AddLock`, `AddAppend` of `mark` and `add`, and `Leave`.
A request is a sequence of such writes, inside `Atomically` for the writers in
`Grouped`. The consumer is `BeginCut`, `MoveCut`, `Drain` of `Cut`; `TakeShard`,
`FoldSwap`, `FoldCheck`, `TakeNext` of `Take` and `fold`; and, as
`TrackedExposer.Serve` does, `Deliver`, or `Undelivered` with `MarkChanged` of
everything taken. `made`, `snap` and `reported` are history: writes by the moment
their side of the cut is decided, what they were when the cut moved, and what the
last `Take` reported.

Left out: the sizing of slices (`spare`, `batchPeak`, `allPeak`, `shrunk`) and float
arithmetic (an increment is 1). Two hazards are outside of the model: the shard's
epoch is a `uint32`, so that after 2^32 scrapes an instance listed exactly that long
ago looks listed (`changetracking.go:545`), which no bounded counter shows; and
`Take` before the first `Cut` folds nothing (`changetracking.go:549`), which only
tests do, so it is not an action.

### TrackedExposer

One label set of one Vec, because instances of different label sets share nothing
but the shard's list: `child` is what the Vec has under the label set, `created`
and `dead` the instances there have been. The tracker is taken at the granularity
`AtomicCut` justifies: a counter write is decided when it is made; `Cut` waits
until the writes made are listed; being listed stands for equal epochs
(`EpochMeansListed`). A goroutine is `Lookup`, `Write`, `Mark`, `Release`; it may
write any number of times to an instance deleted meanwhile. `Serve` is split where
another goroutine can come between: `Serve` (settling the held round, the final
request, the idle walk), `Cut`, `Take`, `HandOut`, `PickChecks`, `PickEntry`,
`Revive` and `Move` (`settleDeleted`), `Walk`, `Emit` (`emitFamily` with `decide`),
`Respond`, `DropChecks`, `DropDeletes`, `Callback`, `CallbackDone`, `DropDone`. The
scraper, which is not in the repository, is modelled from the protocol that `ack.go`
documents and `settle` relies on: it processes a response, sees only its header or
loses it, acknowledges the last round it processed, and restarts. `ReportIncrements`
is on. Options and bounds are a configuration, chosen at the start from `Setups`.
Gauges, `Scope` and `Only` are not in this module.

### GatherExposer

One series. The application writes (`Write`), deletes the child (`AppDelete`) and
replaces the registry (`Replace`); the clock is `Tick`. `Serve` settles the held round
(`Settle`) and numbers the new one, `Gather` is the gathering with `plan` - `Decide`,
`Rebase` after a gap, `Same` for what is unchanged -, `Sweep` deletes what is idle,
`DeleteFromVec` with `DeleteCollectedIf` or `DeleteByCallback` with `Options.Delete`,
and `Respond` delivers or aborts, with `Commit` of what was planned. `Consume` is the
scraper that processes what was delivered. An entry is `Nil` or a record of the
fields of `entry` in `delta.go`; a value is its count, sum and first bucket, as far
as the type has them. `got`, `lost`, `written` are history; so is `mistaken`, which is set
when a histogram that came in place of another is taken for it, because `entry` compares
count and sum only (section 5). Counters, histograms, gauges and summaries are setups of
their own.

### Histogram and HistogramOutput

`hot` and `begun` are the two parts of `countAndHotIdx`, `counts[0..1]` the two
`histogramCounts` as records, `mtx` the holder of the mutex; `scheduled`, `elapsed`
and `created` stand for the scheduled reset, the clock and `lastResetTime`. An
observation is `Begin`, `Classic`, `Look`, `Place`, `Number`, `Count`, then
`limitBuckets`: `LimitCheck`, `LimitKept` and, by strategy, `LimitReset`,
`LimitWiden`, `LimitDouble`, `LimitLowest`. The timer's `reset` and `Write` are
`TimerReset` and `WriteLock`. All of them go on with `Swap`, `Cool` (or `CoolReset`),
`Merge`, `MergeSparse` per sparse bucket, `MergeDone`, holding the mutex; `plan` says
which, `awaited` what `waitForCooldown` waits for, `smallest` the key whose buckets
go to the zero bucket, `left` what `Range` has still to visit. Keys and thresholds
are in units of the initial schema, and a sum of floats is the bag of its summands,
so that a lost and a doubled observation cannot cancel out. `made`, `forgotten`,
`snap` and `reported` are history.

`HistogramOutput` has the rest of what `Write` writes. Observers race for the table of
exemplars (`LoadSlots`, `SwapSlots`, `StoreExemplar`); `AddNative` is `addExemplar` of
the native exemplars, whose place is found by the distance of logarithms, a constant
of the model (`LogOf`); `WriteHistogram` fills a dto, new or `Refilled`; `MakeConst` is
`NewConstNativeHistogram` with `makeBucketsFromMap`. An observation is one step there.

### Summary

With objectives: `AppendToBuf`, `SwapBufs`, `AsyncFlush` which takes `mtx` and gives it to
the goroutine whose step is `Flush`, `Rotated` for `maybeRotateStreams`, and `Write` in
three steps. An observation looks at the clock once, at its beginning, and its `AsyncFlush`
swaps the buffers at that time, however much later it gets there. A stream is the set of
observations inserted since its last reset, which is all that its quantiles depend on. Without objectives: `ObserveFree`, `AddSum`,
`AddCount`, and a `Write` of `WriteFree`, `Cool`, `MergeCount`, `MergeSum`.

### ValueCells, MetricVec, CurriedVec and Descriptors

`ValueCells` has the loops around compare-and-swap as `LoadCounter`, `SwapCounter`,
`LoadGauge`, `SwapGauge`, integers as `AddInteger`, and a `Write` that reads three words
one at a time in `ReadOrder`. Values are in quarters, so that some are integers and some
are not; rounding is left out.

`MetricVec` has an action per critical section of `vec.go`: `Get` is a lookup that
misses with the read lock, `Create` its second half with the write lock; `Delete`,
`DeleteMetric`, `DeletePartialMatch`, `Reset` and `Revive` (`ReviveTracked`) take the
write lock, which waits for those who read; `CollectLock` and `CollectUnlock` are
the ends of `Collect`. `Hash` is any function: two label sets may share a bucket. A
partial match is the set of label sets it matches.

`CurriedVec` has what `MetricVec` takes as given: how a call's values, in order or by
name, become the values of all labels, on vectors curried again and again. A call is
one step; `views` are the curried vectors, functions from positions to values, and
`vecCall` what was called and answered last. `Meant` in its property says what a call
stands for without positions, by label names only.

`Descriptors` models slices as arrays with a length, because that is where label pairs
could be shared by mistake: `Make`, `Load`, `Build`, `Store` are `MakeLabelPairs` with the
cache, `WriteOwn` and `WriteWrapped` the writing of a metric and of a wrapped one.

### Registry and MergedGather

`Registry` registers atomically, as the code holds the write lock throughout, and
unregisters in two steps, `UnregisterCheck` and `UnregisterDelete`, as the code
changes locks in between. `gather` is `GatherNothing` or `GatherBegin`; then the
workers `Take` a collector, `Send` its metrics into a channel of bounded capacity,
may `Panic`, are `Done` or return; `Close` follows the wait group; the gathering
goroutine does `Receive` (with `ProcessMetric`, all of `processMetric` and the checks
it calls), `StartWorker`, `NilOut`. The Vec is one of the collectors: its Collect
holds the read lock while it blocks on a full channel. The return of `Collect` and
`wg.Done` are one step, and a pending writer of the RWMutex does not hold up readers:
two goroutines never Collect the same Vec in one gathering. Hash collisions between
descriptors or collector IDs are left out: an ID is what it is the hash of.

`MergedGather` asks one gatherer after the other (`GatherNext`), folds its families into
`byName` with `AddFamily` and `AddMetric`, as `Gatherers.Gather` does with
`checkSuffixCollisions` and `checkMetricConsistency`, or puts them side by side as
`MultiTRegistry` does, whose `done` is `CallDone`.

### MetricHandler and Instrumentation

A request is two goroutines if there is a timeout: `outer` is where the one of
`http.TimeoutHandler` is, `pc` where the handler is, which goes on after `TimedOut`.
`Acquire` takes a slot or refuses; `Join` or `Lead` enters a cycle of the coalescing
gatherer; `Collected` and `CollectPanics` end the gather, `Joined` gets the result of
another's; then `Gathered`, `Encode` per family, `EncodeFails`, `Encoded`, `Release` and
`Done` of the families, `FreeSlot`, and `Returned` or `Panicked` for the counters around
it. `EnableDelta`, `DisableDelta` and `ServeIfRequested` are the delta endpoint in front.

`Instrumentation` serves one request through one middleware of each kind, so that a
call on the innermost delegator passes all of them to `net/http`'s writer, which is
modelled from what it documents; and sends one request through the client's round
trippers.

### RemoteWrite, Pusher, GraphiteBridge, ApiClient

`RemoteWrite`: `Marshal`, `Compress`, `Attempt`, `Receive`, `BackedOff` are the caller's;
requests and answers are messages in `net`, which the network may drop before or after
`ServeHTTP` stored the write; `Cancel` is the caller's context. A buffer of the pool is
its contents and how many messages its length covers. `Pusher`: the gateway keeps what
was pushed under a path (`FullURL`). `GraphiteBridge`: `Run` selects between ticker and
context; a push dials, writes line after line, each of which may fail or stall. `PushPanics`
is the end of `Run` with an error handling that `Push` does not know.
`ApiClient`: `Do` reads the body in a goroutine of its own and selects between that and
the context; the endpoints are records of what they send and decode.

### Difflib

Pure functions (`FindLongestMatch`, `MatchingBlocks`, `OpCodes`, `Groups`, `Hunk`) and the
state around them, the two sequences and what is cached of them.

## 3. Runs

| Run | Instance | Checks |
|---|---|---|
| `tracker_race` | two writers adding to counters a then b, one request each, two shards, two scrapes | `NoLostWrite`, `CutIsOneMoment`, `CausalPrefix`, `ImplementsAtomicCut` |
| `tracker_live` | one writer of both counters inside `Atomically`, one of b outside | `WholeGroups`, `CallsReturn`, `WriteReported` |
| `exposer_rounds` | two goroutines, two instances, two writes; four rounds of all kinds of request, idle after one scrape; and three rounds with heartbeats, a callback that deletes or not and one deletion by a user, of a counter and of a histogram | `Conserved`, `NothingStranded`, `Bookkeeping`, `IncrementsOnly`, `BaselineForward` |
| `gather_plan` | eight setups: increments acknowledged and not, heartbeats, gathers that fail, all ways of deleting, cumulative values with generations, gauges, summaries; six rounds | `NeverTwice`, `Conserved`, `NoWrap`, `SafeDelete` |
| `histogram_limits` | two observers, three observations of five values (both signs, three magnitudes, NaN), limit of one bucket, two scrapes, resets | `CoolIsWhole`, `RestIsExact`, `ResetShows`, `ImplementsAtomicCut` |
| `histogram_live` | two observers, three observations, one scrape, resets, one doubling at most | `CooldownEnds`, `ResolutionRestored` |
| `registry_gather` | a Vec with two colliding label sets, a collector with two names, one that shares a descriptor with it, an unchecked one that panics; one goroutine that unregisters; two workers, channels of one metric; four changes by users of the Vec and the registry; one gathering, filtered or not, pedantic | `OneInstance`, `TrackedIsInVec`, `UniqueDescs`, `SelfConsistent`, `Accounted`, `NeverStuck` |
| `services` | thirteen components, see below | twelve properties, see below |
| `exposer_peek`, `exposer_turns`, `histogram_zero`, `registry_unregister` | see section 5 | one property each, violated |

`services` runs one component to a behaviour; the variable `which` says which. The
components share no state, so their state spaces add up and do not multiply.

| Property | Component and instance | What it says |
|---|---|---|
| `NothingLeft` | handler: three requests that share gathers, or two with a timeout, a limit of one, panics, encoding errors, a hanging collector | no slot, cycle or gather is left behind; families are held while they are written; the metrics say what clients were told |
| `ScrapesHonest` | the same, and three gatherers with families that differ, collide and overlap (`Honest`, `MergeSound`) | who is told 200 got what one gather returned; merged families are consistent, the first to come wins, and what is left out contradicts something and is reported |
| `ReportedAsSent` | middlewares: seven vectors of labels, three methods, three statuses, writers with no interface, with those of HTTP/1 and with all | every middleware reports the status and bytes that went out |
| `WritesAccounted` | remote write: one or two concurrent calls, two retries, lost requests and answers, cancelled callers, refusals | each attempt sends its own message; what is reported was stored, and stored no more often than sent |
| `PushIsKept` | pusher: two collectors, one gatherer, three grouping labels, four calls | what a successful call reports is what the gateway has |
| `ClientsHonest` | bridge: two samples, with and without tags, failures at every point; API client: six endpoints, nine statuses (`BridgeKeeps`, `ApiHonest`) | the server has what was reported, in order; an answer is not mistaken for another's |
| `DescriptorsHold` | descriptors: thirteen descriptors, two goroutines, wrapped up to twice; curried vectors: three labels, one constraint, two metrics, three views (`LabelsIntact`, `DescIdentity`, `CurriedIsSame`) | shared label pairs never change; a call on any vector means the one metric with these labels |
| `DiffTransforms` | diff: all pairs of up to three lines of two kinds, three longer ones, junk | operations and hunks turn one sequence into the other; the longest match is the longest |
| `WriteExact`, `Window` | summary: two observers, one writer, three observations, two age buckets of one unit of time, time to 4 | what had returned is in, the sum is of what is counted, quantiles are of one age window |
| `MetricsWritten` | histogram output: eleven setups; a counter and a gauge with two goroutines, a reader of two rounds (`HistogramWrites`, `CellsExact`) | exemplars, refilled dtos and spans say what is held; no add is lost, values never go back, no exemplar before its value |
| `AllReturn` | handler, remote write, bridge, API client, summary, counter and gauge | whoever calls gets an answer; said of two callers, as the third is like the first |

Why these bounds are enough for the interesting cases. In the tracker a shard's
state depends on the parity of the cut, and two scrapes with two shards reach every
combination of a write that straddles a cut, a cut that has drained one shard and
not the other, and an epoch moved between the two loads of `mark`; the proofs below
remove the bounds. In the exposer an instance is written, reported, idle and
dropped by the third round, so four rounds let a write to the dropped instance be
settled, against an empty Vec or against the second instance. On the Gather path a
gap, a rebase, a delivery and an idle round fit into six rounds.

Three observations with a limit of one bucket reach every strategy, one after the
other and with the third observation between any two steps of them. In the registry
four changes are enough to register three collectors and change one while the
gathering runs, or to have two children of the Vec in one bucket, or a deleted child
revived, while the Vec is collected; two workers with three collectors mean that a
worker takes a second one.

In the handler two requests share a gather that one of them leads; the third joins
after the result is there and while the first still writes it, or after it was let go.
Remote write needs two calls to take a buffer from each other and two attempts for a
retry of what was stored. A summary needs two age buckets for one to be reset while the
other has what is in the window. Its time runs to twice `MaxAge`: observations
leave the window, the same stream is reset again, and a flush that is two buckets late is
followed by one more rotation, which is when a stream it had forgotten to reset would become
the head (the mutant `Rotated_Once`; a summary that resets none fails too). A native exemplar set needs three places for an inner one to
be replaced. Three labels are the fewest where one curried label lies between two others.

Deadlock is checked in every run but `gather_plan` and `services`, where a component
ends when its bounds are reached. Elsewhere `Terminating` lets a behaviour end where the
bounds are reached and nothing is in progress. In `Histogram` with resets time can
always pass, so that a goroutine that is stuck shows in the liveness properties
instead. `NeverStuck` says that as long as a gathering has not returned one of its own
goroutines can move; each of their steps consumes a collector, a metric, a worker or a
channel, so the gathering ends.

Fairness, used in `tracker_live`, `histogram_live` and `services` only: weak fairness of
each goroutine's steps once it has begun. A goroutine that can run is run by the Go
scheduler (a spinning `Cut` or `waitForCooldown` calls `runtime.Gosched`). In the tracker
also of starting a scrape, because scrapes are periodic. Strong fairness of getting the
histogram's mutex, because `sync.Mutex` hands itself to a waiter that starves; weak
fairness of the clock. In `services` the fairness is of `GoesOn`: the handler's goroutines,
except a gather that hangs where the setup lets it; the timer of a timeout; a caller of
remote write and its backoff, and the network, which answers or loses an attempt; a
bridge's `Run`, unless its server has stopped reading; the API client's caller and its
reading goroutine; the summary's goroutines and its flush; and the loops of a counter and
a gauge, where a swap fails only because another succeeded. Nothing is assumed about
requests, calls or observations beginning or responses being delivered.

## 4. Proofs

`ChangeTrackerProofs` proves, for every finite set of writers, every set of
counters, every number of shards, requests and scrapes:

* `Invariance`: `Spec => []IndInv`;
* `TypeCorrect`, `EpochsTellListed`, `NoWriteLost`, `CutConsistent`: the
  invariants `TypeOK`, `EpochMeansListed`, `NoLostWrite`, `CutIsOneMoment`;
* `Refinement`: `Spec => ImplementsAtomicCut`.

Assumptions: those of `ChangeTracker`, i.e. finitely many writers, one consumer that
is not a writer, at least one counter and shard, and requests that name a counter
once each.

The invariant. None of the properties is inductive. `CutIsOneMoment` needs to know
where every write is: `CountsInv` says that a decided write is in exactly one of a
writer's hands (`Counting`), a side of `since`, and `atCut`. That needs the sides to
be kept apart: `SidesInv` says a decided write is on the current side, or on the old
one while `Cut` has still to drain its shard, and that `inflight` is the number of
writers registered, which is what makes `Drain` mean that they are gone. To know that
`Take` finds what it must fold, `EnlistedInv` says that what is on a side is listed,
about to be listed by a writer of that side, or in the consumer's hands; that rests
on `ListsInv`, where the epochs, the list and the mutex agree. `DeliveryInv` carries
`NoLostWrite` through a scrape. The proof is one lemma per action; cardinalities of
the registered and the counting writers change by lemmas on adding or removing one.

and about the order of writes:

* `CausallyOrdered` and `GroupsWhole`: the invariants `CausalPrefix` and `WholeGroups`.

Both compare counts of different counters, about which `IndInv` says nothing. `OrderInv`
takes a count for what it is, the cardinality of the set of requests whose write of the
counter is decided (`DecidedWrites`): a request that writes i before j is in the second
set only if it is in the first, so the sets of requests that write both are ordered by
inclusion, and counts differ by at most the requests that write one of the two. The order
is kept at the moment the cut moves (`snap`) and through `Take` (`reported`); the groups
are whole in `snap` because `Cut` takes the lock that `Atomically` holds.

`RegistryProofs` proves, for every set of goroutines, label sets, hashes, collectors and
descriptors, any number of workers and any capacity of the channels:

* `VecInvariance`: a vector by itself keeps `VecInv`, the conjunction of its type,
  `OneInstance` and `TrackedIsInVec`, which is inductive: what goes in (`PutInInv`) has
  label values no other has, and what goes out (`TakeOutInv`) goes out of both places;
* `RegistryUsesVec`: `Spec => VecSpec`, every step of the registry is a step of the
  vector or leaves it alone; hence `OneInstanceAlways` and `TrackingFollows`;
* `DescsUnique`: `UniqueDescs`, if at most one goroutine unregisters. `RegInv` adds
  what makes it inductive: whom `Unregister` has found is still registered when it
  gets the write lock. With two such goroutines it is not, see section 5;
* `ResultIsConsistent`: `SelfConsistent`, whatever collectors send;
* `NothingLeftOut`: `Complete`, the second half of `Accounted`: without an error, what
  `Gather` returns is all that was collected under the names it was asked for;
* `AllAccounted`: `Accounted`, if at most one goroutine unregisters and the collectors are
  `Compatible`, that is, the honest ones among those that can be registered together agree
  on help texts and types and share no metric. `MCRegistry` assumes it of its instance, so
  TLC evaluates it. Without it two honest collectors may contradict each other, and an error
  is the right answer.

Consistency is a matter of `processMetric` alone: `FamiliesInv` ties the families and the
hashes to the metrics accepted. The rest needs to know where a metric is while it is on its
way. `WaitInv` says that the wait group counts the collectors queued and those being
collected, and that no channel is closed or let go of before that is nothing and the
channel is empty; so what is received last is the last there is. `FlowInv` says that as long
as there is no error each metric collected is with its worker, in a channel, accepted, or
not asked for. `HonestInv` says that with honest collectors each metric is in one of these
places only, so that none is taken for a duplicate, and that what is in the families comes
from the collectors of the snapshot, which `RegisteredInv` knows were registered together.

`GatherExposerProofs` proves, for every setup that `Check` accepts, any observations and any
bounds:

* `GatherInvariance`: `GatherSpec => []GatherBase`;
* `NeverNegative`: the invariant `NoWrap`; `DeletesSafely`: the action property `SafeDelete`;
* `IncrementsNeverTwice` and `IncrementsConserved`: the invariants `NeverTwice` and
  `Conserved`, of exposers of increments.

`GatherBase` has what `Serve` relies on: that instances and entries are numbered, so that a
new one is none of those kept anywhere (`NumberInv`); what each step of a request leaves to the
next (`ServeInv`); that what is to be committed to an entry is not below what it has, and was
read of the child there is (`EntryInv`); that what was found idle was not written before it
was gathered (`IdleInv`). `TwiceInv` says that the child is new to the aggregator, or that what
its entry, or the one handed to `Options.Delete`, has delivered is what the aggregator has of
it; and that this stays so when the row being served is added. What an entry has delivered
counts a held round in if the aggregator has processed it. `ConservedInv` adds to `Conserved`
that the row is exactly what is to be committed less what the entry has.

`ServicesProofs` proves, for any goroutines, calls and bounds:

* `PushesAreKept`: the action property `PushIsKept`. `PushInv` says that the request under
  way carries the key of its `Pusher`, and `KeyIsRead` that the gateway reads back the key
  that `FullURL` wrote, encoded or not; the assumption is that "=" has no slash;
* `WritesAreAccounted`: the invariant `WritesAccounted`, for messages that know their size
  and stores that set a status for their errors. For other messages and stores it is false,
  and the invariant is not checked of them either (section 5). `RemoteInv` says that a buffer
  in use is one call's and has its message (`BuffersInv`); that what was stored of a call and
  what is still on its way are no more than its attempts (`StoredInv`); that an answer is to
  the attempt awaited and the only one (`RepliesInv`); that what answers confirm was stored
  (`StatsInv`);
* `WritesAreExact` and `QuantilesInWindow`: the invariants `WriteExact` and `Window`, for
  finitely many observers, of which the goroutine of `asyncFlush` is none. `SummaryInv` says
  who holds which lock (`LocksInv`); that what is flushed, in the cold buffer, in the hot one
  and being made are, in this order, consecutive intervals of the observations
  (`BufferedInv`), so that a count says which observations it counts; without objectives, that
  the counts of each side and the observers still to add to it make up what was begun
  (`FreeInv`); that the hot buffer expires a whole number of stream durations after the
  head stream (`TimesInv`), which is what makes the loop of `maybeRotateStreams` end; and
  that the stream of rank r has exactly the flushed observations of the last AgeBuckets - r
  stream durations before the head's expiration (`WindowInv`);
* `CountersAreExact`: `CellsExact`, a conjunct of `MetricsWritten`, for any goroutines that
  change and write a counter and a gauge, and any calls. `UsersInv` says which calls a
  goroutine has made and which of them are in the counter; `WordsInv` that the integer word is
  the sum of the calls that are in it with a whole value and the float word that of the others;
  `ReadersInv` that what a reader has in its hands came from moments in the order of its
  loads: the float word with a set of calls that includes the exemplar's, the integer word
  with a later one. That is why the exemplar is always of a call that is in what is written;
* `ApiCallsHonest`: `ApiHonest`, a conjunct of `ClientsHonest`, for any endpoints among those
  of `httpAPI`, any parameters and status codes. `CallPlace` says which requests were sent at
  each place, so that the answer to the first is never taken for the one to the second;
* `BatchesAreWritten`: `BatchIsWritten`, what `ClientsHonest` says of the connection and the
  lines of a `Push`, for any samples and whatever of gather, dial and write fails.

`HistogramProofs` proves, for every finite set of observers, every finite non-empty set of
values with any keys and classic buckets, every limit, with and without resets:

* `HistInvariance`: `Spec => []HistInv`;
* `ExactCounts`: the invariant `RestIsExact`; `ResetsShow`: the action property `ResetShows`;
* `WriteIsOneMoment`: `Spec => ImplementsAtomicCut`, the same abstract specification that
  the tracker implements;
* `CooledIsWhole`: the invariant `CoolIsWhole`.

The invariant says where each observation is. `MutexInv` says who holds `mtx` and what for.
`CountInv` says that the hot counts, with the observations under way on their side, are what
was begun since the last reset, or the rest of it while the cold counts have not been merged
back; and that nobody observes on the cold side except while it cools down (`ColdInv`), which
is what makes `count = awaited` mean that the cold counts are complete. `SparseInv` has the
number of buckets, the observer that has created one and not yet counted it included, and
where hot and cold counts may have different resolutions. `ReportsInv` carries what `Write`
reported to the next `Write`, through swaps and resets.

`CoolIsWhole` says in which buckets the observations are, and needs an invariant of its own
beside `HistInv`. `FilingInv` follows an observation from the sum to its bucket: on each side,
buckets and the observations between sum and bucket (`Unfiled`) are what the sum has, and on the
hot side with what the merge still owes it (`Owed`, `Due`), the cold buckets in `left`, each to
the bucket its key becomes (`Destination`) or to the zero bucket (`Vanishes`). `PlanInv` says
what a limitation has planned until its swap is over, and `SeenInv` that nobody is on the way to
a sparse bucket with the schema of another side. That a key of the wider schema is the half of
one of the narrower, rounded up on both sides of 1, is lemma `KeyHalves`.

`HandlerProofs` proves, for every finite set of requests, all families, options and switches
of the delta endpoint:

* `HandlerInvariance`: `HandlerSpec => []HandlerInv`;
* `HandlerLeavesNothing`: the invariant `NothingLeft`;
* `HandlerOneGather`: `OneGather`, the first conjunct of `Honest`.

`NothingLeft` speaks of the end, where nothing runs any more. `HandlerInv` says at every step
that slots and metrics are cardinalities of sets of requests (`CountsKept`), and that the
references of a cycle are those of the requests in it, or one more, once the gather of its
leader has panicked (`RefsKept`); that the last to release a cycle is the only one to close it;
that a cycle that is not ready has exactly one leader (`PlacesKept`, `CycleKept`).

And, for any vectors of labels, methods, writers, numbers of bytes and status codes (assumed to be
natural numbers):

* `MiddlewaresReport`: the invariant `ReportedAsSent` of `Instrumentation`.

`DelegatorOffers` is the lemma that the index which `newDelegator` adds up from the bits of the
writer's interfaces leads `pickDelegator` to exactly these, for all 32 sets of interfaces.
`InstrumentInv` says of the time before the report that each delegator `Follows` the writer: while
there is only one status and nobody has taken over the connection, it has the same status and the
same bytes, its header is written if and only if the writer's is, and the time to the header has
been observed at most once.

`TrackedExposerProofs` proves, for any set of goroutines, any finite set of instances, any
options and bounds in `Setups`:

* `ExposerInvariance`: `Spec => []ExposerInv`; `BooksAgree`: the invariant `Bookkeeping`;
* `BaselinesOnlyGrow` and `HeldRoundStands`: the action properties `BaselineForward` and
  `HeldLeftAlone`, if `HeldStays`; `NoWriteStranded`: the invariant `NothingStranded`, if
  `HeldStays`;
* `RowsAreIncrements`: the invariant `IncrementsOnly`, if `TurnsMeet`;
* `NothingLostOrDoubled`: the invariant `Conserved`, if both.

The two conditions are about the configuration, which never changes. `HeldStays`: nobody
peeks, or no user deletes and heartbeats are off. `TurnsMeet`: heartbeats are off, or the
heartbeat turns of shard and family fall together. They exclude what the runs `exposer_peek`
and `exposer_turns` show to go wrong (section 5), and every setup of `exposer_rounds` meets
both. `HeldStays` needs heartbeats off where there are peeks even if no user deletes: a
series reported by a heartbeat has not changed, so `drop` may delete it as idle while its
round is held, and a peek then moves it as in `exposer_peek`. The
assumptions that `Nil` is neither an instance nor an entry say that it is Go's `nil`.

The invariant has a part for each thing that `Serve` relies on: `PassInv` what each step
leaves behind; `EntryInv` that what is picked, idle or held has an entry, and is picked once a
round; `ValueInv` that what is delivered, pending or held was read of the instance; `LiveInv`
that `Tracked` counts the entries of live instances, and those `drop` is about to count out;
`RoundInv` what the scraper can acknowledge; `HeldInv` that what is held is ahead of the
baseline and not deleted under it; `RowInv` and `BeatInv` that a row is what is pending less
the baseline; `DueInv` that what is not delivered is listed, taken, or about to be listed.
`SumInv` is `Conserved` itself, which needs all of them: each step that moves values between
instances, the baselines and the scraper moves the same amount on both sides. Its sums are
recursive functions over sets. That they add up is proved in `SumTheorems` from a closed form,
the number of points below the function, by taking a smallest subset where the two would differ.

Every inductive invariant was checked with TLC on the instances of the runs before it was proved;
`FilingInv`, which speaks of all integers as keys, with the keys from -9 to 9.

Only model-checked, and why:

* all liveness properties, and `NeverStuck` of `Registry`: fairness and `ENABLED` are beyond
  the prover;
* `AllWritten`, the other conjunct of `Honest`: it says which families a `SelectSeq` keeps,
  which takes induction over sequences; so do `MergeSound`, `DescriptorsHold`, `DiffTransforms`,
  `HistogramWrites`, the other conjunct of `MetricsWritten`, and `PathsAreWords`, the last one of
  `ClientsHonest`, which are about what folds over sequences compute;
* `NeverTwice` and `Conserved` of `GatherExposer` for cumulative values. There they hold
  because the aggregator forgets a series in time, a relation between the gap of the exposer,
  the aggregator's staleness and the clock of the instance, and they are false for setups with
  acknowledgements (section 5).

## 5. Findings

Four runs end in a violation on purpose; the property states what the repository
says of the code.

* `exposer_peek`: a peek must leave the held round alone, but `settleDeleted` moves
  the baseline of a deleted instance at once, in a peek as well. What the held round
  reported is moved into the newer instance and reported a second time.
* `exposer_turns`: with heartbeats on and increments reported, the walk picks a
  series by its shard's bucket and `decide` asks for its family's; where they differ
  the series goes out with its whole value.
* `histogram_zero`: `maybeWidenZeroBucket` finds the smallest key while observations
  go on; one that creates a smaller bucket before the swap stays outside of the zero
  bucket although it is below the threshold.
* `registry_unregister`: `Unregister` does not look again after it has changed locks.
  Two goroutines that unregister the same collector, with an overlapping one
  registered between their deletions, leave that one without its descriptors, and
  `Register` then accepts a duplicate.

Met while modelling, without a run of their own. Each is in the model as the code does it.

In the tracker and the exposers:

* a deleted instance that `Take` hands out may have been written before the deletion
  only, and is put back in its Vec (`changetracking.go:553` says it was written since);
* `Tracked` never counts out an instance a user has deleted (`tracked.go:102`);
* on the Gather path a peek after a gap rebases a series whose delivered value is still
  held, and that value is then counted in two generations (`delta.go:243` and `gen.go:89`
  against `gen.go:105`; a setup with cumulative values, a gap and acknowledgements violates
  `NeverTwice`); a round that is rolled back still moves `lastDelivered` (`delta.go:662`);
* the Gather path takes a histogram that came in place of another for the same if it has
  the delivered count and sum, in whatever buckets (`delta.go:774`, `842`, `870`). A heartbeat
  then writes each bucket less the delivered one, unsigned, which wraps around; `NeverTwice`
  and `NoWrap` except it by `mistaken`;
* requests to the delta endpoint bypass the handler's limit of requests in flight.

In the metrics:

* the next widening may lower the zero threshold again (`histogram.go:1095`);
* a `NativeHistogramExemplarTTL` of -1ns is the sentinel that turns exemplars off
  (`histogram.go:1809`), where line 498 says that any negative value deletes the oldest;
* `constrainLabelValues` reads past its values where too few are given to a curried vector
  with a constraint (`vec.go:891`), so that `GetMetricWithLabelValues` panics, where
  line 270 says an error is returned, and `DeleteLabelValues` too, where lines 65 to 67 say
  it returns false; `panics` in `CurriedVec` records it;
* `DeletePartialMatch` deletes every instance in a hash bucket that has a match, and
  counts buckets (`vec.go:570`; line 108 says those that match);
* wrapping a descriptor that `NewInvalidDesc` made with a prefix dereferences its labels,
  which are nil (`desc.go:192`, modelled as `NilLabels`);
* a label name that begins with "$" can make two dimension hashes the same
  (`desc.go:144`), which `DescIdentity` excepts;
* `Gatherers.Gather` does not copy the unit to the family it merges into
  (`registry.go:937`), and `checkMetricConsistency` looks for a label name that is there
  twice before it sorts (`registry.go:1042`).

In the services:

* who joins a gather that is over but in use gets its old data, by design
  (`http.go:114`); a status that is written after an informational one, or a second one,
  is not the one counted (`delegator.go:55`), which `ReportedAsSent` excepts;
* a store that fails without a status is answered with 204, as a success
  (`remote_api.go:594`); the payload's buffer may still be read by the transport after
  `Write` has returned it to the pool, which is left to `net/http` here; a message that is
  not of a known type is appended to what its pooled buffer held (`remote_api.go:243`);
* the bridge writes without a deadline and waits for a server that has stopped reading;
* a 400 or 422 of the API whose body has no status is no error if nothing is decoded;
* `GetGroupedOpCodes` cuts the cached operations in place (`difflib.go:424`), so that a
  second call, or `GetOpCodes` after it, sees them cut; `cut` in `Difflib` records it.

## 6. Not modelled, and why

* Text layout, compression (`encode.go`, `compress.go`), content negotiation and JSON are
  conversions without state; the messages of remote write are generated code.
* The Go, process, expvar and database collectors read the runtime, the operating system
  or a library; a mutex around the samples is all they have of their own. `promauto`,
  `collectors`, `promlint` and the helpers of `testutil` are thin wrappers or pure checks.
* Constant summaries and classic constant histograms, the choice of a schema for a bucket
  factor, and the functions that compute bucket bounds are arithmetic on floats.
* `WriteToTextfile` leaves its atomicity to a rename of the file system.
* Gauges, `Scope` and `Only` in `TrackedExposer`, native histograms in `GatherExposer`, and
  two label sets in either: they multiply the states, and touch the protocol nowhere.
* The capacity accounting of slices and maps, which decides about memory only.
