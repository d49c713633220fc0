--------------------------- MODULE ChangeTracker ---------------------------
(***************************************************************************)
(* The change tracker of prometheus/changetracking.go, at the granularity  *)
(* of its atomic operations: goroutines that add to tracked counters       *)
(* (counter.Inc, dirtyState.count, dirtyState.mark, dirtyShard.add,        *)
(* Atomically) race with the single consumer, the scrape loop of           *)
(* promhttp/delta, that runs ChangeTracker.Cut, ChangeTracker.Take and     *)
(* then either commits what it took or puts it back with MarkChanged.      *)
(*                                                                         *)
(* Abstractions.  An increment is 1.  A shard's dirty slice is the set of  *)
(* its elements, and spare, batchPeak and allPeak, which only size arrays, *)
(* are left out.  A compare-and-swap loop that adds is one step.  Epochs   *)
(* do not wrap: a uint32 epoch wraps after 2^32 scrapes.                   *)
(***************************************************************************)
EXTENDS Integers, Sequences, FiniteSets

CONSTANTS
    Writers,      \* goroutines that write counters
    Consumer,     \* the one consumer of the tracker
    Instances,    \* tracked counters
    NumShards,    \* dirtyShardCount
    ShardOf,      \* the shard of each instance: hash % dirtyShardCount
    Request,      \* the counters each writer adds to in one request, in order
    Grouped,      \* the writers that make a request inside Atomically
    MaxRequests,  \* bound: requests per writer
    MaxRounds,    \* bound: scrapes
    None          \* no goroutine holds the mutex

Procs == Writers \cup {Consumer}
Shards == 1..NumShards
Sides == 0..1

ASSUME WritersAssumption == IsFiniteSet(Writers) /\ Consumer \notin Writers
ASSUME NoneAssumption == None \notin Procs
ASSUME InstancesAssumption == Instances # {}
ASSUME ShardsAssumption == NumShards \in Nat \ {0} /\ ShardOf \in [Instances -> Shards]
ASSUME RequestAssumption ==
    /\ Request \in [Writers -> Seq(Instances)]
    /\ \A w \in Writers : Len(Request[w]) >= 1
    /\ \A w \in Writers : \A m, n \in 1..Len(Request[w]) :
           Request[w][m] = Request[w][n] => m = n
ASSUME GroupedAssumption == Grouped \subseteq Writers
ASSUME BoundsAssumption == MaxRequests \in Nat /\ MaxRounds \in Nat

VARIABLES
    value,      \* counter.valInt
    since,      \* dirtyState.since, by the parity of the cut
    atCut,      \* dirtyState.atCut
    dEpoch,     \* dirtyState.epoch
    sEpoch,     \* dirtyShard.epoch
    dirty,      \* dirtyShard.dirty
    mu,         \* dirtyShard.mu: its holder
    inflight,   \* dirtyShard.inflight
    cut,        \* ChangeTracker.cut
    readers,    \* ChangeTracker.atomic: who holds it shared
    cutWaits,   \* ChangeTracker.atomic: Cut is in Lock, which holds new readers off
    pc, obj,    \* per goroutine: the next step, the instance it is working on
    sawCut,     \* count's c
    sawEpoch,   \* mark's first load, of dirtyState.epoch
    step,       \* position in the writer's request
    requests,   \* requests begun
    shard,      \* loop variable of Cut and Take
    taken,      \* Take's taken, less what has been folded
    taking,     \* the consumer is in Take, rather than in the MarkChanged loop
    batch,      \* TrackedExposer.taken: what Take handed out, not yet settled
    delivered,  \* the value the consumer has committed, entry.value
    made,       \* history: writes whose side of the cut is decided
    snap,       \* history: made at the moment of the last cut
    reported    \* history: atCut when the last Take ended

instanceVars == <<value, since, atCut, dEpoch>>
shardVars == <<sEpoch, dirty, mu, inflight>>
trackerVars == <<cut, readers, cutWaits>>
procVars == <<pc, obj, sawCut, sawEpoch, step, requests>>
consumerVars == <<shard, taken, taking, batch, delivered>>
historyVars == <<made, snap, reported>>
vars == <<instanceVars, shardVars, trackerVars, procVars, consumerVars, historyVars>>

-----------------------------------------------------------------------------

\* NewChangeTracker, then trackMetric of every instance: a new instance is in
\* the dirty list of its shard.
Init ==
    /\ value = [i \in Instances |-> 0]
    /\ since = [i \in Instances |-> [b \in Sides |-> 0]]
    /\ atCut = [i \in Instances |-> 0]
    /\ dEpoch = [i \in Instances |-> 1]
    /\ sEpoch = [s \in Shards |-> 1]
    /\ dirty = [s \in Shards |-> {i \in Instances : ShardOf[i] = s}]
    /\ mu = [s \in Shards |-> None]
    /\ inflight = [s \in Shards |-> [b \in Sides |-> 0]]
    /\ cut = 0 /\ readers = {} /\ cutWaits = FALSE
    /\ pc = [p \in Procs |-> "rest"]
    /\ obj = [p \in Procs |-> IF p \in Writers THEN Request[p][1]
                                               ELSE CHOOSE i \in Instances : TRUE]
    /\ sawCut = [w \in Writers |-> 0]
    /\ sawEpoch = [p \in Procs |-> 0]
    /\ step = [w \in Writers |-> 1]
    /\ requests = [w \in Writers |-> 0]
    /\ shard = 1 /\ taken = {} /\ taking = FALSE /\ batch = {}
    /\ delivered = [i \in Instances |-> 0]
    /\ made = [i \in Instances |-> 0]
    /\ snap = [i \in Instances |-> 0]
    /\ reported = [i \in Instances |-> 0]

Goto(p, l) == pc' = [pc EXCEPT ![p] = l]
HomeOf(p) == ShardOf[obj[p]]

-----------------------------------------------------------------------------
(* mark and add: run by every write, by fold and by MarkChanged *)

\* Where mark returns to: count for a writer; fold, or the caller's loop over
\* MarkChanged, for the consumer.
AfterMark(p) == CASE p \in Writers -> "leave"
                  [] p = Consumer -> IF taking THEN "fold" ELSE "remark"

\* mark's d.epoch.Load()
MarkLoad(p) ==
    /\ pc[p] = "mark"
    /\ sawEpoch' = [sawEpoch EXCEPT ![p] = dEpoch[obj[p]]]
    /\ Goto(p, "compare")
    /\ UNCHANGED <<instanceVars, shardVars, trackerVars, consumerVars, historyVars,
                   obj, sawCut, step, requests>>

\* mark's s.epoch.Load() and comparison: an equal epoch means it is listed
MarkCompare(p) ==
    /\ pc[p] = "compare"
    /\ Goto(p, IF sawEpoch[p] = sEpoch[HomeOf(p)] THEN AfterMark(p) ELSE "lock")
    /\ UNCHANGED <<instanceVars, shardVars, trackerVars, consumerVars, historyVars,
                   obj, sawCut, sawEpoch, step, requests>>

\* add's check under the mutex, of the epoch as it is by now
NotListed(i) == dEpoch[i] # sEpoch[ShardOf[i]]

\* add up to the append: s.mu.Lock, the check, and the epoch store
AddLock(p) ==
    /\ pc[p] = "lock"
    /\ mu[HomeOf(p)] = None
    /\ IF NotListed(obj[p])
         THEN /\ mu' = [mu EXCEPT ![HomeOf(p)] = p]
              /\ dEpoch' = [dEpoch EXCEPT ![obj[p]] = sEpoch[HomeOf(p)]]
              /\ Goto(p, "append")
         ELSE /\ UNCHANGED <<mu, dEpoch>>
              /\ Goto(p, AfterMark(p))
    /\ UNCHANGED <<value, since, atCut, sEpoch, dirty, inflight, trackerVars,
                   consumerVars, historyVars, obj, sawCut, sawEpoch, step, requests>>

\* Mutation of AddAppend: the mutex is kept.
AddAppend_KeepsMutex(p) ==
    /\ pc[p] = "append"
    /\ dirty' = [dirty EXCEPT ![HomeOf(p)] = @ \cup {obj[p]}]
    /\ Goto(p, AfterMark(p))
    /\ UNCHANGED <<instanceVars, sEpoch, mu, inflight, trackerVars, consumerVars,
                   historyVars, obj, sawCut, sawEpoch, step, requests>>

\* add's append and s.mu.Unlock
AddAppend(p) ==
    /\ pc[p] = "append"
    /\ dirty' = [dirty EXCEPT ![HomeOf(p)] = @ \cup {obj[p]}]
    /\ mu' = [mu EXCEPT ![HomeOf(p)] = None]
    /\ Goto(p, AfterMark(p))
    /\ UNCHANGED <<instanceVars, sEpoch, inflight, trackerVars, consumerVars,
                   historyVars, obj, sawCut, sawEpoch, step, requests>>

-----------------------------------------------------------------------------
(* A writer: a request of one or more counter.Inc, in Atomically or not *)

\* Atomically's RLock: a Lock that waits holds new readers off
MayEnterGroup == ~cutWaits

\* A request begins: Atomically, for the writers that use it
BeginRequest(w) ==
    /\ pc[w] = "rest"
    /\ requests[w] < MaxRequests
    /\ w \in Grouped => MayEnterGroup
    /\ readers' = IF w \in Grouped THEN readers \cup {w} ELSE readers
    /\ requests' = [requests EXCEPT ![w] = @ + 1]
    /\ step' = [step EXCEPT ![w] = 1]
    /\ obj' = [obj EXCEPT ![w] = Request[w][1]]
    /\ Goto(w, "add")
    /\ UNCHANGED <<instanceVars, shardVars, cut, cutWaits, consumerVars, historyVars,
                   sawCut, sawEpoch>>

\* counter.Inc: the value first, then track.count
Add(w) ==
    /\ pc[w] = "add"
    /\ value' = [value EXCEPT ![obj[w]] = @ + 1]
    /\ Goto(w, "load")
    /\ UNCHANGED <<since, atCut, dEpoch, shardVars, trackerVars, consumerVars,
                   historyVars, obj, sawCut, sawEpoch, step, requests>>

\* count: c := cut.Load()
LoadCut(w) ==
    /\ pc[w] = "load"
    /\ sawCut' = [sawCut EXCEPT ![w] = cut]
    /\ Goto(w, "enter")
    /\ UNCHANGED <<instanceVars, shardVars, trackerVars, consumerVars, historyVars,
                   obj, sawEpoch, step, requests>>

\* Mutation of SideOf: the side is taken from the cut as it is by now.
SideOf_Reloaded(w) == cut % 2

\* count: c&1, the side of the cut a write goes to
SideOf(w) == sawCut[w] % 2

\* in.Add(1) and in.Add(-1)
AddInflight(w, n) == inflight' = [inflight EXCEPT ![HomeOf(w)][SideOf(w)] = @ + n]

\* count: in.Add(1)
Enter(w) ==
    /\ pc[w] = "enter"
    /\ AddInflight(w, 1)
    /\ Goto(w, "recheck")
    /\ UNCHANGED <<instanceVars, sEpoch, dirty, mu, trackerVars, consumerVars,
                   historyVars, obj, sawCut, sawEpoch, step, requests>>

\* Mutation of CutUnmoved: a write goes to the side it loaded, moved on or not.
CutUnmoved_Unchecked(w) == TRUE

\* count: cut.Load() != c sends the write round again
CutUnmoved(w) == cut = sawCut[w]

\* count: the check that decides the side of the cut the write is on
Recheck(w) ==
    /\ pc[w] = "recheck"
    /\ IF CutUnmoved(w)
         THEN /\ made' = [made EXCEPT ![obj[w]] = @ + 1]
              /\ Goto(w, "count")
         ELSE /\ UNCHANGED made
              /\ Goto(w, "backout")
    /\ UNCHANGED <<instanceVars, shardVars, trackerVars, consumerVars, snap, reported,
                   obj, sawCut, sawEpoch, step, requests>>

\* Mutation of BackOut: the write goes round again without deregistering.
BackOut_Leaks(w) ==
    /\ pc[w] = "backout"
    /\ Goto(w, "load")
    /\ UNCHANGED <<instanceVars, shardVars, trackerVars, consumerVars, historyVars,
                   obj, sawCut, sawEpoch, step, requests>>

\* count: in.Add(-1); continue
BackOut(w) ==
    /\ pc[w] = "backout"
    /\ AddInflight(w, -1)
    /\ Goto(w, "load")
    /\ UNCHANGED <<instanceVars, sEpoch, dirty, mu, trackerVars, consumerVars,
                   historyVars, obj, sawCut, sawEpoch, step, requests>>

\* count: the addition to d.since[c&1], then d.mark()
Count(w) ==
    /\ pc[w] = "count"
    /\ since' = [since EXCEPT ![obj[w]][SideOf(w)] = @ + 1]
    /\ Goto(w, "mark")
    /\ UNCHANGED <<value, atCut, dEpoch, shardVars, trackerVars, consumerVars,
                   historyVars, obj, sawCut, sawEpoch, step, requests>>

\* count: in.Add(-1); return, to the request's next write, or to the end of
\* Atomically
Leave(w) ==
    /\ pc[w] = "leave"
    /\ AddInflight(w, -1)
    /\ IF step[w] < Len(Request[w])
         THEN /\ step' = [step EXCEPT ![w] = @ + 1]
              /\ obj' = [obj EXCEPT ![w] = Request[w][step[w] + 1]]
              /\ Goto(w, "add")
              /\ UNCHANGED readers
         ELSE /\ readers' = readers \ {w}
              /\ Goto(w, "rest")
              /\ UNCHANGED <<step, obj>>
    /\ UNCHANGED <<instanceVars, sEpoch, dirty, mu, cut, cutWaits, consumerVars,
                   historyVars, sawCut, sawEpoch, requests>>

-----------------------------------------------------------------------------
(* The consumer: Cut, Take, and what Serve does with what it took *)

\* Cut: t.atomic.Lock() begins to wait
BeginCut ==
    /\ pc[Consumer] = "rest"
    /\ cut < MaxRounds
    /\ cutWaits' = TRUE
    /\ Goto(Consumer, "cut")
    /\ UNCHANGED <<instanceVars, shardVars, cut, readers, consumerVars, historyVars,
                   obj, sawCut, sawEpoch, step, requests>>

\* Mutation of NoGroupInProgress: the cut is moved on without the lock.
NoGroupInProgress_Unlocked == TRUE

\* Lock returns once no group holds the mutex shared
NoGroupInProgress == readers = {}

\* Cut: the lock is got, the cut moved on, the lock given back
MoveCut ==
    /\ pc[Consumer] = "cut"
    /\ NoGroupInProgress
    /\ cut' = cut + 1
    /\ snap' = made
    /\ cutWaits' = FALSE
    /\ shard' = 1
    /\ Goto(Consumer, "drain")
    /\ UNCHANGED <<instanceVars, shardVars, readers, taken, taking, batch, delivered,
                   made, reported, obj, sawCut, sawEpoch, step, requests>>

CurSide == cut % 2
OldSide == (cut + 1) % 2

\* Mutation of ShardDrained: it looks at the writes after the cut instead.
ShardDrained_WrongSide(s) == inflight[s][CurSide] = 0

\* Cut: inflight[c&1].Load() != 0 goes round again, c being the cut before
ShardDrained(s) == inflight[s][OldSide] = 0

\* Cut: one iteration of the loop over the shards, once its writes are done
Drain ==
    /\ pc[Consumer] = "drain"
    /\ ShardDrained(shard)
    /\ IF shard < NumShards
         THEN /\ shard' = shard + 1
              /\ UNCHANGED <<pc, taking>>
         ELSE /\ shard' = 1
              /\ taking' = TRUE
              /\ Goto(Consumer, "swap")
    /\ UNCHANGED <<instanceVars, shardVars, trackerVars, historyVars, taken, batch,
                   delivered, obj, sawCut, sawEpoch, step, requests>>

\* Mutation of NextEpoch: the epoch stays as it is.
NextEpoch_Same(s) == sEpoch[s]

\* Take: s.epoch.Add(1)
NextEpoch(s) == sEpoch[s] + 1

\* Take: the dirty list is taken and the epoch moved on, under s.mu
TakeShard ==
    /\ pc[Consumer] = "swap"
    /\ mu[shard] = None
    /\ taken' = dirty[shard]
    /\ dirty' = [dirty EXCEPT ![shard] = {}]
    /\ sEpoch' = [sEpoch EXCEPT ![shard] = NextEpoch(shard)]
    /\ Goto(Consumer, "fold")
    /\ UNCHANGED <<instanceVars, mu, inflight, trackerVars, historyVars, shard, taking,
                   batch, delivered, obj, sawCut, sawEpoch, step, requests>>

\* fold: atCut += since[cut&1].Swap(0)
FoldSwap(i) ==
    /\ pc[Consumer] = "fold"
    /\ i \in taken
    /\ taken' = taken \ {i}
    /\ atCut' = [atCut EXCEPT ![i] = @ + since[i][OldSide]]
    /\ since' = [since EXCEPT ![i][OldSide] = 0]
    /\ obj' = [obj EXCEPT ![Consumer] = i]
    /\ Goto(Consumer, "foldcheck")
    /\ UNCHANGED <<value, dEpoch, shardVars, trackerVars, historyVars, shard, taking,
                   batch, delivered, sawCut, sawEpoch, step, requests>>

\* Mutation of WrittenAfterCut: the instance is left to the next write to it.
WrittenAfterCut_Forgotten(i) == FALSE

\* fold: d.since[(cut+1)&1].Load() != 0
WrittenAfterCut(i) == since[i][CurSide] # 0

\* fold: an instance already written after the cut is marked again; fn, the
\* exposer's pick, adds it to its batch
FoldCheck ==
    /\ pc[Consumer] = "foldcheck"
    /\ batch' = batch \cup {obj[Consumer]}
    /\ Goto(Consumer, IF WrittenAfterCut(obj[Consumer]) THEN "mark" ELSE "fold")
    /\ UNCHANGED <<instanceVars, shardVars, trackerVars, historyVars, shard, taken,
                   taking, delivered, obj, sawCut, sawEpoch, step, requests>>

\* Take: on to the next shard, or done
TakeNext ==
    /\ pc[Consumer] = "fold"
    /\ taken = {}
    /\ IF shard < NumShards
         THEN /\ shard' = shard + 1
              /\ Goto(Consumer, "swap")
              /\ UNCHANGED <<taking, reported>>
         ELSE /\ taking' = FALSE
              /\ reported' = atCut
              /\ Goto(Consumer, "settle")
              /\ UNCHANGED shard
    /\ UNCHANGED <<instanceVars, shardVars, trackerVars, taken, batch, delivered,
                   made, snap, obj, sawCut, sawEpoch, step, requests>>

\* Serve, delivered: commit, every value as of the cut
Deliver ==
    /\ pc[Consumer] = "settle"
    /\ delivered' = [i \in Instances |-> IF i \in batch THEN atCut[i] ELSE delivered[i]]
    /\ batch' = {}
    /\ Goto(Consumer, "rest")
    /\ UNCHANGED <<instanceVars, shardVars, trackerVars, historyVars, shard, taken,
                   taking, obj, sawCut, sawEpoch, step, requests>>

\* Mutation of PutBack: an undelivered scrape drops what it took.
PutBack_Dropped == {}

\* Serve: everything taken is put back, whether or not it was written out
PutBack == batch

\* Serve, undelivered or a peek: everything taken goes through MarkChanged
Undelivered ==
    /\ pc[Consumer] = "settle"
    /\ batch' = PutBack
    /\ Goto(Consumer, "remark")
    /\ UNCHANGED <<instanceVars, shardVars, trackerVars, historyVars, shard, taken,
                   taking, delivered, obj, sawCut, sawEpoch, step, requests>>

\* MarkChanged of one instance
MarkChanged(i) ==
    /\ pc[Consumer] = "remark"
    /\ i \in batch
    /\ batch' = batch \ {i}
    /\ obj' = [obj EXCEPT ![Consumer] = i]
    /\ Goto(Consumer, "mark")
    /\ UNCHANGED <<instanceVars, shardVars, trackerVars, historyVars, shard, taken,
                   taking, delivered, sawCut, sawEpoch, step, requests>>

\* The loop over MarkChanged ends
PutBackDone ==
    /\ pc[Consumer] = "remark"
    /\ batch = {}
    /\ Goto(Consumer, "rest")
    /\ UNCHANGED <<instanceVars, shardVars, trackerVars, historyVars, consumerVars,
                   obj, sawCut, sawEpoch, step, requests>>

-----------------------------------------------------------------------------

Mark(p) == MarkLoad(p) \/ MarkCompare(p) \/ AddLock(p) \/ AddAppend(p)

\* The steps a write in progress takes
WriterStep(w) == \/ Add(w) \/ LoadCut(w) \/ Enter(w) \/ Recheck(w) \/ BackOut(w)
                 \/ Count(w) \/ Mark(w) \/ Leave(w)

\* The steps the consumer takes in a scrape
ConsumerStep == \/ MoveCut \/ Drain \/ TakeShard \/ FoldCheck \/ TakeNext
                \/ \E i \in Instances : FoldSwap(i) \/ MarkChanged(i)
                \/ Deliver \/ Undelivered \/ PutBackDone \/ Mark(Consumer)

\* The bounds are reached and nothing is in progress.
Terminating == /\ \A p \in Procs : pc[p] = "rest"
               /\ \A w \in Writers : requests[w] = MaxRequests
               /\ cut = MaxRounds
               /\ UNCHANGED vars

Next == \/ \E w \in Writers : BeginRequest(w) \/ WriterStep(w)
        \/ BeginCut \/ ConsumerStep
        \/ Terminating

Spec == Init /\ [][Next]_vars

\* A goroutine that can run does run, and scrapes keep coming; no request need
\* ever begin.
Fairness == /\ \A w \in Writers : WF_vars(WriterStep(w))
            /\ WF_vars(BeginCut) /\ WF_vars(ConsumerStep)

FairSpec == Spec /\ Fairness

-----------------------------------------------------------------------------
(* Properties *)

WriterLabels == {"rest", "add", "load", "enter", "recheck", "backout", "count",
                 "mark", "compare", "lock", "append", "leave"}
ConsumerLabels == {"rest", "cut", "drain", "swap", "fold", "foldcheck",
                   "mark", "compare", "lock", "append", "settle", "remark"}

\* Every variable has its type: in particular an inflight count is never negative.
TypeOK ==
    /\ value \in [Instances -> Nat]
    /\ since \in [Instances -> [Sides -> Nat]]
    /\ atCut \in [Instances -> Nat]
    /\ dEpoch \in [Instances -> Nat]
    /\ sEpoch \in [Shards -> Nat]
    /\ dirty \in [Shards -> SUBSET Instances]
    /\ mu \in [Shards -> Procs \cup {None}]
    /\ inflight \in [Shards -> [Sides -> Nat]]
    /\ cut \in Nat /\ readers \subseteq Grouped /\ cutWaits \in BOOLEAN
    /\ pc \in [Procs -> WriterLabels \cup ConsumerLabels]
    /\ \A w \in Writers : pc[w] \in WriterLabels
    /\ pc[Consumer] \in ConsumerLabels
    /\ obj \in [Procs -> Instances]
    /\ sawCut \in [Writers -> Nat]
    /\ sawEpoch \in [Procs -> Nat]
    /\ step \in [Writers -> Nat]
    /\ \A w \in Writers : step[w] \in 1..Len(Request[w])
    /\ requests \in [Writers -> Nat]
    /\ shard \in Shards /\ taken \subseteq Instances /\ taking \in BOOLEAN
    /\ batch \subseteq Instances
    /\ delivered \in [Instances -> Nat]
    /\ made \in [Instances -> Nat]
    /\ snap \in [Instances -> Nat]
    /\ reported \in [Instances -> Nat]

\* p has set the instance's epoch in add and is about to append it, in the mutex
Appending(p, i) == pc[p] = "append" /\ obj[p] = i

\* The instance is in its shard's dirty list, or will be before the mutex is free.
Listed(i) == i \in dirty[ShardOf[i]] \/ \E p \in Procs : Appending(p, i)

\* "An equal epoch means it is still in the shard's dirty list" (mark): were the
\* epochs equal with the instance in no list, mark's lock-free return would lose
\* the write; were they different with it listed, it would be listed twice.
EpochMeansListed == \A i \in Instances : dEpoch[i] = sEpoch[ShardOf[i]] <=> Listed(i)

\* The side of its cut is decided and the write is not yet enlisted.
Enlisting(w) == pc[w] \in {"count", "mark", "compare", "lock", "append"}

\* Between scrapes, an instance with a write that no delivered scrape carried is
\* in the dirty list, so that the next Take hands it out, or the writer is still
\* on its way there: whatever mark saw of the epochs while Take moved them on,
\* however a scrape that failed put back what it took.
NoLostWrite ==
    pc[Consumer] = "rest" =>
        \A i \in Instances : made[i] # delivered[i] =>
            \/ i \in dirty[ShardOf[i]]
            \/ \E w \in Writers : obj[w] = i /\ Enlisting(w)

\* The consumer is between Cut moving the cut on and the end of Take.
InScrape == taking \/ pc[Consumer] = "drain"

\* Outside Cut and Take, the value of every counter as of the cut is the number
\* of its writes decided before the last cut, all counters at that one moment:
\* none of a write in flight then, none missed, none made after it (CutValue).
CutIsOneMoment == ~InScrape => atCut = snap

\* No writer of j writes it without having written i before.
WrittenBefore(i, j) ==
    \A w \in Writers : \A n \in 1..Len(Request[w]) : Request[w][n] = j =>
        \E m \in 1..(n - 1) : Request[w][m] = i

\* A scrape "never reports a write without the writes made before it, such as
\* the cost of a request without its tokens" (Cut).
CausalPrefix == \A i, j \in Instances : WrittenBefore(i, j) => reported[j] <= reported[i]

Writes(w, i) == \E n \in 1..Len(Request[w]) : Request[w][n] = i

\* The requests begun that write i and not, inside the same group, j
Apart(i, j) == {r \in Writers \X (1..MaxRequests) :
                    /\ r[2] <= requests[r[1]] /\ Writes(r[1], i)
                    /\ ~(r[1] \in Grouped /\ Writes(r[1], j))}

\* Of the writes of a group, Atomically says that "a scrape reports all of them or
\* none": it reports no more of i than of j, but for writes of i that were not
\* grouped with one of j.
WholeGroups == \A i, j \in Instances : reported[i] <= reported[j] + Cardinality(Apart(i, j))

\* Cut returns: the groups and the writes it waits for end, although new ones
\* begin meanwhile.
CutReturns == pc[Consumer] = "cut" ~> pc[Consumer] = "swap"

\* A write returns: it goes round again only while the cut moves on.
WriteReturns == \A w \in Writers : pc[w] # "rest" ~> pc[w] = "rest"

\* Neither side waits for the other for ever: every Cut and every write returns.
CallsReturn == CutReturns /\ WriteReturns

\* A write that has been made is reported, as long as another scrape is made,
\* whatever became of the scrapes in between.
WriteReported ==
    \A i \in Instances : \A n \in 1..(MaxRequests * Cardinality(Writers)) :
        (made[i] >= n /\ cut < MaxRounds) ~> reported[i] >= n

-----------------------------------------------------------------------------
(* The inductive invariant behind EpochMeansListed, NoLostWrite, CutIsOneMoment *)
(* and ImplementsAtomicCut *)

\* count has added to inflight and not yet subtracted
Registered(w) == pc[w] \in {"recheck", "backout", "count", "mark", "compare", "lock",
                            "append", "leave"}

\* count has seen the cut unmoved: its side is decided
Decided(w) == pc[w] \in {"count", "mark", "compare", "lock", "append", "leave"}

\* p is in mark or add for i
Marking(p, i) == obj[p] = i /\ pc[p] \in {"mark", "compare", "lock", "append"}

\* The writers inflight[s][b] counts, and those about to add to since
RegisteredOn(s, b) == {w \in Writers : Registered(w) /\ HomeOf(w) = s /\ SideOf(w) = b}
Counting(i, c) == {w \in Writers : pc[w] = "count" /\ obj[w] = i /\ sawCut[w] = c}

\* Where the consumer is.
ConsumerPlace ==
    /\ taking => pc[Consumer] \in {"swap", "fold", "foldcheck", "mark", "compare", "lock",
                                   "append"}
    /\ pc[Consumer] \in {"swap", "fold", "foldcheck"} => taking
    /\ taken # {} => taking /\ pc[Consumer] # "swap"
    /\ \A i \in taken : ShardOf[i] = shard
    /\ taking /\ pc[Consumer] \in {"foldcheck", "mark", "compare", "lock", "append"} =>
           HomeOf(Consumer) = shard
    /\ pc[Consumer] = "rest" => batch = {}
    /\ InScrape => cut >= 1

\* The dirty list, its epochs and its mutex agree.
ListsInv ==
    /\ \A i \in Instances : dEpoch[i] <= sEpoch[ShardOf[i]]
    /\ \A s \in Shards : \A i \in dirty[s] : ShardOf[i] = s
    /\ \A s \in Shards : \A p \in Procs : mu[s] = p <=> pc[p] = "append" /\ HomeOf(p) = s
    /\ \A p \in Procs : pc[p] = "compare" => sawEpoch[p] <= dEpoch[obj[p]]
    /\ EpochMeansListed

\* A decided write is on the current side, or on the old one while Cut has still
\* to drain its shard.
SidesInv ==
    /\ \A w \in Writers : sawCut[w] <= cut
    /\ \A w \in Writers : Decided(w) =>
           \/ sawCut[w] = cut
           \/ sawCut[w] = cut - 1 /\ pc[Consumer] = "drain" /\ shard <= HomeOf(w)
    /\ \A s \in Shards, b \in Sides : inflight[s][b] = Cardinality(RegisteredOn(s, b))

\* Every decided write is in exactly one of: a writer's hands, its side, atCut.
CountsInv ==
    \A i \in Instances :
        /\ made[i] = snap[i] + since[i][CurSide] + Cardinality(Counting(i, cut))
        /\ snap[i] = atCut[i] + since[i][OldSide] + Cardinality(Counting(i, cut - 1))

\* Take has still to fold i.
ToFold(i) == \/ pc[Consumer] = "drain"
             \/ taking /\ shard < ShardOf[i]
             \/ taking /\ shard = ShardOf[i] /\ pc[Consumer] = "swap"
             \/ i \in taken

\* The consumer has i in its hands, and will look at its current side.
Folding(i) == \/ i \in taken
              \/ /\ taking /\ obj[Consumer] = i
                 /\ pc[Consumer] \in {"foldcheck", "mark", "compare", "lock", "append"}

\* What is on a side is listed, or about to be by a writer of that side, or in
\* the consumer's hands.
EnlistedInv ==
    \A i \in Instances :
        /\ since[i][OldSide] # 0 => ToFold(i)
        /\ \A b \in Sides : since[i][b] # 0 =>
               \/ Listed(i)
               \/ \E w \in Writers : Marking(w, i) /\ SideOf(w) = b
               \/ Folding(i)

\* What is not delivered is listed, or in the consumer's hands.
DeliveryInv ==
    \A i \in Instances : delivered[i] # atCut[i] =>
        \/ Listed(i) \/ i \in taken \/ i \in batch
        \/ obj[Consumer] = i /\ pc[Consumer] = "foldcheck"
        \/ ~taking /\ Marking(Consumer, i)

IndInv == /\ TypeOK /\ ConsumerPlace /\ ListsInv /\ SidesInv /\ CountsInv
          /\ EnlistedInv /\ DeliveryInv

\* The promise of Cut and Take, see AtomicCut.
AtomicCut == INSTANCE AtomicCut WITH open <- InScrape

\* Cut and Take implement it: a cut of all counters in one step.
ImplementsAtomicCut == AtomicCut!Spec

-----------------------------------------------------------------------------
(* The inductive invariant behind CausalPrefix and WholeGroups *)

\* How many writes of its last request have their side decided.
DecidedUpTo(w) == IF pc[w] = "rest" THEN Len(Request[w])
                  ELSE IF Decided(w) THEN step[w] ELSE step[w] - 1

\* The requests, by writer and number, whose write of i has its side decided.
DecidedWrites(i) ==
    {r \in Writers \X (1..MaxRequests) :
        /\ r[2] <= requests[r[1]]
        /\ \E n \in 1..Len(Request[r[1]]) :
               /\ Request[r[1]][n] = i
               /\ r[2] < requests[r[1]] \/ n <= DecidedUpTo(r[1])}

\* Where the writers are in their requests; a group holds the mutex shared.
RequestPlace ==
    \A w \in Writers :
        /\ requests[w] <= MaxRequests
        /\ pc[w] # "rest" => requests[w] >= 1 /\ obj[w] = Request[w][step[w]]
        /\ w \in Grouped /\ pc[w] # "rest" => w \in readers

\* Counts that respect the order of writes, and groups.
OrderKept(f) == \A i, j \in Instances : WrittenBefore(i, j) => f[j] <= f[i]
GroupsKept(f) == \A i, j \in Instances : f[i] <= f[j] + Cardinality(Apart(i, j))

OrderInv ==
    /\ RequestPlace
    /\ \A i \in Instances : made[i] = Cardinality(DecidedWrites(i))
    /\ OrderKept(snap) /\ OrderKept(reported)
    /\ GroupsKept(snap) /\ GroupsKept(reported)

=============================================================================
