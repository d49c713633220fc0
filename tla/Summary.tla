------------------------------- MODULE Summary -------------------------------
(***************************************************************************)
(* prometheus/summary.go: a summary with objectives, whose observations go *)
(* to a hot buffer, are flushed from the cold one into every age bucket by *)
(* a goroutine of their own and leave with the age bucket that is reset,   *)
(* and one without objectives, lock-free with hot and cold counts.         *)
(*                                                                         *)
(* Abstractions.  An observation is known by its number, and counts 1 in   *)
(* the sum.  A quantile stream is the set of observations inserted since   *)
(* its last reset, which is all its quantiles depend on.  What is done     *)
(* under mtx alone is one step, and so is a loop around a compare-and-swap.*)
(***************************************************************************)
EXTENDS Integers, FiniteSets

CONSTANTS
    Observers, Writers,  \* goroutines
    Nil,
    BufCap,              \* SummaryOpts.BufCap
    AgeBuckets,          \* SummaryOpts.AgeBuckets
    StreamDuration,      \* MaxAge / AgeBuckets
    MaxObservations, MaxWrites, MaxTime   \* bounds

ASSUME SummaryAssumption ==
    /\ BufCap \in Nat \ {0} /\ AgeBuckets \in Nat \ {0} /\ StreamDuration \in Nat \ {0}
    /\ {MaxObservations, MaxWrites, MaxTime} \subseteq Nat
    /\ IsFiniteSet(Observers)
    /\ Nil \notin Observers \cup Writers /\ Observers \cap Writers = {}

Procs == Observers \cup Writers
Observations == 1..MaxObservations
MaxAge == AgeBuckets * StreamDuration
Flusher == "flusher"   \* the goroutine of asyncFlush

ASSUME FlusherAssumption == Flusher \notin Procs \cup {Nil}

VARIABLES
    objectives,  \* SummaryOpts.Objectives is not empty
    now,
    pc,          \* the next step of each goroutine
    mine,        \* each observer's observation, and, without objectives, its counts
    at,          \* when each observation was made, 0 before
    bufMtx, mtx, \* who holds them
    hotBuf, coldBuf,
    streams, headStreamIdx, headStreamExpTime, hotBufExpTime,
    cnt,         \* of the summary with objectives; its sum is the same
    hotIdx, started, counts,   \* countAndHotIdx and counts, without objectives
    writes,
    calls,       \* history: the observations that had returned when each Write began
    out,         \* what each Write has found: count, sum, the head stream, when
    returned     \* history: observations that have returned

bufVars == <<hotBuf, coldBuf, hotBufExpTime>>
streamVars == <<streams, headStreamIdx, headStreamExpTime, cnt>>
freeVars == <<hotIdx, started, counts>>
callVars == <<writes, calls, out, returned>>
summaryVars == <<objectives, now, pc, mine, at, bufMtx, mtx, bufVars, streamVars,
                 freeVars, callVars>>

NoCounts == [count |-> 0, sum |-> 0]
Nothing == [count |-> 0, sum |-> 0, head |-> {}, now |-> 0]

\* newSummary
SummaryInit ==
    /\ objectives \in BOOLEAN
    /\ now = 0
    /\ pc = [p \in Procs |-> "rest"]
    /\ mine = [p \in Observers |-> [obs |-> 0, counts |-> 0]]
    /\ at = [o \in Observations |-> 0]
    /\ bufMtx = Nil /\ mtx = Nil
    /\ hotBuf = {} /\ coldBuf = {}
    /\ streams = [i \in 0..(AgeBuckets - 1) |-> {}] /\ headStreamIdx = 0
    /\ headStreamExpTime = StreamDuration /\ hotBufExpTime = StreamDuration
    /\ cnt = 0
    /\ hotIdx = 0 /\ started = 0 /\ counts = [i \in {0, 1} |-> NoCounts]
    /\ writes = 0
    /\ calls = [w \in Writers |-> 0] /\ out = [w \in Writers |-> Nothing]
    /\ returned = 0

Goto(p, l) == pc' = [pc EXCEPT ![p] = l]

Tick ==
    /\ objectives /\ now < MaxTime
    /\ now' = now + 1
    /\ UNCHANGED <<objectives, pc, mine, at, bufMtx, mtx, bufVars, streamVars, freeVars, callVars>>

-----------------------------------------------------------------------------
(* With objectives *)

\* Observe: bufMtx is taken, and the time looked up
Observe(p) ==
    /\ objectives /\ pc[p] = "rest" /\ bufMtx = Nil
    /\ \E o \in Observations :
        /\ o = Cardinality({x \in Observations : at[x] # 0}) + 1
        /\ at' = [at EXCEPT ![o] = now + 1]
        /\ mine' = [mine EXCEPT ![p].obs = o]
    /\ bufMtx' = p
    /\ Goto(p, IF now > hotBufExpTime THEN "expired" ELSE "append")
    /\ UNCHANGED <<objectives, now, mtx, bufVars, streamVars, freeVars, callVars>>

\* The expiration time of a buffer that is empty at t: the next one not passed
NextExp(t) == CHOOSE e \in {hotBufExpTime + k * StreamDuration : k \in 0..(MaxTime + 1)} :
                  t <= e /\ (e = hotBufExpTime \/ t > e - StreamDuration)

\* swapBufs
SwapBufs(t) ==
    /\ hotBuf' = coldBuf
    /\ coldBuf' = hotBuf
    /\ hotBufExpTime' = NextExp(t)

\* asyncFlush: waits for mtx, with bufMtx held, and leaves mtx to the goroutine. The time
\* is that of the observation.
AsyncFlush(p) ==
    /\ mtx = Nil
    /\ mtx' = Flusher
    /\ SwapBufs(at[mine[p].obs] - 1)

\* Observe, of a buffer that has expired
Expired(p) ==
    /\ pc[p] = "expired"
    /\ AsyncFlush(p)
    /\ Goto(p, "append")
    /\ UNCHANGED <<objectives, now, mine, at, bufMtx, streamVars, freeVars, callVars>>

\* Observe: the observation is appended; a buffer that is full has to be flushed
AppendToBuf(p) ==
    /\ pc[p] = "append"
    /\ hotBuf' = hotBuf \cup {mine[p].obs}
    /\ \/ /\ Cardinality(hotBuf') = BufCap
          /\ Goto(p, "full")
          /\ UNCHANGED <<bufMtx, returned>>
       \/ /\ Cardinality(hotBuf') # BufCap
          /\ Goto(p, "rest")
          /\ bufMtx' = Nil
          /\ returned' = returned + 1
    /\ UNCHANGED <<objectives, now, mine, at, mtx, coldBuf, hotBufExpTime, streamVars,
                   freeVars, writes, calls, out>>

Full(p) ==
    /\ pc[p] = "full"
    /\ AsyncFlush(p)
    /\ Goto(p, "rest")
    /\ bufMtx' = Nil
    /\ returned' = returned + 1
    /\ UNCHANGED <<objectives, now, mine, at, streamVars, freeVars, writes, calls, out>>

\* Mutation of Rotated: when streams are due, the head stream alone is reset, however late
\* the flush is.
Rotated_Once(s) ==
    IF hotBufExpTime = headStreamExpTime THEN s ELSE [s EXCEPT ![headStreamIdx] = {}]

\* maybeRotateStreams: every head stream up to the one the hot buffer expires with
\* is reset
Rotated(s) ==
    LET n == (hotBufExpTime - headStreamExpTime) \div StreamDuration
    IN [i \in DOMAIN s |-> IF \E k \in 0..(n - 1) : i = (headStreamIdx + k) % AgeBuckets
                           THEN {} ELSE s[i]]

RotatedIdx ==
    (headStreamIdx + (hotBufExpTime - headStreamExpTime) \div StreamDuration) % AgeBuckets

\* flushColdBuf: into every stream, before they are rotated
FlushColdBuf ==
    /\ streams' = Rotated([i \in DOMAIN streams |-> streams[i] \cup coldBuf])
    /\ headStreamIdx' = RotatedIdx
    /\ headStreamExpTime' = hotBufExpTime
    /\ cnt' = cnt + Cardinality(coldBuf)
    /\ coldBuf' = {}

\* Mutation of Flush: the goroutine ends without giving mtx back.
Flush_HoldsMtx ==
    /\ mtx = Flusher /\ coldBuf # {}
    /\ FlushColdBuf
    /\ UNCHANGED <<objectives, now, pc, mine, at, bufMtx, mtx, hotBuf, hotBufExpTime, freeVars, callVars>>

\* asyncFlush: its goroutine
Flush ==
    /\ mtx = Flusher
    /\ FlushColdBuf
    /\ mtx' = Nil
    /\ UNCHANGED <<objectives, now, pc, mine, at, bufMtx, hotBuf, hotBufExpTime, freeVars, callVars>>

\* Write: bufMtx, then
WriteBegin(w) ==
    /\ objectives /\ pc[w] = "rest" /\ writes < MaxWrites /\ bufMtx = Nil
    /\ writes' = writes + 1
    /\ calls' = [calls EXCEPT ![w] = returned]
    /\ bufMtx' = w
    /\ Goto(w, "swap")
    /\ UNCHANGED <<objectives, now, mine, at, mtx, bufVars, streamVars, freeVars, out, returned>>

\* Write: mtx, and the buffers are swapped
WriteSwap(w) ==
    /\ pc[w] = "swap" /\ mtx = Nil
    /\ SwapBufs(now)
    /\ mtx' = w /\ bufMtx' = Nil
    /\ Goto(w, "flush")
    /\ out' = [out EXCEPT ![w].now = now]
    /\ UNCHANGED <<objectives, now, mine, at, streamVars, freeVars, writes, calls, returned>>

\* Write: the cold buffer is flushed and the head stream read
WriteFlush(w) ==
    /\ pc[w] = "flush"
    /\ FlushColdBuf
    /\ mtx' = Nil
    /\ out' = [out EXCEPT ![w] = [count |-> cnt', sum |-> cnt', head |-> streams'[headStreamIdx'],
                                  now |-> @.now]]
    /\ Goto(w, "rest")
    /\ UNCHANGED <<objectives, now, mine, at, bufMtx, hotBuf, hotBufExpTime, freeVars,
                   writes, calls, returned>>

-----------------------------------------------------------------------------
(* Without objectives *)

\* Observe: countAndHotIdx tells which counts are hot
ObserveFree(p) ==
    /\ ~objectives /\ pc[p] = "rest" /\ started < MaxObservations
    /\ started' = started + 1
    /\ mine' = [mine EXCEPT ![p].counts = hotIdx]
    /\ Goto(p, "sum")
    /\ UNCHANGED <<objectives, now, at, bufMtx, mtx, bufVars, streamVars, hotIdx, counts, callVars>>

\* Mutation of AddSum: the observation is marked complete before its sum is in.
AddSum_CountFirst(p) ==
    /\ pc[p] = "sum"
    /\ counts' = [counts EXCEPT ![mine[p].counts].count = @ + 1]
    /\ Goto(p, "count")
    /\ UNCHANGED <<objectives, now, mine, at, bufMtx, mtx, bufVars, streamVars, hotIdx,
                   started, callVars>>

AddSum(p) ==
    /\ pc[p] = "sum"
    /\ counts' = [counts EXCEPT ![mine[p].counts].sum = @ + 1]
    /\ Goto(p, "count")
    /\ UNCHANGED <<objectives, now, mine, at, bufMtx, mtx, bufVars, streamVars, hotIdx,
                   started, callVars>>

\* The count last, as a signal that the observation is complete
AddCount(p) ==
    /\ pc[p] = "count"
    /\ counts' = [counts EXCEPT ![mine[p].counts].count = @ + 1]
    /\ returned' = returned + 1
    /\ Goto(p, "rest")
    /\ UNCHANGED <<objectives, now, mine, at, bufMtx, mtx, bufVars, streamVars, hotIdx,
                   started, writes, calls, out>>

\* Write: writeMtx, here mtx, and the hot index is switched
WriteFree(w) ==
    /\ ~objectives /\ pc[w] = "rest" /\ writes < MaxWrites /\ mtx = Nil
    /\ writes' = writes + 1
    /\ mtx' = w
    /\ calls' = [calls EXCEPT ![w] = returned]
    /\ hotIdx' = 1 - hotIdx
    /\ out' = [out EXCEPT ![w] = [Nothing EXCEPT !.count = started]]
    /\ Goto(w, "cool")
    /\ UNCHANGED <<objectives, now, mine, at, bufMtx, bufVars, streamVars, started, counts, returned>>

\* Write: awaits the cooldown, and reads the cold sum
Cool(w) ==
    /\ pc[w] = "cool"
    /\ counts[1 - hotIdx].count = out[w].count
    /\ out' = [out EXCEPT ![w].sum = counts[1 - hotIdx].sum]
    /\ Goto(w, "mergeCount")
    /\ UNCHANGED <<objectives, now, mine, at, bufMtx, mtx, bufVars, streamVars, freeVars,
                   writes, calls, returned>>

MergeCount(w) ==
    /\ pc[w] = "mergeCount"
    /\ counts' = [counts EXCEPT ![hotIdx].count = @ + out[w].count, ![1 - hotIdx].count = 0]
    /\ Goto(w, "mergeSum")
    /\ UNCHANGED <<objectives, now, mine, at, bufMtx, mtx, bufVars, streamVars, hotIdx,
                   started, callVars>>

MergeSum(w) ==
    /\ pc[w] = "mergeSum"
    /\ counts' = [counts EXCEPT ![hotIdx].sum = @ + out[w].sum, ![1 - hotIdx].sum = 0]
    /\ mtx' = Nil
    /\ Goto(w, "rest")
    /\ UNCHANGED <<objectives, now, mine, at, bufMtx, bufVars, streamVars, hotIdx, started, callVars>>

-----------------------------------------------------------------------------
Step(p) ==
    \/ p \in Observers /\ (Expired(p) \/ AppendToBuf(p) \/ Full(p) \/ AddSum(p) \/ AddCount(p))
    \/ p \in Writers /\ \/ WriteSwap(p) \/ WriteFlush(p)
                        \/ Cool(p) \/ MergeCount(p) \/ MergeSum(p)

SummaryNext ==
    \/ Tick
    \/ \E p \in Observers : Observe(p) \/ ObserveFree(p)
    \/ \E w \in Writers : WriteBegin(w) \/ WriteFree(w)
    \/ \E p \in Procs : Step(p)
    \/ Flush

\* The scheduler runs every goroutine that can go on
SummarySpec ==
    /\ SummaryInit /\ [][SummaryNext]_summaryVars
    /\ \A p \in Procs : WF_summaryVars(Step(p))
    /\ WF_summaryVars(Flush)

-----------------------------------------------------------------------------
(* Properties *)

\* The buffer swapped in is empty, where swapBufs panics if it is not, and the head
\* stream never expires after the hot buffer, where maybeRotateStreams would not end.
SwapReady ==
    /\ mtx = Nil => coldBuf = {}
    /\ headStreamExpTime <= hotBufExpTime
    /\ (hotBufExpTime - headStreamExpTime) % StreamDuration = 0

\* Write reports every observation that had returned before it was called, once, and
\* a sum of just the observations it counts.
WriteExact == \A w \in Writers :
    (pc[w] \in {"rest", "mergeCount", "mergeSum"} /\ writes > 0) =>
        /\ calls[w] <= out[w].count
        /\ out[w].count <= IF objectives THEN Cardinality({o \in Observations : at[o] # 0})
                                         ELSE started
        /\ out[w].count = out[w].sum

\* The quantiles Write reports are those of the observations of an age window: none
\* older than MaxAge, and all of the last MaxAge less one age bucket; the buffers and
\* streams are ready for it at all times.
Window == SwapReady /\ \A w \in Writers : pc[w] = "rest" =>
    /\ \A o \in out[w].head : at[o] - 1 >= out[w].now - MaxAge
    /\ \A o \in Observations :
        at[o] # 0 /\ o <= out[w].count /\ at[o] - 1 > out[w].now - (MaxAge - StreamDuration) => o \in out[w].head

\* Every Observe and every Write returns: neither waits for ever for the flush.
InCall(p) == pc[p] # "rest"
CallsReturn == \A p \in Procs : InCall(p) ~> ~InCall(p)
=============================================================================
