--------------------------- MODULE MetricHandler ---------------------------
(***************************************************************************)
(* The handler that serves the metrics of a gatherer, as Handler assembles  *)
(* it: the instrumentation of InstrumentMetricHandler around the handler of *)
(* HandlerForTransactional, with its limit of requests in flight, its       *)
(* timeout, its three ways of handling errors, the gatherer that coalesces  *)
(* concurrent gathers, and the delta endpoint that may take a request over. *)
(*                                                                          *)
(* A request is served once. Its goroutine takes one step for each section  *)
(* between two points where others may run: a lock, a channel, a call of    *)
(* the gatherer, a write of one family. With a timeout, net/http runs the   *)
(* handler in a second goroutine, which goes on after the client was told   *)
(* of the timeout: `outer' is where the first one is, `pc' the second.      *)
(***************************************************************************)
EXTENDS Naturals, Sequences, FiniteSets

CONSTANTS
    Requests,       \* the requests
    Families,       \* what a gather returns: a sequence of families
    HandlerSetups   \* the options (HandlerOpts), and what may go wrong

ASSUME RequestsAssumption == IsFiniteSet(Requests)

VARIABLES
    opts,      \* the options of the handler
    endpoint,  \* delta.endpoint is set
    switches,  \* how often the endpoint was set or cleared
    req,       \* the requests: where they are and what they hold
    slots,     \* len(inFlightSem)
    current,   \* coalescingGatherer.cycle, 0 for nil
    cycles,    \* the gathers so far: the gatherCycle, and how often its done was called
    stats      \* the metrics of the handler: in flight, requests by code, errors by cause

hVars == <<opts, endpoint, switches, req, slots, current, cycles, stats>>

\* A response that has no status yet is sent with status 200.
NoResponse == [status |-> 0, body |-> <<>>]
Failure(code) == [status |-> code, body |-> <<>>]

NewRequest == [pc |-> "idle", outer |-> "idle", rsp |-> NoResponse, sent |-> NoResponse,
               todo |-> <<>>, cyc |-> 0, holds |-> FALSE, panics |-> FALSE]

Codes == {200, 500, 503}

HandlerInit ==
    /\ opts \in HandlerSetups
    /\ endpoint = FALSE
    /\ switches = 0
    /\ req = [r \in Requests |-> NewRequest]
    /\ slots = 0
    /\ current = 0
    /\ cycles = <<>>
    /\ stats = [inFlight |-> 0, requests |-> [c \in Codes |-> 0], gathering |-> 0, encoding |-> 0]

At(r, l) == req[r].pc = l
Proceed(r, l) == req' = [req EXCEPT ![r].pc = l]

-----------------------------------------------------------------------------
(* The delta endpoint, switched on and off while requests are served. *)

EnableDelta ==
    /\ ~endpoint /\ switches < opts.switches
    /\ endpoint' = TRUE
    /\ switches' = switches + 1
    /\ UNCHANGED <<opts, req, slots, current, cycles, stats>>

DisableDelta ==
    /\ endpoint /\ switches < opts.switches
    /\ endpoint' = FALSE
    /\ switches' = switches + 1
    /\ UNCHANGED <<opts, req, slots, current, cycles, stats>>

-----------------------------------------------------------------------------
(* The request, up to the gather. *)

\* InstrumentHandlerInFlight counts the request before the handler runs.
Arrive(r) ==
    /\ req[r].outer = "idle" /\ r \in opts.requests
    /\ req' = [req EXCEPT ![r].outer = "serving", ![r].pc = "begin"]
    /\ stats' = [stats EXCEPT !.inFlight = @ + 1]
    /\ UNCHANGED <<opts, endpoint, switches, slots, current, cycles>>

\* With the endpoint set, the exposer takes the request unless it asks for the
\* cumulative values. It writes its exposition, or fails and cuts the connection.
ServeIfRequested(r) ==
    /\ At(r, "begin") /\ endpoint
    /\ \/ req' = [req EXCEPT ![r].rsp = [status |-> 200, body |-> <<"delta">>], ![r].pc = "end"]
       \/ req' = [req EXCEPT ![r].panics = TRUE, ![r].pc = "end"]
    /\ UNCHANGED <<opts, endpoint, switches, slots, current, cycles, stats>>

\* At the limit the request is refused at once. Without a limit there is no semaphore.
Acquire(r) ==
    /\ At(r, "begin")
    /\ \/ /\ opts.max = 0
          /\ Proceed(r, "gather") /\ UNCHANGED slots
       \/ /\ opts.max > 0 /\ slots < opts.max
          /\ slots' = slots + 1
          /\ req' = [req EXCEPT ![r].holds = TRUE, ![r].pc = "gather"]
       \/ /\ opts.max > 0 /\ slots = opts.max
          /\ req' = [req EXCEPT ![r].rsp = Failure(503), ![r].pc = "end"]
          /\ UNCHANGED slots
    /\ UNCHANGED <<opts, endpoint, switches, current, cycles, stats>>

-----------------------------------------------------------------------------
(* coalescingGatherer. Without it every request has a cycle of its own.     *)

NewCycle == [ready |-> FALSE, running |-> TRUE, err |-> FALSE, mfs |-> <<>>, refs |-> 1, closed |-> 0]

\* A cycle is there while its gather runs and while a handler uses the result.
Join(r) ==
    /\ At(r, "gather") /\ opts.coalesce /\ current # 0
    /\ cycles' = [cycles EXCEPT ![current].refs = @ + 1]
    /\ req' = [req EXCEPT ![r].cyc = current, ![r].pc = "wait"]
    /\ UNCHANGED <<opts, endpoint, switches, slots, current, stats>>

Lead(r) ==
    /\ At(r, "gather") /\ (opts.coalesce => current = 0)
    /\ cycles' = Append(cycles, NewCycle)
    /\ current' = IF opts.coalesce THEN Len(cycles') ELSE 0
    /\ req' = [req EXCEPT ![r].cyc = Len(cycles'), ![r].pc = "collect"]
    /\ UNCHANGED <<opts, endpoint, switches, slots, stats>>

\* What the gatherer may return: all families; an error, with some families or none.
Outcomes == {[err |-> FALSE, mfs |-> Families]} \cup
            [err : {TRUE}, mfs : {<<>>, SubSeq(Families, 1, 1)}]

Collected(r) ==
    /\ At(r, "collect")
    /\ \E o \in Outcomes :
         cycles' = [cycles EXCEPT ![req[r].cyc] =
                      [@ EXCEPT !.ready = TRUE, !.running = FALSE, !.err = o.err, !.mfs = o.mfs]]
    /\ Proceed(r, "gathered")
    /\ UNCHANGED <<opts, endpoint, switches, slots, current, stats>>

Detached(c) == IF current = c THEN 0 ELSE current

\* The gatherer panics: the deferred function detaches the cycle under the lock.
\* The leader never gets to release its reference.
CollectPanics(r) ==
    /\ At(r, "collect")
    /\ cycles' = [cycles EXCEPT ![req[r].cyc].running = FALSE]
    /\ current' = Detached(req[r].cyc)
    /\ req' = [req EXCEPT ![r].panics = TRUE, ![r].pc = "fail"]
    /\ UNCHANGED <<opts, endpoint, switches, slots, stats>>

\* Mutation of Failed: the error is forgotten.
Failed_Empty(c) == [c EXCEPT !.ready = TRUE]
\* Mutation of Failed: those who joined are left waiting.
Failed_Waits(c) == [c EXCEPT !.err = TRUE]
\* A cycle whose gatherer panicked fails those that joined it.
Failed(c) == [c EXCEPT !.err = TRUE, !.ready = TRUE]

FailJoined(r) ==
    /\ At(r, "fail")
    /\ cycles' = [cycles EXCEPT ![req[r].cyc] = Failed(@)]
    /\ Proceed(r, "free")
    /\ UNCHANGED <<opts, endpoint, switches, slots, current, stats>>

Joined(r) ==
    /\ At(r, "wait") /\ cycles[req[r].cyc].ready
    /\ Proceed(r, "gathered")
    /\ UNCHANGED <<opts, endpoint, switches, slots, current, cycles, stats>>

-----------------------------------------------------------------------------
(* The response. *)

\* The families whose name the request asks for; all of them without name[].
Filtered(mfs, names) == SelectSeq(mfs, LAMBDA f : f \in names)

\* OpenMetrics ends with a line of its own.
ToEncode(mfs, names) == Filtered(mfs, names) \o IF opts.openMetrics THEN <<"# EOF">> ELSE <<>>

Encoding(r, mfs) ==
    \E names \in opts.filters :
        req' = [req EXCEPT ![r].todo = ToEncode(mfs, names), ![r].pc = "encode"]

\* httpError, as no header was written yet.
Refused(r) == req' = [req EXCEPT ![r].rsp = Failure(500), ![r].pc = "release"]

\* The error of the gather, and how the options have it handled.
Gathered(r) ==
    LET c == cycles[req[r].cyc] IN
    /\ At(r, "gathered")
    /\ stats' = [stats EXCEPT !.gathering = @ + (IF c.err THEN 1 ELSE 0)]
    /\ \/ /\ ~c.err \/ (opts.mode = "continue" /\ c.mfs # <<>>)
          /\ Encoding(r, c.mfs)
       \/ /\ c.err /\ opts.mode = "panic"
          /\ req' = [req EXCEPT ![r].panics = TRUE, ![r].pc = "release"]
       \/ /\ c.err /\ (opts.mode = "http" \/ (opts.mode = "continue" /\ c.mfs = <<>>))
          /\ Refused(r)
    /\ UNCHANGED <<opts, endpoint, switches, slots, current, cycles>>

\* The header goes out with the first write.
Write(r) == req' = [req EXCEPT ![r].rsp = [status |-> 200, body |-> Append(@.body, Head(req[r].todo))],
                               ![r].todo = Tail(@)]

Encode(r) ==
    /\ At(r, "encode") /\ req[r].todo # <<>>
    /\ Write(r)
    /\ UNCHANGED <<opts, endpoint, switches, slots, current, cycles, stats>>

\* Encoding fails on a family, and on every write after the timeout. The header may
\* be out already, so all that can be done is to stop, to go on or to panic.
EncodeFails(r) ==
    /\ At(r, "encode") /\ req[r].todo # <<>>
    /\ opts.badFamily \/ req[r].outer = "finished"
    /\ stats' = [stats EXCEPT !.encoding = @ + 1]
    /\ \/ opts.mode = "panic" /\ req' = [req EXCEPT ![r].panics = TRUE, ![r].pc = "release"]
       \/ opts.mode = "http" /\ Proceed(r, "release")
       \/ opts.mode = "continue" /\ req' = [req EXCEPT ![r].todo = Tail(@)]
    /\ UNCHANGED <<opts, endpoint, switches, slots, current, cycles>>

Encoded(r) ==
    /\ At(r, "encode") /\ req[r].todo = <<>>
    /\ Proceed(r, "release")
    /\ UNCHANGED <<opts, endpoint, switches, slots, current, cycles, stats>>

-----------------------------------------------------------------------------
(* The deferred calls, whether the handler returns or panics. *)

\* releaseFunc: the last to release detaches the cycle and, without the lock, is
\* done with the families.
Release(r) ==
    LET c == req[r].cyc IN
    /\ At(r, "release")
    /\ cycles' = [cycles EXCEPT ![c].refs = @ - 1]
    /\ IF cycles[c].refs > 1
       THEN Proceed(r, "free") /\ UNCHANGED current
       ELSE Proceed(r, "done") /\ current' = Detached(c)
    /\ UNCHANGED <<opts, endpoint, switches, slots, stats>>

Done(r) ==
    /\ At(r, "done")
    /\ cycles' = [cycles EXCEPT ![req[r].cyc].closed = @ + 1]
    /\ Proceed(r, "free")
    /\ UNCHANGED <<opts, endpoint, switches, slots, current, stats>>

\* Mutation of Freed: not in a deferred call.
Freed_OnReturn(r) == IF req[r].holds /\ ~req[r].panics THEN slots - 1 ELSE slots
Freed(r) == IF req[r].holds THEN slots - 1 ELSE slots

FreeSlot(r) ==
    /\ At(r, "free")
    /\ slots' = Freed(r)
    /\ req' = [req EXCEPT ![r].holds = FALSE, ![r].pc = "end"]
    /\ UNCHANGED <<opts, endpoint, switches, current, cycles, stats>>

-----------------------------------------------------------------------------
(* The instrumentation, and the timeout of net/http. *)

StatusOf(rs) == IF rs.status = 0 THEN 200 ELSE rs.status

\* A request is counted by the status its client was sent, unless it panicked.
Answer(r, rs) ==
    /\ req' = [req EXCEPT ![r].sent = [rs EXCEPT !.status = StatusOf(rs)], ![r].outer = "finished"]
    /\ stats' = [stats EXCEPT !.inFlight = @ - 1, !.requests[StatusOf(rs)] = @ + 1]

Returned(r) ==
    /\ At(r, "end") /\ req[r].outer = "serving" /\ ~req[r].panics
    /\ Answer(r, req[r].rsp)
    /\ UNCHANGED <<opts, endpoint, switches, slots, current, cycles>>

\* The panic cuts the connection. What was written to it without a timeout is out.
Panicked(r) ==
    /\ At(r, "end") /\ req[r].outer = "serving" /\ req[r].panics
    /\ req' = [req EXCEPT ![r].outer = "aborted"]
    /\ stats' = [stats EXCEPT !.inFlight = @ - 1]
    /\ UNCHANGED <<opts, endpoint, switches, slots, current, cycles>>

\* http.TimeoutHandler answers for the handler and lets it go on.
TimedOut(r) ==
    /\ opts.timeout /\ req[r].outer = "serving"
    /\ Answer(r, Failure(503))
    /\ UNCHANGED <<opts, endpoint, switches, slots, current, cycles>>

-----------------------------------------------------------------------------
Collect(r) == Collected(r) \/ CollectPanics(r)

Handle(r) ==
    \/ ServeIfRequested(r) \/ Acquire(r) \/ Join(r) \/ Lead(r)
    \/ FailJoined(r) \/ Joined(r) \/ Gathered(r)
    \/ Encode(r) \/ EncodeFails(r) \/ Encoded(r)
    \/ Release(r) \/ Done(r) \/ FreeSlot(r)
    \/ Returned(r) \/ Panicked(r)

HandlerNext ==
    \/ EnableDelta \/ DisableDelta
    \/ \E r \in Requests : Arrive(r) \/ Collect(r) \/ Handle(r) \/ TimedOut(r)

\* The goroutines of a request go on when they can, and its timer fires. Collectors
\* return, except where the options say that they may hang.
HandlerGoesOn(r) == Handle(r) \/ TimedOut(r) \/ (~opts.hang /\ Collect(r))
HandlerSpec == HandlerInit /\ [][HandlerNext]_hVars /\ \A r \in Requests : WF_hVars(HandlerGoesOn(r))

-----------------------------------------------------------------------------
Served == {r \in Requests : req[r].outer \in {"finished", "aborted"}}
Running == {r \in Requests : req[r].pc \notin {"idle", "end"}}

\* Nobody writes families whose gather was declared done, done is declared once, and
\* with coalescing one gather runs at a time (HandlerForTransactional, releaseFunc).
FamiliesHeld ==
    /\ \A r \in Requests : At(r, "encode") => cycles[req[r].cyc].closed = 0
    /\ \A c \in DOMAIN cycles : cycles[c].closed <= 1
    /\ opts.coalesce => Cardinality({c \in DOMAIN cycles : cycles[c].running}) <= 1

\* Once all goroutines have ended - panics, refusals and timeouts included - no slot,
\* cycle or gather is left open, and the metrics say what the clients were told; and
\* until then the families are held for those who write them.
NothingLeft ==
    /\ FamiliesHeld
    /\ Running = {} /\ (\A r \in Requests : req[r].outer # "serving") =>
        /\ slots = 0 /\ current = 0 /\ stats.inFlight = 0
        /\ \A c \in DOMAIN cycles : cycles[c].ready /\ (cycles[c].refs = 0 <=> cycles[c].closed = 1)
        /\ \A k \in Codes :
             stats.requests[k] = Cardinality({r \in Served : req[r].sent.status = k})

\* A client that is told 200 got what one gather returned: all families it asked for,
\* up to those an encoding error was counted for, and never those of a gather that
\* failed, unless errors are to be ignored. In particular those who joined a gather
\* that panicked are not told that there are no metrics.
GoodCycle(c) ==
    /\ c \in DOMAIN cycles /\ cycles[c].ready
    /\ IF cycles[c].err THEN opts.mode = "continue" /\ cycles[c].mfs # <<>>
                        ELSE cycles[c].mfs = Families
ToldMetrics(r) == req[r].sent.status = 200 /\ req[r].sent.body # <<"delta">>
OneGather == \A r \in Requests : ToldMetrics(r) => GoodCycle(req[r].cyc)
AllWritten ==
    \A r \in Requests : ToldMetrics(r) /\ stats.encoding = 0 =>
        \E names \in opts.filters : req[r].sent.body = ToEncode(cycles[req[r].cyc].mfs, names)
Honest == OneGather /\ AllWritten

\* Every request is answered or cut off; with a timeout, even if a collector hangs.
Unanswered(r) == req[r].outer = "serving"
AllAnswered == \A r \in Requests : Unanswered(r) ~> ~Unanswered(r)

-----------------------------------------------------------------------------
(* The inductive invariant behind NothingLeft and OneGather *)

PcLabels == {"idle", "begin", "gather", "collect", "wait", "fail", "gathered", "encode",
             "release", "done", "free", "end"}
Statuses == Codes \cup {0}

\* What a gather may return, and what a cycle is.
FamilySeqs == {<<>>, Families, SubSeq(Families, 1, 1)}
Cycle == [ready : BOOLEAN, running : BOOLEAN, err : BOOLEAN, mfs : FamilySeqs, refs : Nat,
          closed : Nat]

\* A request is a record of these fields; bodies are any sequences.
IsRequest(q) ==
    /\ DOMAIN q = {"pc", "outer", "rsp", "sent", "todo", "cyc", "holds", "panics"}
    /\ DOMAIN q.rsp = {"status", "body"} /\ DOMAIN q.sent = {"status", "body"}
    /\ q.pc \in PcLabels /\ q.outer \in {"idle", "serving", "finished", "aborted"}
    /\ q.rsp.status \in Statuses /\ q.sent.status \in Statuses
    /\ q.cyc \in Nat /\ q.holds \in BOOLEAN /\ q.panics \in BOOLEAN

\* The metrics of the handler.
StatCounts == [inFlight : Nat, requests : [Codes -> Nat], gathering : Nat, encoding : Nat]

HandlerTypes ==
    /\ opts \in HandlerSetups /\ endpoint \in BOOLEAN /\ switches \in Nat
    /\ req = [r \in Requests |-> req[r]] /\ \A r \in Requests : IsRequest(req[r])
    /\ slots \in Nat /\ current \in 0 .. Len(cycles) /\ cycles \in Seq(Cycle)
    /\ stats \in StatCounts

\* The semaphore and the metrics count requests.
Holders == {r \in Requests : req[r].holds}
Serving == {r \in Requests : req[r].outer = "serving"}
ToldStatus(k) == {r \in Requests : req[r].sent.status = k}
CountsKept ==
    /\ slots = Cardinality(Holders)
    /\ stats.inFlight = Cardinality(Serving)
    /\ \A k \in Codes : stats.requests[k] = Cardinality(ToldStatus(k))

\* Where a request is, and what it has then.
LeadingOne(r) == req[r].pc \in {"collect", "fail"}
InCycle == {"collect", "wait", "gathered", "encode", "release"}
PlaceKept(r) ==
    /\ req[r].holds => req[r].pc \notin {"idle", "begin", "end"}
    /\ req[r].pc = "idle" <=> req[r].outer = "idle"
    /\ req[r].sent.status # 0 => req[r].outer = "finished"
    /\ req[r].outer = "finished" => req[r].sent.status # 0
    /\ req[r].cyc \in 0 .. Len(cycles)
    /\ req[r].pc \in InCycle \cup {"fail", "done"} => req[r].cyc \in DOMAIN cycles
    /\ LeadingOne(r) => ~cycles[req[r].cyc].ready
    /\ req[r].pc \in {"gathered", "encode", "release", "done"} => cycles[req[r].cyc].ready
    /\ req[r].pc = "collect" => cycles[req[r].cyc].running
    /\ req[r].pc = "fail" => req[r].panics
OneLeader ==
    \A r, q \in Requests : LeadingOne(r) /\ LeadingOne(q) /\ req[r].cyc = req[q].cyc => r = q
PlacesKept == (\A r \in Requests : PlaceKept(r)) /\ OneLeader

\* The references of a cycle are those of the requests in it; a leader whose gather
\* panicked keeps its own for ever. The last to release is done with it, once.
UsersOf(c) == {r \in Requests : req[r].cyc = c /\ req[r].pc \in InCycle}
Finishing(r, c) == req[r].cyc = c /\ req[r].pc = "done"
RefsKept(c) ==
    /\ \/ cycles[c].refs = Cardinality(UsersOf(c))
       \/ cycles[c].refs = Cardinality(UsersOf(c)) + 1 /\ ~cycles[c].running /\ current # c
    /\ cycles[c].refs > 0 => cycles[c].closed = 0 /\ \A r \in Requests : ~Finishing(r, c)
    /\ cycles[c].refs = 0 =>
        \/ cycles[c].closed = 1 /\ \A r \in Requests : ~Finishing(r, c)
        \/ /\ cycles[c].closed = 0
           /\ \E r \in Requests : Finishing(r, c) /\ \A q \in Requests : Finishing(q, c) => q = r
CycleKept(c) ==
    /\ cycles[c].running => \E r \in Requests : req[r].cyc = c /\ req[r].pc = "collect"
    /\ cycles[c].ready \/ \E r \in Requests : req[r].cyc = c /\ LeadingOne(r)
    /\ cycles[c].ready /\ ~cycles[c].err => cycles[c].mfs = Families
    /\ opts.coalesce /\ cycles[c].running => current = c
    /\ current = c => cycles[c].refs > 0
CyclesKept == \A c \in DOMAIN cycles : RefsKept(c) /\ CycleKept(c)

\* A response that may be sent with status 200 is of a gather that may be shown.
Answering(r) == /\ req[r].pc \in {"release", "done", "free", "end"} /\ ~req[r].panics
                /\ req[r].rsp.status \in {0, 200} /\ req[r].rsp.body # <<"delta">>
AnswerKept(r) ==
    /\ req[r].pc = "encode" => GoodCycle(req[r].cyc)
    /\ Answering(r) => GoodCycle(req[r].cyc)
    /\ ToldMetrics(r) => req[r].pc = "end" /\ GoodCycle(req[r].cyc)
AnswersKept == \A r \in Requests : AnswerKept(r)

HandlerInv == HandlerTypes /\ CountsKept /\ PlacesKept /\ CyclesKept /\ AnswersKept
=============================================================================
