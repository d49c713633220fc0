----------------------------- MODULE MCServices -----------------------------
(***************************************************************************)
(* The components that share no state with the others, side by side: the    *)
(* exposition handler, the HTTP middlewares, the senders (remote write,     *)
(* Pushgateway, Graphite), the API client, descriptors and their label      *)
(* pairs, the diff of the test helpers, summaries, the exemplars and spans   *)
(* of histograms, the words of counters and gauges, curried vectors, and     *)
(* several gatherers as one. A behaviour is one of one of them, `which', and *)
(* the others stay as they begin.                                            *)
(***************************************************************************)
EXTENDS MetricHandler, Instrumentation, RemoteWrite, Pusher, GraphiteBridge, ApiClient,
        Descriptors, Difflib, Summary, HistogramOutput,
        ValueCells, CurriedVec, MergedGather, TLC

CONSTANTS o1, o2, w1   \* the goroutines that call the summary

VARIABLE which   \* the component that runs

-----------------------------------------------------------------------------
(* The exposition handler. *)

Opts(coalesce, max, timeout, mode) ==
    [coalesce |-> coalesce, max |-> max, timeout |-> timeout, mode |-> mode, openMetrics |-> FALSE,
     filters |-> {{"a"}}, badFamily |-> FALSE, hang |-> FALSE, switches |-> 0, requests |-> {1, 2}]

MCFamilies == <<"a", "b">>
MCHandlerSetups ==
    {[Opts(TRUE, 2, FALSE, "http") EXCEPT !.requests = Requests],
     [Opts(TRUE, 2, TRUE, "continue") EXCEPT !.hang = TRUE, !.badFamily = TRUE, !.filters = {{"a", "b"}}],
     [Opts(FALSE, 1, FALSE, "panic") EXCEPT !.badFamily = TRUE, !.openMetrics = TRUE,
                                            !.filters = {{"a", "b"}, {"a"}}],
     [Opts(FALSE, 1, TRUE, "http") EXCEPT !.badFamily = TRUE, !.openMetrics = TRUE],
     [Opts(TRUE, 0, FALSE, "panic") EXCEPT !.switches = 2]}

-----------------------------------------------------------------------------
(* The middlewares. *)

Vector(variable, curried, dynamic) == [variable |-> variable, curried |-> curried, dynamic |-> dynamic]
MCVectors == {Vector({}, {}, {}), Vector({"code", "method"}, {}, {}),
              Vector({"code", "method"}, {}, {"code"}), Vector({"code", "route"}, {}, {"route"}),
              Vector({"code", "route"}, {"route"}, {}), Vector({"route"}, {}, {}),
              Vector({"code"}, {}, {"route"})}
MCWriterOffers == {{}, {"flusher", "hijacker", "readerFrom"}, Interfaces}
MCLower == "GET" :> "get" @@ "Get" :> "get" @@ "foo" :> "foo" @@ "FOO" :> "foo"

-----------------------------------------------------------------------------
(* Remote write: the network, the receiver's answers, and cancelled callers. *)

Remote == [generic |-> FALSE, version |-> "v2", maxRetries |-> 2, retryOnRateLimit |-> TRUE,
           unreliable |-> FALSE, cancels |-> FALSE, body |-> "ok", accepts |-> {"v1", "v2"},
           forgets |-> FALSE, backoffMin |-> 1, backoffMax |-> 5, calls |-> {1}]
MCRemoteSetups ==
    {[Remote EXCEPT !.unreliable = TRUE],
     [Remote EXCEPT !.maxRetries = 1, !.calls = {1, 2}],
     [Remote EXCEPT !.version = "v1", !.retryOnRateLimit = FALSE, !.cancels = TRUE],
     [Remote EXCEPT !.version = "v1", !.maxRetries = 1, !.unreliable = TRUE, !.cancels = TRUE,
                    !.backoffMax = 1],
     [Remote EXCEPT !.version = "unknown"], [Remote EXCEPT !.accepts = {"v1"}]}
    \cup {[Remote EXCEPT !.body = b] : b \in {"encoding", "size", "corrupt"}}

-----------------------------------------------------------------------------
(* Pushgateway and Graphite. *)

MCPushCollectors == {[name |-> "a", label |-> "none"], [name |-> "b", label |-> "inst"]}
MCPushGatherers == {[name |-> "c", label |-> "none"]}

Bridge == [on |-> TRUE, url |-> TRUE, useTags |-> FALSE, prefix |-> <<>>, errorHandling |-> "continue",
           fails |-> TRUE, stalls |-> FALSE]
MCBridgeSetups ==
    {Bridge, [Bridge EXCEPT !.errorHandling = "abort", !.useTags = TRUE, !.prefix = <<"p">>],
     [Bridge EXCEPT !.stalls = TRUE, !.prefix = <<"p">>, !.errorHandling = "abort"],
     [Bridge EXCEPT !.errorHandling = "other"],
     [Bridge EXCEPT !.url = FALSE]}
MCSamples ==
    <<[name |-> <<"a", "_", "*">>, labels |-> <<>>],
      [name |-> <<"a">>, labels |-> <<[name |-> <<"l">>, value |-> <<"*", " ", "_">>],
                                      [name |-> <<"m">>, value |-> <<"a">>]>>]>>

-----------------------------------------------------------------------------
(* Descriptors: names that a prefix or a label can make the same, and values that hash
   to the same slot. *)

Desc(vars, consts) == [invalid |-> FALSE, fqName |-> <<"m">>, help |-> "h", unit |-> "",
                       vars |-> vars, consts |-> consts]
NoLabels == <<>>
MCDescs ==
    <<Desc(<<"a">>, NoLabels), Desc(<<"b">>, NoLabels), Desc(<<"a", "b">>, NoLabels),
      Desc(<<"a">>, "c" :> "1"), Desc(<<>>, "c" :> "1"), Desc(<<>>, "b" :> "1"),
      Desc(<<"c">>, "c" :> "1"), [Desc(<<>>, NoLabels) EXCEPT !.fqName = <<"bad">>],
      [Desc(<<>>, NoLabels) EXCEPT !.invalid = TRUE], Desc(<<>>, "a" :> "1" @@ "c" :> "1"),
      Desc(<<"bad">>, NoLabels), Desc(<<>>, "a" :> "bad"), Desc(<<"c">>, NoLabels)>>

Wrap(prefix, labels) == [prefix |-> prefix, labels |-> labels]
WrapA == Wrap(<<>>, "z" :> "1")
WrapB == Wrap(<<>>, "z" :> "2")
WrapC == Wrap(<<"p">>, "c" :> "2")
WrapD == Wrap(<<>>, "a" :> "2")
Job(desc, values, wraps) == [desc |-> desc, values |-> values, wraps |-> wraps]
MCJobs ==
    {Job(1, <<"1">>, w) : w \in {<<>>, <<WrapA>>, <<WrapB>>, <<WrapC, WrapB>>, <<WrapA, WrapB>>,
                                 <<Wrap(<<"p">>, NoLabels)>>, <<WrapD>>}}
    \cup {Job(2, <<"1">>, <<WrapA>>), Job(2, <<"2">>, <<>>), Job(3, <<"1", "2">>, <<WrapA>>),
          Job(4, <<"1">>, <<WrapB>>), Job(4, <<"1">>, <<WrapC>>), Job(7, <<"1">>, <<WrapA>>),
          Job(1, <<>>, <<>>), Job(1, <<"bad">>, <<>>), Job(11, <<"1">>, <<>>), Job(13, <<"1">>, <<>>)}
    \cup {Job(5, <<>>, w) : w \in {<<>>, <<WrapA>>, <<WrapB>>}}
    \cup {Job(k, <<>>, <<WrapA>>) : k \in {8, 9, 12}}
    \cup {Job(6, <<>>, <<WrapD>>), Job(8, <<>>, <<WrapC>>), Job(10, <<>>, <<>>)}
MCLabelOrder == <<"$a", "$b", "$c", "a", "b", "bad", "c", "z">>
MCDollar == "a" :> "$a" @@ "b" :> "$b" @@ "c" :> "$c"
MCLabelSlot ==
    [k \in {<<"a", "1">>, <<"b", "1">>, <<"b", "2">>, <<"a", "b", "1", "2">>, <<"a", "bad">>, <<"c", "1">>} |->
        IF k = <<"b", "2">> THEN 2 ELSE 1]

-----------------------------------------------------------------------------
(* Diffs: all short sequences, and some with lines that are popular. *)

UpTo(n) == UNION {[1 .. k -> {"x", "y"}] : k \in 0 .. n}
MCDiffPairs ==
    (UpTo(3) \X UpTo(3)) \cup
    {<<<<"x", "u", "v", "w", "y">>, <<"z", "u", "v", "w">>>>,
     <<<<"x", "u", "v", "w", "y", "x">>, <<"u", "v", "w", "z", "x">>>>,
     <<<<"x", "x", "x", "x", "y", "z">>, <<"y", "x", "x", "x", "x", "u">>>>}
MCReplacements == {<<"x", "y">>}

-----------------------------------------------------------------------------
(* Exemplars, with room for one to three native ones, and constant histograms. *)

Output == [buckets |-> <<4>>, native |-> TRUE, maxExemplars |-> 2, ttl |-> 1, values |-> {1, 2, 8},
           updates |-> 3, time |-> 2, reuse |-> {}, consts |-> {}, by |-> {1}, labels |-> {"valid"}]
MCSparse == {<<>>, -3 :> 2, -1 :> 1 @@ 1 :> 1 @@ 5 :> 3} \cup {0 :> 1 @@ k :> 2 : k \in {1, 3, 4, -2}}
MCConsts ==
    [pos : MCSparse, neg : {<<>>, -3 :> 2}, zero : {0, 1}, count : {0, 3, 5}, sumNaN : BOOLEAN,
     schema : {8, 9}, threshold : {0, 1}]
MCLogOf == 1 :> 0 @@ 2 :> 1 @@ 4 :> 2 @@ 8 :> 3 @@ 16 :> 4 @@ -1 :> NaNLog @@ 0 :> NegInf @@ NaNValue :> NaNLog
MCOutputSetups ==
    {Output,
     [Output EXCEPT !.native = FALSE, !.buckets = <<2, 4, PosInf>>, !.values = {2, 8}, !.updates = 2,
                    !.time = 0, !.reuse = BOOLEAN, !.by = {1, 2}, !.labels = {"valid", "none"}],
     [Output EXCEPT !.ttl = 9, !.maxExemplars = 3, !.values = {1, 2, 16}, !.updates = 4, !.time = 0],
     [Output EXCEPT !.maxExemplars = -1, !.reuse = {FALSE}, !.updates = 1, !.labels = {"valid", "invalid"}],
     [Output EXCEPT !.maxExemplars = 1, !.values = {1}, !.updates = 2],
     [Output EXCEPT !.ttl = Off, !.updates = 1], [Output EXCEPT !.ttl = -2, !.values = {2, 8}, !.time = 1],
     [Output EXCEPT !.ttl = 0, !.maxExemplars = 0, !.values = {2}],
     [Output EXCEPT !.values = {-1, 0, 2, NaNValue}, !.time = 0],
     [Output EXCEPT !.by = {1, 2}, !.values = {2, 8}, !.updates = 2, !.time = 0],
     [Output EXCEPT !.consts = MCConsts, !.updates = 0, !.time = 0]}

-----------------------------------------------------------------------------
(* A counter, then a gauge, with values that are integers and ones that are not. *)

AddTo(v, l) == [op |-> "counter", v |-> v, labels |-> l]
OnGauge(op, v) == [op |-> op, v |-> v, labels |-> "none"]
MCCellSetups ==
    {<<<<AddTo(1, "valid"), AddTo(8, "none")>>, <<AddTo(2, "valid"), AddTo(-4, "none"), AddTo(16, "invalid")>>>>,
     <<<<OnGauge("add", 4), OnGauge("set", 8)>>, <<OnGauge("add", -4), OnGauge("add", 1)>>>>}

-----------------------------------------------------------------------------
(* A vector of three labels, one with a constraint, and hashes that collide. *)

MCVarNames == <<"a", "b", "c">>
MCConstrainTo == "b" :> ("Y" :> "y")
MCVecHash(vs) == IF vs[3] = "Y" THEN 2 ELSE 1
MCValueLists == {<<>>, <<"x">>, <<"Y">>, <<"x", "Y">>, <<"Y", "bad">>, <<"Y", "Y", "x">>, <<"x", "Y", "Y">>}
MCLabelMaps ==
    {"a" :> "x", "b" :> "Y", "z" :> "x", "b" :> "Y" @@ "c" :> "Y", "a" :> "Y" @@ "c" :> "x"}
    \cup {"a" :> "x" @@ "b" :> "x" @@ "z" :> "x"} \cup {"a" :> "x" @@ "b" :> v @@ "c" :> "Y" : v \in {"Y", "bad"}}

-----------------------------------------------------------------------------
(* Three gatherers, whose families differ in help or type, collide by a suffix, or have
   metrics in common. *)

Family(name, type, metrics) == [name |-> name, help |-> "h", type |-> type, metrics |-> metrics]
MCGiven ==
    {<<>>, <<Family("a", "histogram", <<1>>), Family("b", "counter", <<1, 2>>)>>,
     <<Family("a_count", "counter", <<1>>), Family("b", "counter", <<2, 3>>)>>,
     <<Family("a", "summary", <<2>>), Family("a_bucket", "counter", <<1>>)>>,
     <<Family("a", "histogram", <<9, 2>>), [Family("b", "counter", <<1>>) EXCEPT !.help = "other"]>>,
     <<Family("a", "summary", <<9>>), Family("b", "counter", <<9>>)>>}
MCGatherings == [i \in 1 .. 3 |-> [mfs : MCGiven, err : BOOLEAN]]
MCNameOrder == <<"a", "a_bucket", "a_count", "b">>
MCMagicNames == {<<"a_bucket", "a", "bucket">>, <<"a_count", "a", "count">>}

-----------------------------------------------------------------------------
Components == {"handler", "middlewares", "remote", "pusher", "bridge", "client",
               "descriptors", "diff", "summary", "histogram", "cells", "curried", "merged"}

Some(S) == CHOOSE x \in S : TRUE

\* What differs from one start to another is looked at only where it is used.
ServicesInit ==
    /\ which \in Components
    /\ HandlerInit /\ (which = "handler" \/ opts = Some(HandlerSetups))
    /\ InstrumentInit
    /\ which = "middlewares" \/ (vec = Some(Vectors) /\ method = Some(Methods) /\ writer.offers = {})
    /\ RemoteInit /\ (which = "remote" \/ rw = Some(RemoteSetups))
    /\ PusherInit /\ (which = "pusher" \/ ~pusher.error)
    /\ BridgeInit /\ (which = "bridge" \/ bridge = Bridge)
    /\ ApiInit /\ (which = "client" \/ ask.endpoint = Some(Endpoints))
    /\ LabelInit
    /\ DiffInit /\ (which = "diff" \/ (<<matcher.a, matcher.b>> = <<<<>>, <<>>>> /\ matcher.junk = {}))
    /\ SummaryInit /\ (which = "summary" \/ objectives)
    /\ OutputInit /\ (which = "histogram" \/ hist = Output)
    /\ CellInit /\ (which = "cells" \/ cellCalls = Some(CellSetups))
    /\ CurryInit
    /\ MergeInit /\ (which = "merged" \/ merge = Some(MergeModes))

Rest(c) ==
    /\ which = c
    /\ UNCHANGED which
    /\ c # "handler" => UNCHANGED hVars
    /\ c # "middlewares" => UNCHANGED iVars
    /\ c # "remote" => UNCHANGED rVars
    /\ c # "pusher" => UNCHANGED pVars
    /\ c # "bridge" => UNCHANGED bVars
    /\ c # "client" => UNCHANGED aVars
    /\ c # "descriptors" => UNCHANGED labelVars
    /\ c # "diff" => UNCHANGED dVars
    /\ c # "summary" => UNCHANGED summaryVars
    /\ c # "histogram" => UNCHANGED outputVars
    /\ c # "cells" => UNCHANGED cellVars
    /\ c # "curried" => UNCHANGED curryVars
    /\ c # "merged" => UNCHANGED mergeVars

ServicesNext ==
    \/ which = "handler" /\ HandlerNext /\ Rest("handler")
    \/ which = "middlewares" /\ InstrumentNext /\ Rest("middlewares")
    \/ which = "remote" /\ RemoteNext /\ Rest("remote")
    \/ which = "pusher" /\ PusherNext /\ Rest("pusher")
    \/ which = "bridge" /\ BridgeNext /\ Rest("bridge")
    \/ which = "client" /\ ApiNext /\ Rest("client")
    \/ which = "descriptors" /\ LabelNext /\ Rest("descriptors")
    \/ which = "diff" /\ DiffNext /\ Rest("diff")
    \/ which = "summary" /\ SummaryNext /\ Rest("summary")
    \/ which = "histogram" /\ OutputNext /\ Rest("histogram")
    \/ which = "cells" /\ CellNext /\ Rest("cells")
    \/ which = "curried" /\ CurryNext /\ Rest("curried")
    \/ which = "merged" /\ MergeNext /\ Rest("merged")

servicesVars ==
    <<which, hVars, iVars, rVars, pVars, bVars, aVars, labelVars, dVars, summaryVars, outputVars,
      cellVars, curryVars, mergeVars>>

\* The variables of the component that runs.
RunningVars ==
    CASE which = "handler" -> hVars [] which = "middlewares" -> iVars [] which = "remote" -> rVars
      [] which = "pusher" -> pVars [] which = "bridge" -> bVars [] which = "client" -> aVars
      [] which = "descriptors" -> labelVars [] which = "diff" -> dVars [] which = "summary" -> summaryVars
      [] which = "histogram" -> outputVars [] which = "cells" -> cellVars
      [] which = "curried" -> curryVars [] which = "merged" -> mergeVars

\* Its goroutines, by number: the fairness that its own specification asks for.
SummaryProc == <<o1, w1, o2>>
GoesOn(k) ==
    /\ UNCHANGED which
    /\ \/ which = "handler" /\ k \in Requests /\ HandlerGoesOn(k)
       \/ which = "remote" /\ k \in Calls /\ CallGoesOn(k)
       \/ which = "remote" /\ k = 3 /\ NetworkGoesOn
       \/ which = "bridge" /\ k = 1 /\ BridgeStep
       \/ which = "client" /\ k = 1 /\ CallerGoesOn
       \/ which = "client" /\ k = 2 /\ BodyRead
       \/ which = "summary" /\ k \in 1 .. 3 /\ Step(SummaryProc[k])
       \/ which = "summary" /\ k = 4 /\ Flush
       \/ which = "cells" /\ k \in CellUsers /\ UserStep(k)

ServicesSpec ==
    ServicesInit /\ [][ServicesNext]_servicesVars /\ \A k \in 1 .. 4 : WF_RunningVars(GoesOn(k))

-----------------------------------------------------------------------------
(* Properties of several components, which hold of each where they are defined. *)

\* What a scrape is given, by the handler and by several gatherers, is consistent, and what
\* is missing is reported.
ScrapesHonest == Honest /\ MergeSound

\* The senders and the API client tell their caller what became of the request.
ClientsHonest == BridgeKeeps /\ ApiHonest

\* Labels: descriptors, label pairs, wrapping, and the label values of vectors.
DescriptorsHold == LabelsIntact /\ DescIdentity /\ CurriedIsSame

\* What is told to a metric is in what it writes: exemplars, spans, counters and gauges.
MetricsWritten == HistogramWrites /\ CellsExact

\* Whoever calls one of the components gets an answer, or is cut off: HTTP requests,
\* remote writes, Run of the bridge, calls of the API, of a summary, a counter or a gauge
\* (AllAnswered, RemoteReturns, BridgeStops, ApiReturns, CallsReturn and CellsReturn, by
\* the number of the caller). The third HTTP request and the second observer are like
\* the first but for the name, so that two callers stand for all.
Waits(k) ==
    CASE which = "handler" -> Unanswered(k)
      [] which = "remote" -> k \in Calls /\ Underway(k)
      [] which = "bridge" -> Stopping
      [] which = "client" -> IF k = 1 THEN Asking ELSE Reading
      [] which = "summary" -> InCall(SummaryProc[k])
      [] which = "cells" -> k \in CellUsers /\ InCell(k)
      [] OTHER -> FALSE
AllReturn == \A k \in 1 .. 2 : Waits(k) ~> ~Waits(k)
=============================================================================
