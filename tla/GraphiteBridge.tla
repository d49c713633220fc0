--------------------------- MODULE GraphiteBridge ---------------------------
(***************************************************************************)
(* graphite.Bridge: Run pushes what its gatherer returns to a Graphite      *)
(* server, one connection for each tick of the ticker, one line for each    *)
(* sample. The gather, the dial and every write may fail; the server may    *)
(* stop reading, in which case nothing bounds the write: the timeout of the *)
(* configuration is that of the dial.                                       *)
(***************************************************************************)
EXTENDS Naturals, Sequences, SequencesExt

CONSTANTS
    Samples,       \* what a gather returns: a sequence of [name, labels]
    ValidRunes,    \* the characters that are allowed in a path
    BridgeSetups,  \* the configuration, and what may go wrong
    MaxTicks       \* bound on the ticks

VARIABLES
    bridge,     \* the configuration
    bridgePc,   \* where Run, or the Push it makes, is
    ticked,     \* there is a tick in ticker.C, which has room for one
    ticks,      \* ticks so far
    stopped,    \* ctx.Done() is closed
    conn,       \* the connection
    batch,      \* the samples of this push
    lines,      \* the lines the server got on this connection
    outcome     \* what the last Push returned

bVars == <<bridge, bridgePc, ticked, ticks, stopped, conn, batch, lines, outcome>>

\* A text is a sequence of characters.
Text == Seq(STRING)

ASSUME BridgeAssumption ==
    Samples \in Seq([name : Text, labels : Seq([name : Text, value : Text])]) /\ Samples # <<>>

-----------------------------------------------------------------------------
(* The path of a line: a sequence of characters. *)

\* Mutation of ReplaceInvalidRune: blanks are left as they are.
ReplaceInvalidRune_Blank(c) == IF c \in ValidRunes \cup {" "} THEN c ELSE "_"
ReplaceInvalidRune(c) == IF c = " " THEN "." ELSE IF c \in ValidRunes THEN c ELSE "_"

\* Underscores that follow each other are written once.
WriteSanitized(buf, s) ==
    LET step(st, c) ==
          LET r == ReplaceInvalidRune(c) IN
          IF r = "_" /\ st.prevUnderscore THEN st
          ELSE [out |-> Append(st.out, r), prevUnderscore |-> r = "_"]
    IN FoldLeft(step, [out |-> buf, prevUnderscore |-> FALSE], s).out

\* The labels are in the order in which "label value" sorts.
WriteLabels(buf, labels) ==
    FoldLeft(LAMBDA b, l : WriteSanitized(Append(b, "."), l.name \o <<" ">> \o l.value), buf, labels)

\* Tags are written as they are, in any order.
WriteTags(buf, labels) ==
    FoldLeft(LAMBDA b, l : b \o <<";">> \o l.name \o <<"=">> \o l.value, buf, labels)

WriteMetric(buf, s) ==
    LET named == WriteSanitized(buf, s.name) IN
    IF s.labels = <<>> THEN named
    ELSE IF bridge.useTags THEN WriteTags(named, s.labels) ELSE WriteLabels(named, s.labels)

\* The prefix is written as it is. Value and time follow the path.
Line(s) == WriteMetric(IF bridge.prefix = <<>> THEN <<>> ELSE Append(bridge.prefix, "."), s)

-----------------------------------------------------------------------------
BridgeInit ==
    /\ bridge \in BridgeSetups
    /\ bridgePc = "new"
    /\ ticked = FALSE
    /\ ticks = 0
    /\ stopped = FALSE
    /\ conn = "none"
    /\ batch = <<>>
    /\ lines = <<>>
    /\ outcome = "none"

\* Without a URL there is no bridge. Then Run starts its ticker.
NewBridge ==
    /\ bridgePc = "new" /\ bridge.on
    /\ bridgePc' = IF bridge.url THEN "select" ELSE "end"
    /\ UNCHANGED <<bridge, ticked, ticks, stopped, conn, batch, lines, outcome>>

\* time.Ticker (external) drops a tick when the one before was not taken yet.
BridgeTick ==
    /\ bridgePc \notin {"new", "end"} /\ ticks < MaxTicks
    /\ ticked' = TRUE
    /\ ticks' = ticks + 1
    /\ UNCHANGED <<bridge, bridgePc, stopped, conn, batch, lines, outcome>>

BridgeStop ==
    /\ ~stopped /\ bridgePc # "new"
    /\ stopped' = TRUE
    /\ UNCHANGED <<bridge, bridgePc, ticked, ticks, conn, batch, lines, outcome>>

\* Run's select: with a tick and a cancelled context, either.
Selected ==
    /\ bridgePc = "select"
    /\ \/ ticked /\ ticked' = FALSE /\ bridgePc' = "gather"
       \/ stopped /\ bridgePc' = "end" /\ UNCHANGED ticked
    /\ UNCHANGED <<bridge, ticks, stopped, conn, batch, lines, outcome>>

\* Push returns; a connection is closed.
PushReturns(result) ==
    /\ bridgePc' = "select"
    /\ outcome' = result
    /\ conn' = "none"

\* Push panics, and with it Run, on an errorHandling it does not know.
PushPanics ==
    /\ bridgePc' = "end"
    /\ outcome' = "panic"
    /\ conn' = "none"

\* What Gather may return: everything, nothing, or an error with a part.
BridgeGathers == [err : {FALSE}, mfs : {Samples, <<>>}] \cup
                 IF bridge.fails THEN [err : {TRUE}, mfs : {<<>>, SubSeq(Samples, 1, 1)}] ELSE {}

BridgeGather ==
    /\ bridgePc = "gather"
    /\ \E g \in BridgeGathers :
         /\ batch' = g.mfs
         /\ \/ /\ (g.err \/ g.mfs = <<>>) /\ bridge.errorHandling = "abort"
               /\ PushReturns(IF g.err THEN "error" ELSE "nil")
            \/ /\ (g.err \/ g.mfs = <<>>) /\ bridge.errorHandling \notin {"abort", "continue"}
               /\ PushPanics
            \/ /\ ~(g.err \/ g.mfs = <<>>) \/ bridge.errorHandling = "continue"
               /\ bridgePc' = "dial" /\ UNCHANGED <<outcome, conn>>
    /\ lines' = <<>>
    /\ UNCHANGED <<bridge, ticked, ticks, stopped>>

BridgeDial ==
    /\ bridgePc = "dial"
    /\ \/ conn' = "open" /\ bridgePc' = "write" /\ UNCHANGED outcome
       \/ bridge.fails /\ PushReturns("error")
    /\ UNCHANGED <<bridge, ticked, ticks, stopped, batch, lines>>

\* writeMetrics: each line is flushed before the next is written.
BridgeWrite ==
    /\ bridgePc = "write" /\ Len(lines) < Len(batch)
    /\ \/ /\ lines' = Append(lines, Line(batch[Len(lines) + 1]))
          /\ UNCHANGED <<bridgePc, outcome, conn>>
       \/ /\ bridge.fails /\ PushReturns("error")
          /\ UNCHANGED lines
    /\ UNCHANGED <<bridge, ticked, ticks, stopped, batch>>

BridgeWritten ==
    /\ bridgePc = "write" /\ Len(lines) = Len(batch)
    /\ PushReturns("nil")
    /\ UNCHANGED <<bridge, ticked, ticks, stopped, batch, lines>>

BridgeStep == \/ Selected \/ BridgeGather \/ BridgeDial \/ BridgeWritten
              \/ ~bridge.stalls /\ BridgeWrite

BridgeNext == NewBridge \/ BridgeTick \/ BridgeStop \/ Selected
              \/ BridgeGather \/ BridgeDial \/ BridgeWrite \/ BridgeWritten

\* Run goes on when it can; a write does unless the server may stop reading.
BridgeSpec == BridgeInit /\ [][BridgeNext]_bVars /\ WF_bVars(BridgeStep)

-----------------------------------------------------------------------------
\* What the server has is the beginning of what was gathered, one line a sample and
\* in order, and all of it when Push returned nil; no connection outlives its Push.
BatchIsWritten ==
    /\ \A i \in DOMAIN lines : lines[i] = Line(batch[i])
    /\ bridgePc \in {"select", "end"} => conn = "none" /\ (outcome = "nil" => Len(lines) = Len(batch))

\* A path without tags is one word, in which underscores stand alone.
PathsAreWords ==
    \A i \in DOMAIN lines :
      ~bridge.useTags =>
        /\ \A k \in DOMAIN lines[i] : lines[i][k] \in ValidRunes \cup {"."}
        /\ \A k \in 2 .. Len(lines[i]) : ~(lines[i][k] = "_" /\ lines[i][k - 1] = "_")

BridgeKeeps == BatchIsWritten /\ PathsAreWords

\* Run returns once its context is cancelled, if the server keeps reading.
Stopping == stopped /\ ~bridge.stalls /\ bridgePc # "end"
BridgeStops == Stopping ~> ~Stopping
=============================================================================
