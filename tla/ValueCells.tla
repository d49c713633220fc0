----------------------------- MODULE ValueCells -----------------------------
(***************************************************************************)
(* Counters and gauges (prometheus/counter.go, gauge.go) as atomic words:   *)
(* a counter keeps what is an integer in one word and the rest as the bits  *)
(* of a float in another, which is changed by compare-and-swap, and its     *)
(* last exemplar in a third; a gauge has one word that is set or changed    *)
(* by compare-and-swap. Write reads the words one after the other.          *)
(*                                                                          *)
(* Values are in quarters, so that some are not integers. Floats add up     *)
(* exactly here; what a change tells the tracker is in ChangeTracker.       *)
(***************************************************************************)
EXTENDS Integers, Sequences, FiniteSets, Functions

CONSTANTS
    CellUsers,    \* goroutines that change the counter and the gauge
    CellReaders,  \* goroutines that write them out
    CellSetups,   \* per user the calls in turn, as records [op, v, labels]: "counter" adds v, with labels that
                  \* are "none", "valid" or "invalid"; "set" and "add" are calls on the gauge
    MaxCellReads  \* bound on the writes per reader

CellCalls == [op : {"counter", "set", "add"}, v : Int, labels : {"none", "valid", "invalid"}]

ASSUME CellAssumption == CellSetups \subseteq [CellUsers -> Seq(CellCalls)]

VARIABLES
    cellCalls,       \* the setup
    valBits, valInt, lastExemplar, \* counter; an exemplar is the call it belongs to
    gaugeBits,   \* gauge.valBits
    user,        \* the goroutines in Add, AddWithExemplar, Set, ...
    cellReader,  \* the goroutines in Write
    landed,      \* history: the calls whose value is in the counter
    gaugeWant    \* history: what the calls on the gauge come to, in the order they took effect

counterVars == <<valBits, valInt, lastExemplar, landed>>
gaugeVars == <<gaugeBits, gaugeWant>>
cellVars == <<cellCalls, counterVars, gaugeVars, user, cellReader>>

IsInteger(v) == v % 4 = 0

\* A call is its goroutine and its number there.
NoCall == <<0, 0>>
CallOf(a) == cellCalls[a[1]][a[2]]
This(u) == <<u, user[u].made>>
ThisCall(u) == CallOf(This(u))
TotalOf(A) == SumFunction([a \in A |-> CallOf(a).v])

NewCellReader == [pc |-> "idle", next |-> 1, before |-> {}, exemplar |-> NoCall, bits |-> 0, int |-> 0, reads |-> 0]

CellInit ==
    /\ cellCalls \in CellSetups
    /\ valBits = 0 /\ valInt = 0 /\ lastExemplar = NoCall /\ landed = {}
    /\ gaugeBits = 0 /\ gaugeWant = 0
    /\ user = [u \in CellUsers |-> [pc |-> "idle", made |-> 0, old |-> 0]]
    /\ cellReader = [r \in CellReaders |-> NewCellReader]

Goes(u, pc) == user' = [user EXCEPT ![u].pc = pc]

\* The next call begins. A counter panics if the value is negative.
Begin(u) ==
    /\ user[u].pc = "idle" /\ user[u].made < Len(cellCalls[u])
    /\ LET c == cellCalls[u][user[u].made + 1] IN
       user' = [user EXCEPT ![u].made = @ + 1,
                            ![u].pc = IF c.op = "counter" /\ c.v < 0 THEN "idle" ELSE c.op]
    /\ UNCHANGED <<cellCalls, counterVars, gaugeVars, cellReader>>

\* Mutation of Swaps: the word is stored, whatever it is by now.
Swaps_Stores(word, old) == TRUE
\* CompareAndSwap
Swaps(word, old) == word = old

-----------------------------------------------------------------------------
(* counter *)

\* What is left of AddWithExemplar when the value is added; without labels, nothing.
AfterAdd(u) == IF ThisCall(u).labels = "none" THEN "idle" ELSE "exemplar"

AddInteger(u) ==
    /\ user[u].pc = "counter" /\ IsInteger(ThisCall(u).v)
    /\ valInt' = valInt + ThisCall(u).v
    /\ landed' = landed \cup {This(u)}
    /\ Goes(u, AfterAdd(u))
    /\ UNCHANGED <<cellCalls, valBits, lastExemplar, gaugeVars, cellReader>>

LoadCounter(u) ==
    /\ user[u].pc = "counter" /\ ~IsInteger(ThisCall(u).v)
    /\ user' = [user EXCEPT ![u].pc = "swap counter", ![u].old = valBits]
    /\ UNCHANGED <<cellCalls, counterVars, gaugeVars, cellReader>>

SwapCounter(u) ==
    /\ user[u].pc = "swap counter"
    /\ IF Swaps(valBits, user[u].old)
       THEN /\ valBits' = user[u].old + ThisCall(u).v
            /\ landed' = landed \cup {This(u)}
            /\ Goes(u, AfterAdd(u))
       ELSE Goes(u, "counter") /\ UNCHANGED <<valBits, landed>>
    /\ UNCHANGED <<cellCalls, valInt, lastExemplar, gaugeVars, cellReader>>

\* updateExemplar, where invalid labels panic.
UpdateExemplar(u) ==
    /\ user[u].pc = "exemplar"
    /\ lastExemplar' = IF ThisCall(u).labels = "valid" THEN This(u) ELSE lastExemplar
    /\ Goes(u, "idle")
    /\ UNCHANGED <<cellCalls, valBits, valInt, landed, gaugeVars, cellReader>>

\* Mutation of ReadOrder: the value first.
ReadOrder_Value == <<"bits", "int", "exemplar">>
\* Write reads the exemplar, then get() the words of the value.
ReadOrder == <<"exemplar", "bits", "int">>

StartWriteCounter(r) ==
    /\ cellReader[r].pc = "idle" /\ cellReader[r].reads < MaxCellReads
    /\ cellReader' = [cellReader EXCEPT ![r] =
         [NewCellReader EXCEPT !.pc = "reads", !.before = landed, !.reads = cellReader[r].reads + 1]]
    /\ UNCHANGED <<cellCalls, counterVars, gaugeVars, user>>

ReadWord(r) ==
    LET word == ReadOrder[cellReader[r].next] IN
    /\ cellReader[r].pc = "reads"
    /\ cellReader' = [cellReader EXCEPT
         ![r].pc = IF cellReader[r].next = Len(ReadOrder) THEN "done" ELSE "reads",
         ![r].next = @ + 1,
         ![r].exemplar = IF word = "exemplar" THEN lastExemplar ELSE @,
         ![r].bits = IF word = "bits" THEN valBits ELSE @,
         ![r].int = IF word = "int" THEN valInt ELSE @]
    /\ UNCHANGED <<cellCalls, counterVars, gaugeVars, user>>

CounterWritten(r) ==
    /\ cellReader[r].pc = "done"
    /\ cellReader' = [cellReader EXCEPT ![r].pc = "idle"]
    /\ UNCHANGED <<cellCalls, counterVars, gaugeVars, user>>

-----------------------------------------------------------------------------
(* gauge *)

SetGauge(u) ==
    /\ user[u].pc = "set"
    /\ gaugeBits' = ThisCall(u).v /\ gaugeWant' = ThisCall(u).v
    /\ Goes(u, "idle")
    /\ UNCHANGED <<cellCalls, counterVars, cellReader>>

\* Inc, Dec and Sub are Add of another value.
LoadGauge(u) ==
    /\ user[u].pc = "add"
    /\ user' = [user EXCEPT ![u].pc = "swap gauge", ![u].old = gaugeBits]
    /\ UNCHANGED <<cellCalls, counterVars, gaugeVars, cellReader>>

SwapGauge(u) ==
    /\ user[u].pc = "swap gauge"
    /\ IF Swaps(gaugeBits, user[u].old)
       THEN /\ gaugeBits' = user[u].old + ThisCall(u).v
            /\ gaugeWant' = gaugeWant + ThisCall(u).v
            /\ Goes(u, "idle")
       ELSE Goes(u, "add") /\ UNCHANGED gaugeVars
    /\ UNCHANGED <<cellCalls, counterVars, cellReader>>

-----------------------------------------------------------------------------
UserStep(u) ==
    \/ AddInteger(u) \/ LoadCounter(u) \/ SwapCounter(u) \/ UpdateExemplar(u)
    \/ SetGauge(u) \/ LoadGauge(u) \/ SwapGauge(u)

CellNext ==
    \/ \E u \in CellUsers : Begin(u) \/ UserStep(u)
    \/ \E r \in CellReaders : StartWriteCounter(r) \/ ReadWord(r) \/ CounterWritten(r)

CellSpec == CellInit /\ [][CellNext]_cellVars /\ \A u \in CellUsers : WF_cellVars(UserStep(u))

-----------------------------------------------------------------------------
\* What is written has every call whose value was there when Write began and none whose
\* value was not there at its end, so that values never go back from one Write to a later
\* one; an exemplar belongs to a call whose value is in it (counter.Write, counter.get).
WriteBetween ==
    \A r \in CellReaders : cellReader[r].pc = "done" =>
        \E A \in SUBSET landed :
            /\ cellReader[r].before \subseteq A
            /\ cellReader[r].bits + cellReader[r].int = TotalOf(A)
            /\ cellReader[r].exemplar \in A \cup {NoCall}

\* However adds, floats and integers, sets and swaps race, no call is lost or counted twice
\* (counter.Add, gauge.Add).
NoCallLost == valBits + valInt = TotalOf(landed) /\ gaugeBits = gaugeWant

\* Adds come to an end: a swap fails only because another succeeded.
InCell(u) == user[u].pc # "idle"
CellsReturn == \A u \in CellUsers : InCell(u) ~> ~InCell(u)

CellsExact == WriteBetween /\ NoCallLost
=============================================================================
