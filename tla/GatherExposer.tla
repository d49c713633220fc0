---------------------------- MODULE GatherExposer ----------------------------
(***************************************************************************)
(* The Gather-path exposer of promhttp/delta (delta.go, gen.go) for one    *)
(* series: the application writes to it, deletes it or replaces its        *)
(* registry; Serve settles the held round, gathers, plans what to write    *)
(* and against which values, deletes what is idle, and commits once the    *)
(* response is delivered; a scraper processes what it gets and, behind it, *)
(* an aggregator adds up increments or follows cumulative values.          *)
(*                                                                         *)
(* Abstractions.  A metric holds its count n, the sum of what was observed *)
(* and low, the cumulative count of its first bucket: a counter, gauge or  *)
(* summary only n.  Serve holds Exposer.mu throughout, so its steps are    *)
(* apart only where writes and deletions can fall between them.  A tick of *)
(* the clock is at most a scrape interval.  A scraper acknowledges always  *)
(* or never, and has processed what is delivered without acknowledgement.  *)
(* Writers look the series up for every write (Options.IdleScrapes).       *)
(***************************************************************************)
EXTENDS Integers

CONSTANTS
    Nil,
    Setups,        \* what is checked: Options, type of the series, whether the scraper
                   \* acknowledges, whether Gather may fail
    Observed,      \* what may be observed of a histogram, whose first bucket ends at 0
    FamilyBucket,  \* what heartbeatTurn hashes the family to
    Staleness,     \* after how long the aggregator forgets an input
    MaxDeletes, MaxRounds, MaxTime   \* bounds; that of writes is in the setup

Kinds == {"counter", "histogram", "gauge", "summary"}

\* Options
Options == [increments : BOOLEAN, disableHeartbeat : BOOLEAN, heartbeatScrapes : Nat,
            idle : Nat, deletes : {"vecs", "callback", "none"}, genLabel : BOOLEAN,
            gap : Nat, only : {"everything", "accumulating", "current"},
            errorOnError : BOOLEAN]

\* check: the combinations it does not panic on
Check(o) ==
    /\ o.heartbeatScrapes > 0
    /\ o.gap > 0 => o.genLabel
    /\ o.increments => ~o.genLabel /\ o.gap = 0
    /\ o.only # "current" /\ o.disableHeartbeat /\ ~o.increments => o.idle > 0 /\ o.genLabel

ASSUME SetupsAssumption == \A x \in Setups :
    /\ x.opts \in Options /\ Check(x.opts)
    /\ x.kind \in Kinds /\ x.writes \in Nat /\ {x.acks, x.fails} \subseteq BOOLEAN
ASSUME GatherBoundsAssumption ==
    {Staleness, FamilyBucket, MaxDeletes, MaxRounds, MaxTime} \cup Observed \subseteq Nat

\* What a metric holds, and what is kept of it
Values == [n : Nat, sum : Nat, low : Nat]
Children == [num : Nat \ {0}, v : Values]
Entries == [id : Nat \ {0}, value : Values, changed : Nat, last : Nat, born : Nat,
            base : Values, basedOn : Nat]
HandedOver == [en : Entries, created : Nat]
HeldRounds == [round : Nat, v : Values, id : Nat]
Pendings == [id : Nat, v : Values]
Rows == [v : [n : Int, sum : Int, low : Int], gen : Nat]
Inputs == [gen : Nat, last : Int, seen : Nat]
ASSUME NilAssumption ==
    /\ Nil \notin Children /\ Nil \notin Entries /\ Nil \notin HandedOver
    /\ Nil \notin HeldRounds /\ Nil \notin Pendings /\ Nil \notin Rows
    /\ Nil \notin Inputs

VARIABLES
    setup,     \* the setup being checked, Exposer.opts among it
    now,       \* the clock, in scrape intervals
    child,     \* the instance the Vec has: its number and value; or Nil
    made,      \* instances created so far
    deletes,   \* deletions by the application
    round,     \* Exposer.round
    state,     \* the entry of the series in Exposer.state, or Nil
    handed,    \* Exposer.handed: the entry handed to Options.Delete, or Nil
    held,      \* Exposer.held and ackState.held: the commit awaiting acknowledgement, or Nil
    rb,        \* rebaseState
    pc,        \* Serve's next step
    request,   \* the request being served: "plain", "ack", "peek"
    row,       \* what the response says of the series, or Nil
    pending,   \* plan's pending, or Nil
    idle,      \* plan's idle: the instance found idle, 0 if none
    complete,  \* Gather returned no error
    scraper,   \* had a round, and the last it processed
    agg,       \* the aggregator's input: generation, last value, when; or Nil
    written,   \* history: what was added to the series in all its instances
    got,       \* history: what the aggregator has made of it
    lost,      \* history: written to instances that went before it was delivered
    unread,    \* history: the child was written since it was last gathered
    blurred,   \* history: an instance was replaced behind the exposer's back
    mistaken,  \* history: and taken for the one before it, unchanged, with other buckets
    excused    \* history: a round was committed that the scraper did not process

appVars == <<child, made, deletes, written, lost, unread, blurred, mistaken>>
entryVars == <<state, handed, held, rb, round>>
serveVars == <<pc, request, row, pending, idle, complete>>
aggVars == <<scraper, agg, got, excused>>
gatherVars == <<setup, now, appVars, entryVars, serveVars, aggVars>>

opts == setup.opts
kind == setup.kind
Zero == [n |-> 0, sum |-> 0, low |-> 0]
Accumulates == kind \in {"counter", "histogram"}

GatherInit ==
    /\ setup \in Setups
    /\ now = 1
    /\ child = Nil /\ made = 0 /\ deletes = 0
    /\ round = 0 /\ state = Nil /\ handed = Nil /\ held = Nil
    /\ rb = [last |-> 0, gen |-> 0, pending |-> FALSE]
    /\ pc = "rest" /\ request = "plain" /\ row = Nil /\ pending = Nil /\ idle = 0
    /\ complete = TRUE
    /\ scraper = [had |-> FALSE, processed |-> 0] /\ agg = Nil
    /\ written = 0 /\ got = 0 /\ lost = 0
    /\ unread = FALSE /\ blurred = FALSE /\ mistaken = FALSE /\ excused = FALSE

-----------------------------------------------------------------------------
(* The entry a gathered value is reported against *)

\* Mutation of Rebuilt: only the count is compared.
Rebuilt_CountOnly(v, en) == v.n < en.value.n

\* rebuilt: the value holds less than was delivered, so it is a new instance's
Rebuilt(v, en) ==
    \/ kind = "counter" /\ v.n < en.value.n
    \/ /\ kind = "histogram"
       /\ \/ v.n < en.value.n
          \/ ~(v.n = en.value.n /\ v.sum = en.value.sum) /\ v.low < en.value.low

\* createdOf: a gauge carries no creation time
CreatedOf(num) == IF kind = "gauge" THEN 0 ELSE num

\* handoff.same
Same(h, num, v) ==
    IF CreatedOf(num) # 0 \/ h.created # 0 THEN CreatedOf(num) = h.created
                                           ELSE ~Rebuilt(v, h.en)

\* Mutation of EntryFor: a child Options.Delete left in place starts over.
EntryFor_StartsOver(num, v, r) ==
    IF state # Nil /\ ~Rebuilt(v, state) THEN state
    ELSE [id |-> r, value |-> Zero, changed |-> r, last |-> r, born |-> now,
          base |-> Zero, basedOn |-> 0]

\* plan: the entry the series has, the one handed to Options.Delete and left in
\* place, or a new one
EntryFor(num, v, r) ==
    IF state # Nil /\ ~Rebuilt(v, state) THEN state
    ELSE IF handed # Nil /\ Same(handed, num, v) THEN [handed.en EXCEPT !.changed = r]
    ELSE [id |-> r, value |-> Zero, changed |-> r, last |-> r, born |-> now,
          base |-> Zero, basedOn |-> 0]

\* pendingCommit.apply, to the entry it was taken for
Apply(en, p) == IF en # Nil /\ p # Nil /\ en.id = p.id THEN [en EXCEPT !.value = p.v] ELSE en

\* commit: an entry handed to Options.Delete is the same one
Commit(p) ==
    /\ state' = Apply(state, p)
    /\ handed' = IF handed = Nil THEN Nil ELSE [handed EXCEPT !.en = Apply(@, p)]

\* What has reached the aggregator of the child: what its entry has delivered, or
\* will once the acknowledgement of the held round is in
Delivered(en) ==
    IF held # Nil /\ held.id = en.id /\ scraper.processed = held.round THEN held.v.n
                                                                      ELSE en.value.n
Reached == IF child = Nil THEN 0 ELSE Delivered(EntryFor(child.num, child.v, round + 1))

-----------------------------------------------------------------------------
(* The application *)

\* Add of a counter, Inc or Dec of a gauge, Observe, on the child the Vec has or creates
Put(d, x) ==
    LET old == IF child = Nil THEN [num |-> made + 1, v |-> Zero] ELSE child
    IN /\ child' = [old EXCEPT !.v = [n |-> @.n + d, sum |-> @.sum + x,
                       low |-> @.low + (IF kind = "histogram" /\ x = 0 THEN 1 ELSE 0)]]
       /\ made' = IF child = Nil THEN made + 1 ELSE made
       /\ written' = written + d

Write ==
    /\ \/ kind = "histogram" /\ written < setup.writes /\ \E x \in Observed : Put(1, x)
       \/ kind # "histogram" /\ written < setup.writes /\ Put(1, 0)
       \/ kind = "gauge" /\ child # Nil /\ child.v.n > 0 /\ Put(-1, 0)
    /\ unread' = TRUE
    /\ UNCHANGED <<setup, now, deletes, lost, blurred, mistaken, entryVars, serveVars, aggVars>>

\* Vec.Delete by the application, or its registry replaced without Exposer.Replace
AppDelete ==
    /\ child # Nil /\ deletes < MaxDeletes
    /\ deletes' = deletes + 1
    /\ child' = Nil
    /\ blurred' = (blurred \/ state # Nil \/ handed # Nil)
    /\ lost' = IF state = Nil /\ handed = Nil THEN lost + child.v.n ELSE lost
    /\ UNCHANGED <<setup, now, made, written, unread, mistaken, entryVars, serveVars, aggVars>>

\* Exposer.Replace, with a registry whose metrics all start from zero
Replace ==
    /\ pc = "rest" /\ deletes < MaxDeletes
    /\ deletes' = deletes + 1
    /\ child' = Nil
    /\ state' = Nil /\ handed' = Nil
    /\ lost' = written - got /\ blurred' = ~opts.increments
    /\ UNCHANGED <<setup, now, made, written, unread, mistaken, held, rb, round, serveVars,
                   aggVars>>

\* Time without scrapes
Tick ==
    /\ pc = "rest" /\ opts.gap > 0 /\ now < MaxTime
    /\ now' = now + 1
    /\ UNCHANGED <<setup, appVars, entryVars, serveVars, aggVars>>

-----------------------------------------------------------------------------
(* Serve *)

\* Mutation of Commits: the held round is committed whatever was acknowledged.
Commits_Any(k) == TRUE

\* ackState.settle: no acknowledgement, AckNew, or that of the round held
Commits(k) == k = "plain" \/ ~scraper.had \/ scraper.processed = held.round

\* The held round, committed or rolled back; a peek leaves it
Settle(k) ==
    \/ /\ held # Nil /\ k # "peek"
       /\ held' = Nil
       /\ \/ Commits(k) /\ Commit(held)
          \/ ~Commits(k) /\ UNCHANGED <<state, handed>>
       /\ excused' = (excused \/ ((k = "plain" \/ ~scraper.had) /\ scraper.processed # held.round))
    \/ /\ held = Nil \/ k = "peek"
       /\ UNCHANGED <<held, state, handed, excused>>

Requests == IF setup.acks THEN {"ack", "peek"} ELSE {"plain"}

\* The beginning of Serve
Serve(k) ==
    /\ pc = "rest" /\ round < MaxRounds /\ k \in Requests
    /\ Settle(k)
    /\ request' = k
    /\ now' = IF opts.gap > 0 THEN now + 1 ELSE now
    /\ pc' = "gather"
    /\ UNCHANGED <<setup, appVars, rb, round, row, pending, idle, complete, scraper, agg, got>>

\* A scraper's last acknowledgement; the one after it starts anew
Final ==
    /\ pc = "rest" /\ setup.acks /\ scraper.had
    /\ Settle("ack")
    /\ scraper' = [had |-> FALSE, processed |-> 0]
    /\ UNCHANGED <<setup, now, appVars, rb, round, serveVars, agg, got>>

\* Kind.carries
Carried ==
    \/ opts.only = "everything"
    \/ opts.only = "accumulating" /\ kind # "gauge"
    \/ opts.only = "current" /\ kind = "gauge"

\* due: a gap since the last delivery moves the generation, once
Due(r) ==
    IF opts.gap = 0 \/ r.pending THEN r
    ELSE IF r.last = 0 THEN [r EXCEPT !.last = now]
    ELSE IF now - r.last <= opts.gap THEN r
    ELSE [r EXCEPT !.gen = now, !.pending = TRUE]

\* genOf
GenOf(en, gen) == IF gen # 0 /\ en.born < gen THEN gen ELSE en.born

\* stamp: the generation on a counter or histogram
Stamp(v, en, gen) ==
    [v |-> v, gen |-> IF opts.genLabel /\ Accumulates THEN GenOf(en, gen) ELSE 0]

\* rebaseEntry: what was delivered becomes the base of the new generation
Rebase(en, gen) ==
    IF en.basedOn = gen THEN en ELSE [en EXCEPT !.basedOn = gen, !.base = en.value]

\* The increment, field by field
Minus(v, w) == [n |-> v.n - w.n, sum |-> v.sum - w.sum, low |-> v.low - w.low]

\* heartbeatTurn
HeartbeatTurn(r) ==
    ~opts.disableHeartbeat /\ r % opts.heartbeatScrapes = FamilyBucket % opts.heartbeatScrapes

\* What tells that a series was written: its value, or its count and sum; activity
Changed(v, en) == v.n # en.value.n \/ v.sum # en.value.sum

\* decide: the entry as read, and what is written of it and committed for it
Decide(v, en, r, gen) ==
    LET changed == Changed(v, en)
        seen == [en EXCEPT !.last = r, !.changed = IF changed THEN r ELSE @,
                           !.value = IF kind = "summary" THEN v ELSE @]
        based == IF Accumulates THEN Rebase(seen, gen) ELSE seen
        value == IF ~Accumulates THEN v
                 ELSE IF opts.increments THEN Minus(v, en.value)
                 ELSE IF gen # 0 THEN Minus(v, based.base)
                 ELSE v
    IN IF Accumulates /\ ~changed /\ ~HeartbeatTurn(r)
       THEN [en |-> seen, row |-> Nil, pending |-> Nil]
       ELSE [en |-> based, row |-> Stamp(value, based, gen),
             pending |-> IF kind = "summary" THEN Nil
                         ELSE [id |-> en.id,
                               v |-> [v EXCEPT !.low = IF changed THEN @ ELSE en.value.low]]]

\* deletable: a gauge only at zero
Deletable(en) == kind # "gauge" \/ en.value.n = 0

\* isIdle and canDelete
IsIdle(en, r) ==
    opts.idle > 0 /\ r - en.changed > opts.idle /\ Deletable(en) /\ opts.deletes # "none"

\* Gather failed: Serve answers with an error, before the round begins
GatherFails ==
    /\ pc = "gather" /\ setup.fails /\ opts.errorOnError
    /\ pc' = "rest" /\ request' = "plain"
    /\ UNCHANGED <<setup, now, appVars, entryVars, row, pending, idle, complete, aggVars>>

\* Gather and plan, of a series found or, with an error or no child, not found
Gather(err, found) ==
    /\ pc = "gather"
    /\ err => setup.fails /\ ~opts.errorOnError
    /\ found => child # Nil
    /\ ~found => child = Nil \/ err
    /\ round' = round + 1
    /\ rb' = Due(rb)
    /\ complete' = ~err
    /\ \/ /\ found /\ Carried
          /\ LET en == EntryFor(child.num, child.v, round')
                 d == Decide(child.v, en, round', rb'.gen)
             IN /\ state' = d.en
                /\ row' = d.row
                /\ pending' = d.pending
                /\ idle' = IF IsIdle(d.en, round') THEN child.num ELSE 0
                /\ blurred' = (blurred /\ (en.id # round' \/ ~opts.increments))
                /\ lost' = IF blurred /\ ~blurred' THEN written - got - child.v.n ELSE lost
                /\ mistaken' = (mistaken \/ (~Changed(child.v, en) /\ child.v.low # en.value.low))
          /\ unread' = FALSE
       \/ /\ ~(found /\ Carried)
          /\ row' = Nil /\ pending' = Nil /\ idle' = 0
          /\ UNCHANGED <<state, blurred, lost, unread, mistaken>>
    /\ handed' = IF err THEN handed ELSE Nil
    /\ pc' = "sweep"
    /\ UNCHANGED <<setup, now, child, made, deletes, written, held, request, aggVars>>

\* Mutation of Unwritten: the child that was idle is not looked at again.
Unwritten_Unchecked(v, en) == TRUE

\* unwritten: the child still holds what its entry last saw
Unwritten(v, en) == ~Changed(v, en)

\* deleteIdle through a Vec: one that does not have the child is asked again later
DeleteFromVec ==
    /\ opts.deletes = "vecs"
    /\ \/ /\ child # Nil /\ Unwritten(child.v, state)
          /\ child' = Nil /\ state' = Nil
       \/ /\ child # Nil /\ ~Unwritten(child.v, state)
          /\ UNCHANGED <<child, state>>
       \/ /\ child = Nil
          /\ state' = [state EXCEPT !.changed = round]
          /\ UNCHANGED child
    /\ UNCHANGED <<handed, lost>>

\* deleteIdle through Options.Delete, which removes the child or leaves it
DeleteByCallback ==
    /\ opts.deletes = "callback"
    /\ handed' = [en |-> state, created |-> CreatedOf(idle)]
    /\ state' = Nil
    /\ \/ /\ child # Nil
          /\ child' = Nil
          /\ lost' = lost + child.v.n - Reached
       \/ UNCHANGED <<child, lost>>

\* sweep: the idle series, then, after a complete Gather, the state of a series of a
\* Vec not gathered for that long
Sweep ==
    /\ pc = "sweep"
    /\ \/ /\ request # "peek" /\ idle # 0
          /\ DeleteFromVec \/ DeleteByCallback
       \/ /\ request # "peek" /\ idle = 0
          /\ opts.idle > 0 /\ complete /\ opts.deletes = "vecs"
          /\ state # Nil /\ round - state.last > opts.idle
          /\ state' = Nil
          /\ UNCHANGED <<child, handed, lost>>
       \/ /\ \/ request = "peek"
             \/ idle = 0 /\ ~(opts.idle > 0 /\ complete /\ opts.deletes = "vecs"
                              /\ state # Nil /\ round - state.last > opts.idle)
          /\ UNCHANGED <<child, state, handed, lost>>
    /\ pc' = "respond"
    /\ UNCHANGED <<setup, now, made, deletes, written, unread, blurred, mistaken, held, rb,
                   round, request, row, pending, idle, complete, aggVars>>

\* The aggregator: it adds increments up, or follows the value of an input it remembers
Consume ==
    /\ agg' = IF row = Nil \/ opts.increments THEN agg ELSE [gen |-> row.gen, last |-> row.v.n, seen |-> now]
    /\ got' = IF row = Nil \/ ~Accumulates THEN got
              ELSE IF ~opts.increments /\ agg # Nil /\ agg.gen = row.gen
                      /\ now - agg.seen <= Staleness /\ agg.last <= row.v.n
              THEN got + row.v.n - agg.last
              ELSE got + row.v.n

\* The response breaks off or is cancelled, or is delivered: a peek commits nothing, a
\* scraper that acknowledges leaves the round held, having processed it, seen only its
\* headers, or nothing of it
Respond(o) ==
    /\ pc = "respond"
    /\ o \in {"aborted", "processed"} \cup (IF setup.acks THEN {"seen", "missed"} ELSE {})
    /\ o = "processed" => request # "peek"
    /\ IF o = "processed" THEN Consume ELSE UNCHANGED <<agg, got>>
    /\ scraper' = [had |-> scraper.had \/ (o \in {"processed", "seen"} /\ request # "peek"),
                   processed |-> IF o = "processed" THEN round ELSE scraper.processed]
    /\ \/ /\ o = "aborted" \/ request = "peek"
          /\ UNCHANGED <<state, handed, held, rb>>
       \/ /\ o # "aborted" /\ request = "ack"
          /\ held' = [round |-> round, v |-> IF pending = Nil THEN Zero ELSE pending.v,
                      id |-> IF pending = Nil THEN 0 ELSE pending.id]
          /\ rb' = [rb EXCEPT !.last = now, !.pending = FALSE]
          /\ UNCHANGED <<state, handed>>
       \/ /\ o # "aborted" /\ request = "plain"
          /\ Commit(pending)
          /\ rb' = [rb EXCEPT !.last = now, !.pending = FALSE]
          /\ UNCHANGED held
    /\ pc' = "rest" /\ request' = "plain"
    /\ row' = Nil /\ pending' = Nil /\ idle' = 0 /\ complete' = TRUE
    /\ UNCHANGED <<setup, now, appVars, round, excused>>

GatherNext ==
    \/ Write \/ AppDelete \/ Replace \/ Tick
    \/ \E k \in {"plain", "ack", "peek"} : Serve(k)
    \/ Final
    \/ GatherFails
    \/ \E err, found \in BOOLEAN : Gather(err, found)
    \/ Sweep
    \/ \E o \in {"aborted", "processed", "seen", "missed"} : Respond(o)

GatherSpec == GatherInit /\ [][GatherNext]_gatherVars

-----------------------------------------------------------------------------
(* Properties *)

\* What the aggregator makes of a series never exceeds what was written to it: neither
\* a round reported again after a roll-back, an abort or a gap, nor a child left in
\* place by Options.Delete, nor a replaced registry is counted twice. (A histogram that
\* was replaced behind the exposer's back and has the count and sum of the one before it
\* is taken for it, unchanged; what follows of it is not counted right.)
NeverTwice == Accumulates /\ ~mistaken => got <= written

\* Nothing written is lost either: what the aggregator has, what it will be told of the
\* child and what went with a child someone else deleted make up what was written.
Conserved ==
    (Accumulates /\ Carried /\ ~blurred /\ ~excused) =>
        got + lost + (IF child = Nil THEN 0 ELSE child.v.n - Reached) = written

\* No increment is negative, unless a histogram was taken for another with its count and
\* sum: as an unsigned count or bucket it would wrap around.
NoWrap == (row # Nil /\ Accumulates /\ ~mistaken) =>
             row.v.n >= 0 /\ (kind = "histogram" => row.v.low >= 0)

\* Idle cleanup through a Vec never deletes a child written since it was gathered, one
\* with something left to report, or a gauge that is not at zero.
SafeDelete == [][(Sweep /\ opts.deletes = "vecs" /\ child' = Nil /\ child # Nil) =>
                    /\ kind = "gauge" => child.v.n = 0
                    /\ kind # "gauge" /\ ~blurred => ~unread
                    /\ Accumulates /\ ~blurred => child.v.n = Reached]_gatherVars

-----------------------------------------------------------------------------
(* The inductive invariant behind NoWrap, SafeDelete and, with increments,    *)
(* NeverTwice and Conserved                                                   *)

Types ==
    /\ setup \in Setups /\ now \in Nat
    /\ child \in Children \cup {Nil} /\ made \in Nat /\ deletes \in Nat
    /\ round \in Nat /\ state \in Entries \cup {Nil} /\ handed \in HandedOver \cup {Nil}
    /\ held \in HeldRounds \cup {Nil} /\ rb \in [last : Nat, gen : Nat, pending : BOOLEAN]
    /\ pc \in {"rest", "gather", "sweep", "respond"} /\ request \in {"plain", "ack", "peek"}
    /\ row \in Rows \cup {Nil} /\ pending \in Pendings \cup {Nil} /\ idle \in Nat
    /\ complete \in BOOLEAN /\ scraper \in [had : BOOLEAN, processed : Nat]
    /\ agg \in Inputs \cup {Nil}
    /\ written \in Int /\ got \in Int /\ lost \in Int
    /\ unread \in BOOLEAN /\ blurred \in BOOLEAN /\ mistaken \in BOOLEAN /\ excused \in BOOLEAN

\* Instances and entries are numbered: a new one is none of those kept anywhere.
NumberInv ==
    /\ child # Nil => child.num <= made
    /\ idle <= made
    /\ handed # Nil => handed.created <= made /\ handed.en.id <= round
    /\ state # Nil => state.id <= round
    /\ held # Nil => held.id <= round
    /\ pending # Nil => pending.id <= round

\* What Serve has done at each of its steps.
ServeInv ==
    /\ scraper.processed <= round
    /\ pc \in {"sweep", "respond"} => scraper.processed < round
    /\ pc \in {"rest", "gather"} => row = Nil /\ pending = Nil /\ idle = 0
    /\ pc # "rest" => request \in Requests
    /\ pc # "rest" /\ request # "peek" => held = Nil
    /\ Accumulates => (row = Nil <=> pending = Nil)
    /\ ~Carried => state = Nil /\ handed = Nil /\ row = Nil /\ pending = Nil
    /\ state # Nil /\ ~blurred => child # Nil
    /\ pc = "sweep" /\ complete /\ state # Nil /\ state.last # round => blurred /\ row = Nil

\* No part of a value is above that of another.
Leq(a, b) == a.n <= b.n /\ (kind = "histogram" => a.low <= b.low)

\* What is to be committed to an entry is not below what it has.
Grows(en) ==
    /\ Leq(en.base, en.value)
    /\ held # Nil /\ held.id = en.id => Leq(en.value, held.v)
    /\ pending # Nil /\ pending.id = en.id => Leq(en.value, pending.v)

\* The entry is of the child there is: nothing of it was read of another.
Own(en) ==
    /\ Leq(en.value, child.v)
    /\ held # Nil /\ held.id = en.id => Leq(held.v, child.v)
    /\ pending # Nil /\ pending.id = en.id => Leq(pending.v, child.v)

\* The child was left in place by Options.Delete.
IsHanded == child # Nil /\ handed # Nil /\ handed.created = child.num
EntryInv ==
    /\ state # Nil /\ ~mistaken => Grows(state)
    /\ handed # Nil /\ ~mistaken => Grows(handed.en)
    /\ state # Nil /\ ~blurred => Own(state)
    /\ IsHanded /\ (~blurred \/ ~mistaken) => Own(handed.en)
    /\ IsHanded /\ state # Nil => state.id = handed.en.id
    /\ state # Nil /\ handed # Nil /\ state.id = handed.en.id => state.value = handed.en.value

\* What was found idle was not written before it was gathered.
IdleInv ==
    /\ pc = "sweep" /\ idle # 0 /\ request # "peek" =>
        /\ state # Nil /\ Deletable(state)
        /\ child # Nil /\ child.num = idle /\ Accumulates /\ ~mistaken => Own(state)
        /\ ~blurred => child # Nil /\ child.num = idle
        /\ ~blurred /\ kind # "gauge" =>
               state.value.n <= child.v.n /\ (unread => state.value.n < child.v.n)
    /\ idle # 0 /\ row # Nil /\ Accumulates /\ opts.increments => row.v.n = 0

GatherBase == Types /\ NumberInv /\ ServeInv /\ (Accumulates => EntryInv) /\ IdleInv /\ NoWrap

\* With increments.  A child is new to the aggregator, or what its entry has delivered
\* is what the aggregator has of it; and so is the row, when it is added.
ChildN == IF child = Nil THEN 0 ELSE child.v.n
New == got + ChildN <= written
Known(en) == Own(en) /\ got + child.v.n - Delivered(en) <= written
KnownInv ==
    \/ child = Nil \/ New
    \/ state # Nil /\ Known(state)
    \/ state = Nil /\ IsHanded /\ Known(handed.en)

RowNew == got + row.v.n + ChildN <= written
RowKnown(en) == /\ pending.id = en.id
                /\ Leq(en.value, pending.v) /\ Leq(pending.v, child.v)
                /\ got + row.v.n + child.v.n - pending.v.n <= written
RowInv ==
    \/ row = Nil \/ request = "peek" \/ RowNew
    \/ child # Nil /\ state # Nil /\ RowKnown(state)
    \/ state = Nil /\ IsHanded /\ RowKnown(handed.en)

\* A child that is not the one found idle, or that was not there to be gathered.
LateInv ==
    /\ idle # 0 /\ child # Nil /\ child.num # idle =>
           New /\ (row # Nil /\ request # "peek" => RowNew)
    /\ pc = "sweep" /\ complete /\ state # Nil /\ state.last # round => New

TwiceInv == Accumulates /\ opts.increments /\ ~mistaken =>
    got <= written /\ KnownInv /\ RowInv /\ LateInv

\* The row is what is to be committed to an entry less what that has, and of the child.
RowExact ==
    row # Nil =>
        /\ state # Nil /\ state.id = pending.id => row.v.n = pending.v.n - state.value.n
        /\ handed # Nil /\ handed.en.id = pending.id => row.v.n = pending.v.n - handed.en.value.n
        /\ ~blurred /\ row.v.n # 0 => child # Nil /\ state # Nil /\ state.id = pending.id
ConservedInv == Accumulates /\ Carried /\ opts.increments => RowExact /\ Conserved
=============================================================================
