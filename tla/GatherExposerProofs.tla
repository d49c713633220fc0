------------------------ MODULE GatherExposerProofs ------------------------
(***************************************************************************)
(* Proofs about GatherExposer: its inductive invariant (GatherBase), and   *)
(* from it that no increment is negative and that idle cleanup deletes     *)
(* nothing unreported; and, for an exposer of increments, that nothing is  *)
(* counted twice (TwiceInv) and nothing is lost (ConservedInv).            *)
(***************************************************************************)
EXTENDS GatherExposer, TLAPS

\* What the setup holds, as SetupsAssumption has it.
LEMMA SetupTypes ==
    ASSUME setup \in Setups
    PROVE  /\ opts.idle \in Nat /\ opts.gap \in Nat /\ opts.heartbeatScrapes \in Nat \ {0}
           /\ opts.increments \in BOOLEAN /\ opts.genLabel \in BOOLEAN
           /\ opts.increments => opts.gap = 0 /\ ~opts.genLabel
           /\ opts.deletes \in {"vecs", "callback", "none"}
           /\ kind \in Kinds /\ setup.acks \in BOOLEAN /\ setup.fails \in BOOLEAN
BY SetupsAssumption DEF Options, Check, opts, kind

\* An entry is the one the series has, the one handed over, or new.
LEMMA EntryForType ==
    ASSUME state \in Entries \cup {Nil}, handed \in HandedOver \cup {Nil}, now \in Nat,
           NEW num, NEW v, NEW r \in Nat \ {0}
    PROVE  EntryFor(num, v, r) \in Entries
<1>1. CASE state # Nil /\ ~Rebuilt(v, state)
    BY <1>1 DEF EntryFor
<1>2. CASE ~(state # Nil /\ ~Rebuilt(v, state)) /\ handed # Nil /\ Same(handed, num, v)
    <2>1. handed.en \in Entries
        BY <1>2 DEF HandedOver
    <2>2. [handed.en EXCEPT !.changed = r] \in Entries
        BY <2>1 DEF Entries
    <2> QED BY <1>2, <2>2 DEF EntryFor
<1>3. CASE ~(state # Nil /\ ~Rebuilt(v, state)) /\ ~(handed # Nil /\ Same(handed, num, v))
    <2>1. [id |-> r, value |-> Zero, changed |-> r, last |-> r, born |-> now,
           base |-> Zero, basedOn |-> 0] \in Entries
        BY DEF Entries, Zero, Values
    <2> QED BY <1>3, <2>1 DEF EntryFor
<1> QED BY <1>1, <1>2, <1>3

\* decide keeps the entry's id and, of what accumulates, its value; what is to be
\* committed and the row go together.
LEMMA DecideParts ==
    ASSUME setup \in Setups, NEW v \in Values, NEW en \in Entries, NEW r \in Nat, NEW gen \in Nat,
           NEW d, d = Decide(v, en, r, gen)
    PROVE  /\ d.en \in Entries
           /\ d.en.id = en.id /\ d.en.last = r
           /\ d.en.changed = IF Changed(v, en) THEN r ELSE en.changed
           /\ d.en.value = IF kind = "summary" THEN v ELSE en.value
           /\ d.en.base = en.base \/ (Accumulates /\ d.en.base = en.value)
<1> DEFINE seen == [en EXCEPT !.last = r, !.changed = IF Changed(v, en) THEN r ELSE @,
                              !.value = IF kind = "summary" THEN v ELSE @]
           based == IF Accumulates THEN Rebase(seen, gen) ELSE seen
<1>1. d.en = seen \/ d.en = based
    BY DEF Decide
<1>2. /\ seen \in Entries /\ seen.id = en.id /\ seen.last = r /\ seen.base = en.base
      /\ seen.changed = IF Changed(v, en) THEN r ELSE en.changed
      /\ seen.value = IF kind = "summary" THEN v ELSE en.value
    BY DEF Entries
<1>3. Accumulates => kind # "summary"
    BY DEF Accumulates
<1>4. /\ based \in Entries /\ based.id = seen.id /\ based.last = seen.last
      /\ based.changed = seen.changed /\ based.value = seen.value
      /\ based.base = seen.base \/ (Accumulates /\ based.base = seen.value)
    <2> HIDE DEF seen
    <2> QED BY <1>2 DEF Entries, Rebase
<1> HIDE DEF seen, based
<1> QED BY <1>1, <1>2, <1>3, <1>4

\* What is written of it, and what is to be committed.
LEMMA DecideRow ==
    ASSUME setup \in Setups, NEW v \in Values, NEW en \in Entries, NEW r \in Nat, NEW gen \in Nat,
           NEW d, d = Decide(v, en, r, gen)
    PROVE  /\ d.row \in Rows \cup {Nil} /\ d.pending \in Pendings \cup {Nil}
           /\ Accumulates => (d.row = Nil <=> d.pending = Nil)
           /\ Accumulates /\ d.row # Nil =>
                 /\ d.pending.id = en.id /\ d.pending.v.n = v.n
                 /\ d.pending.v.low = IF Changed(v, en) THEN v.low ELSE en.value.low
                 /\ d.row.v = IF opts.increments THEN Minus(v, en.value)
                              ELSE IF gen # 0 THEN Minus(v, d.en.base) ELSE v
           /\ d.pending # Nil => d.pending.id = en.id
<1> DEFINE changed == Changed(v, en)
           seen == [en EXCEPT !.last = r, !.changed = IF changed THEN r ELSE @,
                              !.value = IF kind = "summary" THEN v ELSE @]
           based == IF Accumulates THEN Rebase(seen, gen) ELSE seen
           value == IF ~Accumulates THEN v
                    ELSE IF opts.increments THEN Minus(v, en.value)
                    ELSE IF gen # 0 THEN Minus(v, based.base)
                    ELSE v
           p == [id |-> en.id, v |-> [v EXCEPT !.low = IF changed THEN @ ELSE en.value.low]]
<1>1. based \in Entries
    <2>1. seen \in Entries
        BY DEF Entries
    <2> HIDE DEF seen
    <2> QED BY <2>1 DEF Entries, Rebase
<1>2. value \in [n : Int, sum : Int, low : Int]
    <2> HIDE DEF based
    <2>1. based.base \in Values /\ en.value \in Values
        BY <1>1 DEF Entries
    <2> QED BY <2>1 DEF Values, Minus
<1>3. Stamp(value, based, gen) \in Rows /\ Stamp(value, based, gen).v = value
    <2> HIDE DEF based, value
    <2>1. GenOf(based, gen) \in Nat
        BY <1>1 DEF GenOf, Entries
    <2> QED BY <1>2, <2>1 DEF Stamp, Rows
<1>4. p \in Pendings /\ p.id = en.id /\ p.v.n = v.n
      /\ p.v.low = IF changed THEN v.low ELSE en.value.low
    <2>1. en.value \in Values /\ en.id \in Nat
        BY DEF Entries
    <2> HIDE DEF changed
    <2> QED BY <2>1 DEF Pendings, Values
<1>5. Accumulates => kind # "summary"
    BY DEF Accumulates
<1>6. CASE Accumulates /\ ~changed /\ ~HeartbeatTurn(r)
    <2>1. d.row = Nil /\ d.pending = Nil
        BY <1>6 DEF Decide
    <2> QED BY <2>1
<1>7. CASE ~(Accumulates /\ ~changed /\ ~HeartbeatTurn(r))
    <2>1. /\ d.row = Stamp(value, based, gen) /\ d.en = based
          /\ d.pending = IF kind = "summary" THEN Nil ELSE p
        BY <1>7 DEF Decide
    <2> HIDE DEF changed, based, value, p
    <2>2. d.row \in Rows /\ d.row # Nil /\ d.row.v = value /\ p # Nil
        BY <2>1, <1>3, <1>4, NilAssumption
    <2>3. Accumulates => value = IF opts.increments THEN Minus(v, en.value)
                                 ELSE IF gen # 0 THEN Minus(v, d.en.base) ELSE v
        BY <2>1 DEF value
    <2> QED BY <2>1, <2>2, <2>3, <1>4, <1>5 DEF changed
<1> QED BY <1>6, <1>7

-----------------------------------------------------------------------------
(* Type correctness *)

\* A commit leaves entries entries.
LEMMA CommitTypes ==
    ASSUME state \in Entries \cup {Nil}, handed \in HandedOver \cup {Nil},
           NEW p, p = Nil \/ p.v \in Values, Commit(p)
    PROVE  state' \in Entries \cup {Nil} /\ handed' \in HandedOver \cup {Nil}
<1>1. ASSUME NEW en \in Entries PROVE Apply(en, p) \in Entries
    BY DEF Apply, Entries
<1>2. Apply(Nil, p) = Nil
    BY DEF Apply
<1>3. CASE handed # Nil
    <2>1. handed.en \in Entries
        BY <1>3 DEF HandedOver
    <2>2. handed' = [handed EXCEPT !.en = Apply(handed.en, p)]
        BY <1>3 DEF Commit
    <2>3. handed' \in HandedOver
        BY <2>1, <2>2, <1>1, <1>3 DEF HandedOver
    <2> QED BY <2>3, <1>1, <1>2 DEF Commit
<1>4. CASE handed = Nil
    BY <1>4, <1>1, <1>2 DEF Commit
<1> QED BY <1>3, <1>4

LEMMA SettleTypes ==
    ASSUME Types, NEW k, Settle(k)
    PROVE  /\ state' \in Entries \cup {Nil} /\ handed' \in HandedOver \cup {Nil}
           /\ held' \in HeldRounds \cup {Nil} /\ excused' \in BOOLEAN
<1>1. CASE held # Nil /\ Commits(k) /\ Commit(held) /\ held' = Nil
    <2>1. held.v \in Values
        BY <1>1 DEF Types, HeldRounds
    <2> QED BY <1>1, <2>1, CommitTypes DEF Settle, Types
<1> QED BY <1>1 DEF Settle, Types

\* What has been delivered of the child is a number.
LEMMA ReachedType ==
    ASSUME Types
    PROVE  /\ \A en \in Entries : Delivered(en) \in Nat
           /\ Reached \in Nat
<1>1. ASSUME NEW en \in Entries PROVE Delivered(en) \in Nat
    BY <1>1 DEF Delivered, Types, HeldRounds, Entries, Values
<1>2. child # Nil => EntryFor(child.num, child.v, round + 1) \in Entries
    BY EntryForType DEF Types
<1> QED BY <1>1, <1>2 DEF Reached

\* Every variable keeps its type.
LEMMA TypesInductive ==
    ASSUME Types, IdleInv, [GatherNext]_gatherVars
    PROVE  Types'
<1>0. /\ opts.idle \in Nat /\ opts.gap \in Nat /\ opts.increments \in BOOLEAN /\ kind \in Kinds
      /\ opts.deletes \in {"vecs", "callback", "none"}
    BY SetupTypes DEF Types
<1>1. CASE Write
    <2>1. CASE child = Nil
        <3>1. ASSUME NEW d \in {1}, NEW x \in Nat, Put(d, x)
              PROVE  child' \in Children /\ made' \in Nat /\ written' \in Int
            BY <2>1, <3>1 DEF Put, Types, Children, Values, Zero
        <3> QED BY <1>1, <2>1, <3>1, GatherBoundsAssumption
               DEF Write, Types, entryVars, serveVars, aggVars
    <2>2. CASE child # Nil
        <3>1. ASSUME NEW d \in {1, -1}, NEW x \in Nat, Put(d, x), child.v.n + d >= 0
              PROVE  child' \in Children /\ made' \in Nat /\ written' \in Int
            BY <2>2, <3>1 DEF Put, Types, Children, Values
        <3>2. child.v.n \in Nat
            BY <2>2 DEF Types, Children, Values
        <3>3. PICK d \in {1, -1}, x \in Nat : Put(d, x) /\ child.v.n + d >= 0
            BY <1>1, <3>2, GatherBoundsAssumption DEF Write
        <3> QED BY <1>1, <3>1, <3>3 DEF Write, Types, entryVars, serveVars, aggVars
    <2> QED BY <2>1, <2>2
<1>2. CASE AppDelete
    BY <1>2 DEF AppDelete, Types, Children, Values, entryVars, serveVars, aggVars
<1>3. CASE Replace
    BY <1>3 DEF Replace, Types, serveVars, aggVars
<1>4. CASE Tick
    BY <1>4 DEF Tick, Types, appVars, entryVars, serveVars, aggVars
<1>5. ASSUME NEW k \in {"plain", "ack", "peek"}, Serve(k) PROVE Types'
    BY <1>5, SettleTypes DEF Serve, Types, appVars
<1>6. CASE Final
    BY <1>6, SettleTypes DEF Final, Types, appVars, serveVars
<1>7. CASE GatherFails
    BY <1>7 DEF GatherFails, Types, appVars, entryVars, aggVars
<1>8. ASSUME NEW err \in BOOLEAN, NEW found \in BOOLEAN, Gather(err, found) PROVE Types'
    <2>1. rb' \in [last : Nat, gen : Nat, pending : BOOLEAN] /\ round' \in Nat \ {0}
        <3>1. rb' = Due(rb) /\ round' = round + 1
            BY <1>8 DEF Gather
        <3>2. Due(rb) \in [last : Nat, gen : Nat, pending : BOOLEAN]
            BY <1>0 DEF Due, Types
        <3> QED BY <3>1, <3>2 DEF Types
    <2>2. handed' \in HandedOver \cup {Nil} /\ complete' \in BOOLEAN
        BY <1>8 DEF Gather, Types
    <2>3. CASE found /\ Carried
        <3>1. child.v \in Values /\ child.num \in Nat /\ child.v.n \in Nat
            BY <1>8, <2>3 DEF Gather, Types, Children, Values
        <3> DEFINE en == EntryFor(child.num, child.v, round')
                   d == Decide(child.v, en, round', rb'.gen)
        <3>2. en \in Entries
            BY <2>1, EntryForType DEF Types
        <3> HIDE DEF en
        <3>3. d.en \in Entries /\ d.row \in Rows \cup {Nil} /\ d.pending \in Pendings \cup {Nil}
            BY <2>1, <3>1, <3>2, DecideParts, DecideRow DEF Types
        <3> HIDE DEF d
        <3>4. /\ state' = d.en /\ row' = d.row /\ pending' = d.pending
              /\ idle' = IF IsIdle(d.en, round') THEN child.num ELSE 0
              /\ blurred' \in BOOLEAN /\ mistaken' \in BOOLEAN
              /\ lost' = (IF blurred /\ ~blurred' THEN written - got - child.v.n ELSE lost)
              /\ unread' = FALSE
            BY <1>8, <2>3 DEF Gather, en, d
        <3>5. idle' \in Nat /\ lost' \in Int
            BY <3>1, <3>4 DEF Types
        <3>6. /\ pc' = "sweep"
              /\ UNCHANGED <<setup, now, child, made, deletes, written, held, request, scraper,
                             agg, got, excused>>
            BY <1>8 DEF Gather, aggVars
        <3> QED BY <2>1, <2>2, <3>3, <3>4, <3>5, <3>6 DEF Types
    <2>4. CASE ~(found /\ Carried)
        BY <1>8, <2>1, <2>2, <2>4 DEF Gather, Types, aggVars
    <2> QED BY <2>3, <2>4
<1>9. CASE Sweep
    <2>1. /\ child' \in Children \cup {Nil} /\ state' \in Entries \cup {Nil}
          /\ handed' \in HandedOver \cup {Nil} /\ lost' \in Int
        <3>1. CASE DeleteFromVec /\ request # "peek" /\ idle # 0
            <4>1. state \in Entries /\ [state EXCEPT !.changed = round] \in Entries
                BY <1>9, <3>1 DEF Sweep, IdleInv, Types, Entries
            <4> QED BY <3>1, <4>1 DEF Types, DeleteFromVec
        <3>2. CASE DeleteByCallback /\ request # "peek" /\ idle # 0
            <4>1. CreatedOf(idle) \in Nat
                BY DEF CreatedOf, Types
            <4>2. state # Nil => [en |-> state, created |-> CreatedOf(idle)] \in HandedOver
                BY <4>1 DEF HandedOver, Types
            <4>3. state # Nil
                BY <1>9, <3>2 DEF Sweep, IdleInv, DeleteByCallback
            <4>4. child # Nil => lost + child.v.n - Reached \in Int
                BY ReachedType DEF Types, Children, Values
            <4> QED BY <3>2, <4>2, <4>3, <4>4 DEF Types, DeleteByCallback
        <3> QED BY <1>9, <3>1, <3>2 DEF Sweep, Types
    <2> QED BY <1>9, <2>1 DEF Sweep, Types, aggVars
<1>10. ASSUME NEW o \in {"aborted", "processed", "seen", "missed"}, Respond(o) PROVE Types'
    <2>1. agg' \in Inputs \cup {Nil} /\ got' \in Int
        <3>1. CASE o = "processed" /\ row # Nil
            <4>1. row.v.n \in Int /\ row.gen \in Nat
                BY <3>1 DEF Types, Rows
            <4>2. agg # Nil => agg.last \in Int
                BY DEF Types, Inputs
            <4> QED BY <1>10, <3>1, <4>1, <4>2 DEF Respond, Consume, Types, Inputs
        <3>2. CASE ~(o = "processed" /\ row # Nil)
            BY <1>10, <3>2 DEF Respond, Consume, Types
        <3> QED BY <3>1, <3>2
    <2>2. scraper' \in [had : BOOLEAN, processed : Nat]
        BY <1>10 DEF Respond, Types
    <2>3. pending = Nil \/ pending \in Pendings
        BY DEF Types
    <2>4. state' \in Entries \cup {Nil} /\ handed' \in HandedOver \cup {Nil}
        <3>1. CASE Commit(pending)
            BY <2>3, <3>1, CommitTypes DEF Types, Pendings
        <3> QED BY <1>10, <3>1 DEF Respond, Types
    <2>5. held' \in HeldRounds \cup {Nil} /\ rb' \in [last : Nat, gen : Nat, pending : BOOLEAN]
        <3>1. [rb EXCEPT !.last = now, !.pending = FALSE] \in [last : Nat, gen : Nat, pending : BOOLEAN]
            BY DEF Types
        <3>2. [round |-> round, v |-> IF pending = Nil THEN Zero ELSE pending.v,
               id |-> IF pending = Nil THEN 0 ELSE pending.id] \in HeldRounds
            BY <2>3 DEF Types, HeldRounds, Pendings, Zero, Values
        <3> QED BY <1>10, <3>1, <3>2 DEF Respond, Types
    <2> QED BY <1>10, <2>1, <2>2, <2>4, <2>5 DEF Respond, Types, appVars
<1>11. CASE UNCHANGED gatherVars
    BY <1>11 DEF Types, gatherVars, appVars, entryVars, serveVars, aggVars
<1> QED BY <1>1, <1>2, <1>3, <1>4, <1>5, <1>6, <1>7, <1>8, <1>9, <1>10, <1>11 DEF GatherNext

-----------------------------------------------------------------------------
(* What the steps do *)

\* A write puts a child, the one there is or a new one.
LEMMA WriteParts ==
    ASSUME Types, Write
    PROVE  \E d \in {1, -1} :
             /\ kind # "gauge" => d = 1
             /\ child' \in Children /\ child' # Nil /\ made' \in Nat
             /\ written' = written + d
             /\ child = Nil => /\ d = 1 /\ made' = made + 1
                               /\ child'.num = made + 1 /\ child'.v.n = 1
             /\ child # Nil => /\ made' = made /\ child'.num = child.num
                               /\ child'.v.n = child.v.n + d /\ child'.v.low >= child.v.low
<1>1. PICK d \in {1, -1}, x \in Nat : /\ Put(d, x) /\ (kind # "gauge" => d = 1)
                                      /\ child = Nil => d = 1
                                      /\ child # Nil => child.v.n + d >= 0
    <2>1. child # Nil => child.v.n \in Nat
        BY DEF Types, Children, Values
    <2> QED BY <2>1, GatherBoundsAssumption DEF Write
<1>2. child' \in Children /\ made' \in Nat
    <2>1. CASE child = Nil
        BY <1>1, <2>1 DEF Put, Types, Children, Values, Zero
    <2>2. CASE child # Nil
        BY <1>1, <2>2 DEF Put, Types, Children, Values
    <2> QED BY <2>1, <2>2
<1>3. CASE child = Nil
    BY <1>1, <1>2, <1>3, NilAssumption DEF Put, Zero, Write, Types
<1>4. CASE child # Nil
    <2>1. child \in Children /\ child.v.low \in Nat
        BY <1>4 DEF Types, Children, Values
    <2> QED BY <1>1, <1>2, <1>4, <2>1, NilAssumption DEF Put, Write, Types, Children, Values
<1> QED BY <1>3, <1>4

\* A commit changes only the values of the entries it was taken for.
LEMMA CommitParts ==
    ASSUME state \in Entries \cup {Nil}, handed \in HandedOver \cup {Nil},
           NEW p, p = Nil \/ p.v \in Values, Commit(p)
    PROVE  /\ state' = Nil <=> state = Nil
           /\ handed' = Nil <=> handed = Nil
           /\ state # Nil =>
                 /\ state'.id = state.id /\ state'.base = state.base /\ state'.last = state.last
                 /\ state'.value = IF p # Nil /\ state.id = p.id THEN p.v ELSE state.value
           /\ handed # Nil =>
                 /\ handed'.created = handed.created
                 /\ handed'.en.id = handed.en.id /\ handed'.en.base = handed.en.base
                 /\ handed'.en.value = IF p # Nil /\ handed.en.id = p.id THEN p.v
                                                                     ELSE handed.en.value
<1>1. ASSUME NEW en \in Entries
      PROVE  /\ Apply(en, p) \in Entries
             /\ Apply(en, p).id = en.id /\ Apply(en, p).base = en.base
             /\ Apply(en, p).last = en.last
             /\ Apply(en, p).value = IF p # Nil /\ en.id = p.id THEN p.v ELSE en.value
    BY <1>1, NilAssumption DEF Apply, Entries
<1>2. state # Nil => state \in Entries
    OBVIOUS
<1>3. handed # Nil => handed.en \in Entries /\ handed \in HandedOver
    BY DEF HandedOver
<1>4. handed # Nil => handed' = [handed EXCEPT !.en = Apply(handed.en, p)]
    BY DEF Commit
<1>5. handed # Nil => /\ handed' \in HandedOver /\ handed'.created = handed.created
                      /\ handed'.en = Apply(handed.en, p)
    BY <1>1, <1>3, <1>4 DEF HandedOver
<1>6. state' = Apply(state, p) /\ (handed = Nil => handed' = Nil) /\ Apply(Nil, p) = Nil
    BY DEF Commit, Apply
<1> QED BY <1>1, <1>2, <1>3, <1>5, <1>6, NilAssumption

\* The entry of a child is the one there is, unless the child was rebuilt, the one
\* handed over with the child left in place, or a new one.
LEMMA EntryForCases ==
    ASSUME Types, NumberInv, child # Nil, NEW en, en = EntryFor(child.num, child.v, round + 1)
    PROVE  /\ en \in Entries
           /\ \/ state # Nil /\ ~Rebuilt(child.v, state) /\ en = state
              \/ /\ state # Nil => Rebuilt(child.v, state)
                 /\ handed # Nil /\ (kind # "gauge" => IsHanded)
                 /\ en.id = handed.en.id /\ en.value = handed.en.value /\ en.base = handed.en.base
                 /\ en.changed = round + 1
              \/ /\ state # Nil => Rebuilt(child.v, state)
                 /\ kind # "gauge" => ~IsHanded
                 /\ en.id = round + 1 /\ en.value = Zero /\ en.base = Zero
                 /\ en.changed = round + 1
<1>1. child.num \in Nat \ {0} /\ round + 1 \in Nat \ {0}
    BY DEF Types, Children
<1>2. en \in Entries
    BY <1>1, EntryForType DEF Types
<1>3. CASE state # Nil /\ ~Rebuilt(child.v, state)
    BY <1>2, <1>3 DEF EntryFor
<1>4. CASE ~(state # Nil /\ ~Rebuilt(child.v, state)) /\ handed # Nil /\ Same(handed, child.num, child.v)
    <2>1. en = [handed.en EXCEPT !.changed = round + 1] /\ handed.en \in Entries
        BY <1>4 DEF EntryFor, Types, HandedOver
    <2>2. kind # "gauge" => IsHanded
        BY <1>1, <1>4 DEF Same, CreatedOf, IsHanded
    <2> QED BY <1>2, <1>4, <2>1, <2>2 DEF Entries
<1>5. CASE ~(state # Nil /\ ~Rebuilt(child.v, state)) /\ ~(handed # Nil /\ Same(handed, child.num, child.v))
    <2>1. en = [id |-> round + 1, value |-> Zero, changed |-> round + 1, last |-> round + 1,
                born |-> now, base |-> Zero, basedOn |-> 0]
        BY <1>5 DEF EntryFor
    <2>2. kind # "gauge" => ~IsHanded
        BY <1>1, <1>5 DEF Same, CreatedOf, IsHanded
    <2> QED BY <1>2, <1>5, <2>1, <2>2
<1> QED BY <1>3, <1>4, <1>5

\* A series that is found.
LEMMA GatherFound ==
    ASSUME Types, NEW err \in BOOLEAN, NEW found \in BOOLEAN, Gather(err, found), found, Carried,
           NEW en, en = EntryFor(child.num, child.v, round + 1)
    PROVE  /\ child # Nil /\ child.v \in Values /\ en \in Entries
           /\ pc = "gather" /\ pc' = "sweep" /\ round' = round + 1 /\ complete' = ~err
           /\ unread' = FALSE
           /\ handed' = IF err THEN handed ELSE Nil
           /\ state' \in Entries /\ state'.id = en.id /\ state'.last = round + 1
           /\ state'.changed = IF Changed(child.v, en) THEN round + 1 ELSE en.changed
           /\ state'.value = IF kind = "summary" THEN child.v ELSE en.value
           /\ state'.base = en.base \/ (Accumulates /\ state'.base = en.value)
           /\ idle' = IF IsIdle(state', round + 1) THEN child.num ELSE 0
           /\ row' \in Rows \cup {Nil} /\ pending' \in Pendings \cup {Nil}
           /\ pending' # Nil => pending'.id = en.id
           /\ Accumulates => (row' = Nil <=> pending' = Nil)
           /\ Accumulates /\ row' # Nil =>
                 /\ pending'.id = en.id /\ pending'.v.n = child.v.n
                 /\ pending'.v.low = IF Changed(child.v, en) THEN child.v.low ELSE en.value.low
                 /\ \/ opts.increments /\ row'.v = Minus(child.v, en.value)
                    \/ ~opts.increments /\ row'.v = Minus(child.v, state'.base)
                    \/ ~opts.increments /\ row'.v = child.v
           /\ blurred' = (blurred /\ (en.id # round + 1 \/ ~opts.increments))
           /\ lost' = IF blurred /\ ~blurred' THEN written - got - child.v.n ELSE lost
           /\ mistaken' = (mistaken \/ (~Changed(child.v, en) /\ child.v.low # en.value.low))
           /\ UNCHANGED <<setup, now, child, made, deletes, written, held, request, scraper, agg,
                          got, excused>>
<1>1. /\ child # Nil /\ child.v \in Values
      /\ round' = round + 1 /\ round' \in Nat \ {0} /\ setup \in Setups
    BY DEF Gather, Types, Children
<1>2. en \in Entries
    BY <1>1, EntryForType DEF Types
<1>3. rb'.gen \in Nat
    <2>1. rb' = Due(rb)
        BY DEF Gather
    <2>2. opts.gap \in Nat
        BY <1>1, SetupTypes
    <2> QED BY <2>1, <2>2 DEF Due, Types
<1> DEFINE d == Decide(child.v, en, round', rb'.gen)
<1>4. /\ pc = "gather" /\ pc' = "sweep" /\ complete' = ~err /\ unread' = FALSE
      /\ handed' = IF err THEN handed ELSE Nil
      /\ state' = d.en /\ row' = d.row /\ pending' = d.pending
      /\ idle' = IF IsIdle(d.en, round') THEN child.num ELSE 0
      /\ blurred' = (blurred /\ (en.id # round + 1 \/ ~opts.increments))
      /\ lost' = IF blurred /\ ~blurred' THEN written - got - child.v.n ELSE lost
      /\ mistaken' = (mistaken \/ (~Changed(child.v, en) /\ child.v.low # en.value.low))
      /\ UNCHANGED <<setup, now, child, made, deletes, written, held, request, scraper, agg,
                     got, excused>>
    BY <1>1 DEF Gather, aggVars
<1> HIDE DEF d
<1>5. /\ d.en \in Entries /\ d.en.id = en.id /\ d.en.last = round'
      /\ d.en.changed = IF Changed(child.v, en) THEN round' ELSE en.changed
      /\ d.en.value = IF kind = "summary" THEN child.v ELSE en.value
      /\ d.en.base = en.base \/ (Accumulates /\ d.en.base = en.value)
    BY <1>1, <1>2, <1>3, DecideParts DEF d
<1>6. /\ d.row \in Rows \cup {Nil} /\ d.pending \in Pendings \cup {Nil}
      /\ Accumulates => (d.row = Nil <=> d.pending = Nil)
      /\ Accumulates /\ d.row # Nil =>
            /\ d.pending.id = en.id /\ d.pending.v.n = child.v.n
            /\ d.pending.v.low = IF Changed(child.v, en) THEN child.v.low ELSE en.value.low
            /\ d.row.v = IF opts.increments THEN Minus(child.v, en.value)
                         ELSE IF rb'.gen # 0 THEN Minus(child.v, d.en.base) ELSE child.v
      /\ d.pending # Nil => d.pending.id = en.id
    BY <1>1, <1>2, <1>3, DecideRow DEF d
<1> QED BY <1>1, <1>2, <1>4, <1>5, <1>6

-----------------------------------------------------------------------------
(* The invariant *)

\* Settling keeps ids and creation times, and leaves nothing held but for a peek.
LEMMA SettleParts ==
    ASSUME Types, NEW k, Settle(k)
    PROVE  /\ state' = Nil <=> state = Nil
           /\ handed' = Nil <=> handed = Nil
           /\ state # Nil => state'.id = state.id /\ state'.last = state.last
           /\ handed # Nil => handed'.created = handed.created /\ handed'.en.id = handed.en.id
           /\ k # "peek" => held' = Nil
           /\ held' = Nil \/ held' = held
<1>1. held # Nil => held.v \in Values
    BY DEF Types, HeldRounds
<1>2. CASE held # Nil /\ Commit(held)
    BY <1>1, <1>2, CommitParts DEF Settle, Types
<1> QED BY <1>2 DEF Settle

\* Numbers only grow, and a new instance or entry has a number of its own.
LEMMA NumberInductive ==
    ASSUME Types, NumberInv, IdleInv, [GatherNext]_gatherVars
    PROVE  NumberInv'
<1>1. CASE Write
    <2>2. /\ child' # Nil => child'.num <= made'
          /\ made \in Nat /\ made' \in Nat /\ made <= made'
        BY <1>1, WriteParts DEF Types, NumberInv
    <2>3. UNCHANGED <<idle, handed, round, state, held, pending>>
        BY <1>1 DEF Write, entryVars, serveVars
    <2> QED BY <2>2, <2>3 DEF NumberInv, Types, HandedOver
<1>2. CASE AppDelete
    BY <1>2 DEF AppDelete, NumberInv, entryVars, serveVars
<1>3. CASE Replace
    BY <1>3 DEF Replace, NumberInv, serveVars
<1>4. CASE Tick
    BY <1>4 DEF Tick, NumberInv, appVars, entryVars, serveVars
<1>5. ASSUME NEW k \in {"plain", "ack", "peek"}, Serve(k) PROVE NumberInv'
    BY <1>5, SettleParts DEF Serve, NumberInv, appVars
<1>6. CASE Final
    BY <1>6, SettleParts DEF Final, NumberInv, appVars, serveVars
<1>7. CASE GatherFails
    BY <1>7 DEF GatherFails, NumberInv, appVars, entryVars
<1>8. ASSUME NEW err \in BOOLEAN, NEW found \in BOOLEAN, Gather(err, found) PROVE NumberInv'
    <2>1. round \in Nat /\ round' = round + 1 /\ (handed' = Nil \/ handed' = handed)
        BY <1>8 DEF Gather, Types
    <2>2. CASE found /\ Carried
        <3> DEFINE en == EntryFor(child.num, child.v, round + 1)
        <3>1. /\ child # Nil /\ en.id \in Nat /\ en.id <= round + 1
              /\ state' # Nil /\ state'.id = en.id /\ (pending' # Nil => pending'.id = en.id)
              /\ idle' \in {0, child.num}
              /\ UNCHANGED <<child, made, held>>
            <4>1. child # Nil
                BY <1>8, <2>2 DEF Gather
            <4>2. en.id <= round + 1 /\ en \in Entries
                BY <4>1, EntryForCases DEF NumberInv, Types, Entries, HandedOver
            <4> HIDE DEF en
            <4> QED BY <1>8, <2>2, <4>2, GatherFound, NilAssumption DEF en, Entries
        <3> HIDE DEF en
        <3> QED BY <2>1, <3>1 DEF NumberInv, Types, HandedOver, Entries, HeldRounds, Children
    <2>3. CASE ~(found /\ Carried)
        BY <1>8, <2>1, <2>3 DEF Gather, NumberInv, Types, HandedOver, Entries, HeldRounds
    <2> QED BY <2>2, <2>3
<1>9. CASE Sweep
    <2>1. /\ UNCHANGED <<made, held, round, pending, idle>>
          /\ child' = child \/ child' = Nil
          /\ state' # Nil => state'.id <= round
          /\ handed' # Nil => handed'.created <= made /\ handed'.en.id <= round
        <3>1. CASE DeleteFromVec /\ request # "peek" /\ idle # 0
            <4>1. state \in Entries /\ [state EXCEPT !.changed = round].id = state.id
                BY <1>9, <3>1 DEF Sweep, IdleInv, Types, Entries
            <4>2. state' \in {Nil, state, [state EXCEPT !.changed = round]} /\ child' \in {child, Nil}
                BY <3>1 DEF DeleteFromVec
            <4>3. handed' = handed /\ UNCHANGED <<made, held, round, pending, idle>>
                BY <1>9, <3>1 DEF Sweep, DeleteFromVec
            <4> QED BY <4>1, <4>2, <4>3, NilAssumption DEF NumberInv
        <3>2. CASE DeleteByCallback /\ request # "peek" /\ idle # 0
            <4>1. state # Nil
                BY <1>9, <3>2 DEF Sweep, IdleInv
            <4> QED BY <1>9, <3>2, <4>1 DEF Sweep, DeleteByCallback, NumberInv, CreatedOf, Types
        <3> QED BY <1>9, <3>1, <3>2 DEF Sweep, NumberInv
    <2> QED BY <2>1 DEF NumberInv
<1>10. ASSUME NEW o \in {"aborted", "processed", "seen", "missed"}, Respond(o) PROVE NumberInv'
    <2>1. UNCHANGED <<child, made, round>> /\ idle' = 0 /\ pending' = Nil
        BY <1>10 DEF Respond, appVars
    <2>2. CASE Commit(pending) /\ held' = held
        <3>1. pending = Nil \/ pending.v \in Values
            BY DEF Types, Pendings
        <3> QED BY <2>1, <2>2, <3>1, CommitParts DEF NumberInv, Types
    <2>3. CASE UNCHANGED <<state, handed>>
        <3>1. held' = held \/ held'.id = 0 \/ (pending # Nil /\ held'.id = pending.id)
            BY <1>10, <2>3 DEF Respond
        <3> QED BY <2>1, <2>3, <3>1 DEF NumberInv, Types
    <2> QED BY <1>10, <2>2, <2>3 DEF Respond
<1>11. CASE UNCHANGED gatherVars
    BY <1>11 DEF NumberInv, gatherVars, appVars, entryVars, serveVars
<1> QED BY <1>1, <1>2, <1>3, <1>4, <1>5, <1>6, <1>7, <1>8, <1>9, <1>10, <1>11 DEF GatherNext

\* What Serve has done at each of its steps.
LEMMA ServeInductive ==
    ASSUME Types, ServeInv, IdleInv, [GatherNext]_gatherVars
    PROVE  ServeInv'
<1> USE DEF Accumulates, Carried, Requests, opts, kind
<1>1. CASE Write
    BY <1>1, WriteParts DEF Write, ServeInv, entryVars, serveVars, aggVars
<1>2. CASE AppDelete
    BY <1>2 DEF AppDelete, ServeInv, Types, entryVars, serveVars, aggVars
<1>3. CASE Replace
    BY <1>3 DEF Replace, ServeInv, serveVars, aggVars
<1>4. CASE Tick
    BY <1>4 DEF Tick, ServeInv, appVars, entryVars, serveVars, aggVars
<1>5. ASSUME NEW k \in {"plain", "ack", "peek"}, Serve(k) PROVE ServeInv'
    BY <1>5, SettleParts DEF Serve, ServeInv, appVars
<1>6. CASE Final
    BY <1>6, SettleParts DEF Final, ServeInv, appVars, serveVars, Types
<1>7. CASE GatherFails
    BY <1>7 DEF GatherFails, ServeInv, appVars, entryVars, aggVars
<1>8. ASSUME NEW err \in BOOLEAN, NEW found \in BOOLEAN, Gather(err, found) PROVE ServeInv'
    <2>1. round \in Nat /\ scraper.processed \in Nat
        BY DEF Types
    <2>2. CASE found /\ Carried
        <3> DEFINE en == EntryFor(child.num, child.v, round + 1)
        <3>1. /\ child # Nil /\ UNCHANGED <<setup, child, held, request, scraper>>
              /\ pc = "gather" /\ pc' = "sweep" /\ round' = round + 1
              /\ state' # Nil /\ state'.last = round + 1
              /\ Accumulates => (row' = Nil <=> pending' = Nil)
            BY <1>8, <2>2, GatherFound, NilAssumption DEF en
        <3> QED BY <2>1, <2>2, <3>1 DEF ServeInv
    <2>3. CASE ~(found /\ Carried)
        BY <1>8, <2>1, <2>3 DEF Gather, ServeInv, Types, aggVars
    <2> QED BY <2>2, <2>3
<1>9. CASE Sweep
    <2>1. /\ pc' = "respond"
          /\ UNCHANGED <<setup, scraper, round, row, pending, idle, request, held, blurred>>
          /\ state' # Nil => state # Nil /\ (child' = Nil => child = Nil)
          /\ handed' # Nil => handed # Nil \/ state # Nil
        BY <1>9 DEF Sweep, aggVars, DeleteFromVec, DeleteByCallback, IdleInv
    <2> QED BY <1>9, <2>1 DEF Sweep, ServeInv
<1>10. ASSUME NEW o \in {"aborted", "processed", "seen", "missed"}, Respond(o) PROVE ServeInv'
    <2>1. /\ UNCHANGED <<setup, child, round, blurred>> /\ idle' = 0 /\ pending' = Nil /\ row' = Nil
          /\ pc = "respond" /\ pc' = "rest" /\ scraper'.processed \in {round, scraper.processed}
        BY <1>10 DEF Respond, appVars
    <2>2. (state' = Nil <=> state = Nil) /\ (handed' = Nil <=> handed = Nil)
        <3>1. CASE Commit(pending)
            <4>1. pending = Nil \/ pending.v \in Values
                BY DEF Types, Pendings
            <4> QED BY <3>1, <4>1, CommitParts DEF Types
        <3> QED BY <1>10, <3>1 DEF Respond
    <2> QED BY <2>1, <2>2 DEF ServeInv, Types
<1>11. CASE UNCHANGED gatherVars
    BY <1>11 DEF ServeInv, gatherVars, appVars, entryVars, serveVars, aggVars
<1> QED BY <1>1, <1>2, <1>3, <1>4, <1>5, <1>6, <1>7, <1>8, <1>9, <1>10, <1>11 DEF GatherNext

\* The entry a child is reported against, of what accumulates.
LEMMA TakenOver ==
    ASSUME Types, NumberInv, EntryInv, Accumulates, child # Nil,
           NEW en, en = EntryFor(child.num, child.v, round + 1)
    PROVE  /\ en \in Entries
           /\ state # Nil /\ ~blurred => en = state
           /\ IsHanded => en.id = handed.en.id /\ en.value = handed.en.value
           /\ en.id = round + 1 => en.value = Zero
           /\ en = state \/ en.changed = round + 1
           /\ state = Nil /\ ~IsHanded => en.id = round + 1
           /\ \/ en.id = round + 1
              \/ state # Nil /\ en = state
              \/ IsHanded
           /\ ~mistaken /\ (Changed(child.v, en) \/ child.v.low = en.value.low) =>
                  Leq(en.value, child.v)
           /\ ~blurred \/ en.id = round + 1 => Own(en)
           /\ ~mistaken => /\ Leq(en.base, en.value)
                           /\ held # Nil /\ held.id = en.id => Leq(en.value, held.v)
<1>1. child.v \in Values /\ child.v.n \in Nat /\ child.v.low \in Nat
    BY DEF Types, Children, Values
<1>2. kind \in {"counter", "histogram"}
    BY DEF Accumulates
<1>3. state # Nil => /\ state.id \in Nat /\ state.id <= round
                     /\ state.value.n \in Nat /\ state.value.low \in Nat
    BY DEF Types, Entries, Values, NumberInv
<1>4. handed # Nil => handed.en.id <= round /\ handed.en.id \in Nat
    BY DEF NumberInv, Types, HandedOver, Entries
<1>5. held # Nil => held.id <= round /\ held.id \in Nat
    BY DEF NumberInv, Types, HeldRounds
<1>6. pending # Nil => pending.id <= round /\ pending.id \in Nat
    BY DEF NumberInv, Types, Pendings
<1>7. round \in Nat
    BY DEF Types
<1>8. state # Nil /\ ~blurred => ~Rebuilt(child.v, state)
    BY <1>1, <1>2, <1>3 DEF EntryInv, Own, Leq, Rebuilt
<1>9. CASE state # Nil /\ ~Rebuilt(child.v, state) /\ en = state
    <2>1. ~mistaken /\ (Changed(child.v, en) \/ child.v.low = en.value.low) =>
              Leq(en.value, child.v)
        BY <1>1, <1>2, <1>3, <1>9 DEF Rebuilt, Changed, Leq
    <2>2. en.id # round + 1
        BY <1>3, <1>7, <1>9
    <2>3. IsHanded => handed # Nil /\ state.id = handed.en.id /\ state.value = handed.en.value
        BY <1>9 DEF EntryInv, IsHanded
    <2> QED BY <1>9, <2>1, <2>2, <2>3 DEF EntryInv, Grows, Types
<1>10. CASE /\ state # Nil => Rebuilt(child.v, state)
            /\ IsHanded /\ en.changed = round + 1
            /\ en.id = handed.en.id /\ en.value = handed.en.value /\ en.base = handed.en.base
    <2>1. handed # Nil /\ en.id # round + 1
        BY <1>4, <1>7, <1>10 DEF IsHanded
    <2>2. ~blurred => Own(en)
        BY <1>10 DEF EntryInv, Own
    <2>3. ~mistaken => /\ Leq(en.value, child.v) /\ Leq(en.base, en.value)
                       /\ held # Nil /\ held.id = en.id => Leq(en.value, held.v)
        BY <1>10, <2>1 DEF EntryInv, Own, Grows
    <2> QED BY <1>8, <1>10, <2>1, <2>2, <2>3, EntryForCases
<1>11. CASE /\ state # Nil => Rebuilt(child.v, state)
            /\ ~IsHanded /\ en.changed = round + 1
            /\ en.id = round + 1 /\ en.value = Zero /\ en.base = Zero
    <2>1. Leq(en.value, child.v) /\ Leq(en.base, en.value)
        BY <1>1, <1>11 DEF Leq, Zero
    <2>2. Own(en) /\ ~(held # Nil /\ held.id = en.id)
        BY <1>5, <1>6, <1>7, <1>11, <2>1 DEF Own
    <2> QED BY <1>8, <1>11, <2>1, <2>2, EntryForCases
<1> QED BY <1>2, <1>9, <1>10, <1>11, EntryForCases

\* A commit gives an entry the value taken for it, which was not below its own.
LEMMA CommitEntry ==
    ASSUME Types, EntryInv, NEW p \in {held, pending}, Commit(p),
           UNCHANGED <<setup, child, blurred, mistaken>>, held' = Nil, pending' = Nil
    PROVE  EntryInv'
<1>1. p = Nil \/ p.v \in Values
    BY DEF Types, HeldRounds, Pendings
<1>2. /\ state' = Nil <=> state = Nil
      /\ handed' = Nil <=> handed = Nil
      /\ state # Nil => /\ state'.id = state.id /\ state'.base = state.base
                        /\ state'.value = IF p # Nil /\ state.id = p.id THEN p.v ELSE state.value
      /\ handed # Nil => /\ handed'.created = handed.created
                         /\ handed'.en.id = handed.en.id /\ handed'.en.base = handed.en.base
                         /\ handed'.en.value = IF p # Nil /\ handed.en.id = p.id THEN p.v
                                                                           ELSE handed.en.value
    BY <1>1, CommitParts DEF Types
<1>3. ASSUME NEW en \in Entries, NEW w \in Entries, Grows(en), w.id = en.id, w.base = en.base,
             w.value = IF p # Nil /\ en.id = p.id THEN p.v ELSE en.value
      PROVE  Leq(w.base, w.value)
    <2>1. en.base \in Values /\ en.value \in Values
        BY DEF Entries
    <2> QED BY <1>1, <1>3, <2>1 DEF Grows, Leq, Values
<1>4. ASSUME NEW en \in Entries, NEW w, Own(en),
             w.value = IF p # Nil /\ en.id = p.id THEN p.v ELSE en.value
      PROVE  Leq(w.value, child.v)
    BY <1>4 DEF Own
<1>5. state # Nil => state \in Entries /\ state' \in Entries
    BY <1>1, <1>2, CommitTypes DEF Types
<1>6. handed # Nil => handed.en \in Entries /\ handed'.en \in Entries
    BY <1>1, <1>2, CommitTypes DEF Types, HandedOver
<1>7. IsHanded' <=> IsHanded
    BY <1>2 DEF IsHanded
<1>8. state' # Nil /\ ~mistaken' => Grows(state)'
    BY <1>2, <1>3, <1>5 DEF EntryInv, Grows, Leq, kind
<1>9. handed' # Nil /\ ~mistaken' => Grows(handed.en)'
    BY <1>2, <1>3, <1>6 DEF EntryInv, Grows, Leq, kind
<1>10. state' # Nil /\ ~blurred' => Own(state)'
    BY <1>2, <1>4, <1>5 DEF EntryInv, Own, Leq, kind
<1>11. IsHanded' /\ (~blurred' \/ ~mistaken') => Own(handed.en)'
    <2>1. IsHanded => handed # Nil
        BY DEF IsHanded
    <2> QED BY <1>2, <1>4, <1>6, <1>7, <2>1 DEF EntryInv, Own, Leq, kind
<1>12. /\ IsHanded' /\ state' # Nil => state'.id = handed'.en.id
       /\ state' # Nil /\ handed' # Nil /\ state'.id = handed'.en.id =>
              state'.value = handed'.en.value
    <2>1. IsHanded => handed # Nil
        BY DEF IsHanded
    <2> QED BY <1>2, <1>7, <2>1 DEF EntryInv
<1> QED BY <1>8, <1>9, <1>10, <1>11, <1>12 DEF EntryInv

\* A round that is rolled back, or left to be acknowledged, changes no entry.
LEMMA KeepEntry ==
    ASSUME Types, EntryInv, UNCHANGED <<setup, child, state, handed, blurred, mistaken>>,
           pending' = Nil,
           \/ held' = Nil \/ held' = held \/ held'.id = 0
           \/ pending # Nil /\ held'.id = pending.id /\ held'.v = pending.v
    PROVE  EntryInv'
<1>1. state # Nil => state.id # 0
    BY DEF Types, Entries
<1>2. handed # Nil => handed.en.id # 0
    BY DEF Types, HandedOver, Entries
<1>3. ASSUME NEW en, Grows(en), en.id # 0 
      PROVE  Leq(en.base, en.value) /\ (held' # Nil /\ held'.id = en.id => Leq(en.value, held'.v))
    BY <1>3 DEF Grows
<1>4. ASSUME NEW en, Own(en), en.id # 0 
      PROVE  Leq(en.value, child.v) /\ (held' # Nil /\ held'.id = en.id => Leq(held'.v, child.v))
    BY <1>4 DEF Own
<1>5. IsHanded' <=> IsHanded
    BY DEF IsHanded
<1>6. state' # Nil /\ ~mistaken' => Grows(state)'
    BY <1>1, <1>3 DEF EntryInv, Grows, Leq, kind
<1>7. handed' # Nil /\ ~mistaken' => Grows(handed.en)'
    BY <1>2, <1>3 DEF EntryInv, Grows, Leq, kind
<1>8. state' # Nil /\ ~blurred' => Own(state)'
    BY <1>1, <1>4 DEF EntryInv, Own, Leq, kind
<1>9. IsHanded' /\ (~blurred' \/ ~mistaken') => Own(handed.en)'
    <2>1. IsHanded => handed # Nil
        BY DEF IsHanded
    <2> QED BY <1>2, <1>4, <1>5, <2>1 DEF EntryInv, Own, Leq, kind
<1> QED BY <1>5, <1>6, <1>7, <1>8, <1>9 DEF EntryInv

\* The entry of a child holds nothing of another, and what is to be committed to an
\* entry is not below what it has.
LEMMA EntryInductive ==
    ASSUME Types, NumberInv, ServeInv, EntryInv, IdleInv, Accumulates, [GatherNext]_gatherVars
    PROVE  EntryInv'
<1>0. kind # "gauge" /\ kind # "summary"
    BY DEF Accumulates
<1>1. CASE Write
    <2>1. /\ child' \in Children /\ child' # Nil
          /\ child = Nil => child'.num = made + 1
          /\ child # Nil => /\ child'.num = child.num
                            /\ child'.v.n >= child.v.n /\ child'.v.low >= child.v.low
        <3>1. child # Nil => child.v.n \in Nat
            BY DEF Types, Children, Values
        <3> QED BY <1>0, <1>1, <3>1, WriteParts
    <2>2. UNCHANGED <<setup, state, handed, held, pending, blurred, mistaken>>
        BY <1>1 DEF Write, entryVars, serveVars
    <2>3. IsHanded' => IsHanded
        BY <2>1, <2>2 DEF IsHanded, NumberInv, Types, HandedOver
    <2>4. ASSUME NEW v \in Values, Leq(v, child.v), child # Nil PROVE Leq(v, child'.v)
        BY <2>1, <2>4 DEF Leq, Types, Children, Values
    <2>5. /\ held # Nil => held.v \in Values
          /\ pending # Nil => pending.v \in Values
        BY DEF Types, HeldRounds, Pendings
    <2>6. ASSUME NEW en \in Entries, Own(en), child # Nil
          PROVE  /\ Leq(en.value, child'.v)
                 /\ held # Nil /\ held.id = en.id => Leq(held.v, child'.v)
                 /\ pending # Nil /\ pending.id = en.id => Leq(pending.v, child'.v)
        BY <2>4, <2>5, <2>6 DEF Own, Entries
    <2>7. state' # Nil /\ ~mistaken' => Grows(state)'
        BY <2>2 DEF EntryInv, Grows, Leq, kind
    <2>8. handed' # Nil /\ ~mistaken' => Grows(handed.en)'
        BY <2>2 DEF EntryInv, Grows, Leq, kind
    <2>9. state' # Nil /\ ~blurred' => Own(state)'
        <3>1. state' # Nil /\ ~blurred' => child # Nil /\ Own(state) /\ state \in Entries
            BY <2>2 DEF ServeInv, EntryInv, Types
        <3> QED BY <2>2, <2>6, <3>1 DEF Own, Leq, kind
    <2>10. IsHanded' /\ (~blurred' \/ ~mistaken') => Own(handed.en)'
        <3>1. IsHanded' /\ (~blurred' \/ ~mistaken') =>
                  child # Nil /\ Own(handed.en) /\ handed.en \in Entries
            BY <2>2, <2>3 DEF EntryInv, Types, IsHanded, HandedOver
        <3> QED BY <2>2, <2>6, <3>1 DEF Own, Leq, kind
    <2> QED BY <2>2, <2>3, <2>7, <2>8, <2>9, <2>10 DEF EntryInv
<1>2. CASE AppDelete
    <2>1. /\ child' = Nil /\ (~blurred' => state = Nil)
          /\ UNCHANGED <<setup, state, handed, held, pending, mistaken>>
        BY <1>2 DEF AppDelete, entryVars, serveVars, Types
    <2>2. ~IsHanded'
        BY <2>1 DEF IsHanded
    <2>3. /\ state' # Nil /\ ~mistaken' => Grows(state)'
          /\ handed' # Nil /\ ~mistaken' => Grows(handed.en)'
        BY <2>1 DEF EntryInv, Grows, Leq, kind
    <2> QED BY <2>1, <2>2, <2>3 DEF EntryInv
<1>3. CASE Replace
    BY <1>3 DEF Replace, EntryInv, IsHanded
<1>4. CASE Tick
    BY <1>4 DEF Tick, EntryInv, Grows, Own, Leq, IsHanded, appVars, entryVars, serveVars, kind
<1>5. ASSUME NEW k, Settle(k), pc = "rest",
             UNCHANGED <<setup, child, blurred, mistaken, pending>>
      PROVE  EntryInv'
    <2>1. pending' = Nil
        BY <1>5 DEF ServeInv
    <2>2. CASE Commit(held) /\ held' = Nil
        BY <1>5, <2>1, <2>2, CommitEntry
    <2>3. CASE UNCHANGED <<state, handed>>
        BY <1>5, <2>1, <2>3, KeepEntry DEF Settle
    <2> QED BY <1>5, <2>2, <2>3 DEF Settle
<1>6. ASSUME NEW k \in {"plain", "ack", "peek"}, Serve(k) PROVE EntryInv'
    BY <1>5, <1>6 DEF Serve, appVars
<1>7. CASE Final
    BY <1>5, <1>7 DEF Final, appVars, serveVars
<1>8. CASE GatherFails
    BY <1>8 DEF GatherFails, EntryInv, Grows, Own, Leq, IsHanded, appVars, entryVars, kind
<1>9. ASSUME NEW err \in BOOLEAN, NEW found \in BOOLEAN, Gather(err, found) PROVE EntryInv'
    <2>1. pending = Nil
        BY <1>9 DEF Gather, ServeInv
    <2>2. CASE found /\ Carried
        <3> DEFINE en == EntryFor(child.num, child.v, round + 1)
        <3>1. /\ child # Nil /\ child.v \in Values /\ en \in Entries
              /\ handed' = IF err THEN handed ELSE Nil
              /\ state' \in Entries /\ state'.id = en.id /\ state'.value = en.value
              /\ state'.base = en.base \/ state'.base = en.value
              /\ pending' \in Pendings \cup {Nil}
              /\ pending' # Nil =>
                     /\ pending'.id = en.id /\ pending'.v.n = child.v.n
                     /\ pending'.v.low = IF Changed(child.v, en) THEN child.v.low ELSE en.value.low
              /\ blurred' = (blurred /\ (en.id # round + 1 \/ ~opts.increments))
              /\ mistaken' = (mistaken \/ (~Changed(child.v, en) /\ child.v.low # en.value.low))
              /\ UNCHANGED <<setup, child, held>>
            BY <1>0, <1>9, <2>2, GatherFound
        <3>2. /\ state # Nil /\ ~blurred => en = state
              /\ IsHanded => en.id = handed.en.id /\ en.value = handed.en.value
              /\ en.id = round + 1 => en.value = Zero
              /\ \/ en.id = round + 1
                 \/ state # Nil /\ en = state
                 \/ IsHanded
              /\ ~mistaken /\ (Changed(child.v, en) \/ child.v.low = en.value.low) =>
                     Leq(en.value, child.v)
              /\ ~blurred \/ en.id = round + 1 => Own(en)
              /\ ~mistaken => /\ Leq(en.base, en.value)
                              /\ held # Nil /\ held.id = en.id => Leq(en.value, held.v)
            BY <3>1, TakenOver DEF en
        <3> HIDE DEF en
        <3>3. /\ child.v.n \in Nat /\ child.v.low \in Nat /\ en.value.n \in Nat
              /\ en.value.low \in Nat
            BY <3>1 DEF Entries, Values
        <3>4. ~mistaken' \/ ~blurred' => Leq(en.value, child.v)
            BY <3>1, <3>2 DEF Own
        <3>5. ~mistaken' => Leq(state'.base, state'.value)
            <4>1. Leq(en.value, en.value)
                BY <3>3 DEF Leq
            <4>2. ~mistaken' => ~mistaken
                BY <3>1
            <4> QED BY <3>1, <3>2, <4>1, <4>2
        <3>6. pending' # Nil /\ (~mistaken' \/ ~blurred') =>
                  Leq(en.value, pending'.v) /\ Leq(pending'.v, child.v)
            BY <3>1, <3>2, <3>3, <3>4 DEF Leq, Changed
        <3>7. state' # Nil /\ ~mistaken' => Grows(state)'
            BY <3>1, <3>2, <3>5, <3>6 DEF Grows, Leq, kind
        <3>8. state' # Nil /\ ~blurred' => Own(state)'
            BY <3>1, <3>2, <3>4, <3>6 DEF Own, Leq, kind
        <3>9. CASE err /\ handed # Nil
            <4>1. handed' = handed /\ handed.en.id # round + 1 /\ handed.en \in Entries
                BY <3>1, <3>9 DEF NumberInv, Types, HandedOver, Entries
            <4>2. IsHanded' <=> IsHanded
                BY <3>1, <4>1 DEF IsHanded
            <4>3. en.id = handed.en.id => en.value = handed.en.value
                BY <3>2, <3>9, <4>1 DEF EntryInv
            <4>4. ~mistaken' => Grows(handed.en)'
                BY <3>1, <3>6, <3>9, <4>1, <4>3 DEF EntryInv, Grows, Leq, kind
            <4>5. IsHanded /\ (~blurred' \/ ~mistaken') => Own(handed.en)'
                <5>1. IsHanded => ~(blurred /\ ~blurred')
                    BY <3>1, <3>2, <4>1
                <5> QED BY <3>1, <3>2, <3>6, <4>1, <5>1 DEF EntryInv, Own, Leq, kind
            <4> QED BY <3>1, <3>2, <3>7, <3>8, <4>1, <4>2, <4>3, <4>4, <4>5 DEF EntryInv
        <3>10. CASE ~(err /\ handed # Nil)
            <4>1. handed' = Nil
                BY <3>1, <3>10
            <4> QED BY <3>7, <3>8, <4>1 DEF EntryInv, IsHanded
        <3> QED BY <3>9, <3>10
    <2>3. CASE ~(found /\ Carried)
        <3>1. /\ pending' = Nil /\ UNCHANGED <<setup, child, state, held, blurred, mistaken>>
              /\ handed' \in {handed, Nil}
            BY <1>9, <2>3 DEF Gather
        <3>2. CASE handed' = handed
            BY <3>1, <3>2, KeepEntry
        <3>3. CASE handed' = Nil
            <4>1. /\ state' # Nil /\ ~mistaken' => Grows(state)'
                  /\ state' # Nil /\ ~blurred' => Own(state)'
                BY <2>1, <3>1 DEF EntryInv, Grows, Own, Leq, kind
            <4> QED BY <3>3, <4>1 DEF EntryInv, IsHanded
        <3> QED BY <3>1, <3>2, <3>3
    <2> QED BY <2>2, <2>3
<1>10. CASE Sweep
    <2>0. UNCHANGED <<setup, held, pending, blurred, mistaken>>
        BY <1>10 DEF Sweep
    <2>1. CASE DeleteFromVec /\ request # "peek" /\ idle # 0
        <3>1. handed' = handed
            BY <2>1 DEF DeleteFromVec
        <3>2. CASE child' = Nil /\ state' = Nil
            BY <2>0, <3>1, <3>2 DEF EntryInv, IsHanded, Grows, Leq, kind
        <3>3. CASE UNCHANGED <<child, state>>
            BY <2>0, <3>1, <3>3 DEF EntryInv, IsHanded, Own, Grows, Leq, kind
        <3>4. CASE child = Nil /\ child' = Nil /\ state' = [state EXCEPT !.changed = round]
            <4>1. state \in Entries
                BY <1>10, <2>1 DEF Sweep, IdleInv, Types
            <4>2. state'.id = state.id /\ state'.value = state.value /\ state'.base = state.base
                BY <3>4, <4>1 DEF Entries
            <4>3. state # Nil /\ (state # Nil => blurred)
                BY <3>4, <4>1, NilAssumption DEF ServeInv
            <4> QED BY <2>0, <3>1, <3>4, <4>2, <4>3 DEF EntryInv, IsHanded, Grows, Leq, kind
        <3> QED BY <2>1, <3>2, <3>3, <3>4 DEF DeleteFromVec
    <2>2. CASE DeleteByCallback /\ request # "peek" /\ idle # 0
        <3>1. /\ pc = "sweep" /\ state # Nil
              /\ child # Nil /\ child.num = idle /\ ~mistaken => Own(state)
              /\ ~mistaken => Grows(state)
              /\ ~blurred => Own(state)
            BY <1>10, <2>2 DEF Sweep, IdleInv, EntryInv
        <3>2. /\ handed' = [en |-> state, created |-> idle] /\ state' = Nil
              /\ child' \in {child, Nil}
            BY <1>0, <2>2 DEF DeleteByCallback, CreatedOf
        <3>3. IsHanded' => child' = child /\ child # Nil /\ child.num = idle
            BY <3>2 DEF IsHanded
        <3>4. ~mistaken' => Grows(handed.en)'
            BY <2>0, <3>1, <3>2 DEF Grows, Leq, kind
        <3>5. IsHanded' /\ (~blurred' \/ ~mistaken') => Own(handed.en)'
            BY <2>0, <3>1, <3>2, <3>3 DEF Own, Leq, kind
        <3> QED BY <3>2, <3>4, <3>5 DEF EntryInv
    <2>3. CASE UNCHANGED <<child, handed>> /\ state' \in {state, Nil}
        BY <2>0, <2>3 DEF EntryInv, IsHanded, Own, Grows, Leq, kind
    <2> QED BY <1>10, <2>1, <2>2, <2>3 DEF Sweep
<1>11. ASSUME NEW o \in {"aborted", "processed", "seen", "missed"}, Respond(o) PROVE EntryInv'
    <2>1. UNCHANGED <<setup, child, blurred, mistaken>> /\ pending' = Nil
        BY <1>11 DEF Respond, appVars
    <2>2. CASE request = "plain" /\ Commit(pending) /\ held' = held
        <3>1. held = Nil
            BY <1>11, <2>2 DEF Respond, ServeInv
        <3> QED BY <2>1, <2>2, <3>1, CommitEntry
    <2>3. CASE UNCHANGED <<state, handed>>
        <3>1. \/ held' = held \/ held'.id = 0
              \/ pending # Nil /\ held'.id = pending.id /\ held'.v = pending.v
            BY <1>11, <2>3 DEF Respond
        <3> QED BY <2>1, <2>3, <3>1, KeepEntry
    <2> QED BY <1>11, <2>2, <2>3 DEF Respond
<1>12. CASE UNCHANGED gatherVars
    BY <1>12 DEF EntryInv, Grows, Own, Leq, IsHanded, gatherVars, appVars, entryVars, serveVars, kind
<1> QED BY <1>1, <1>2, <1>3, <1>4, <1>6, <1>7, <1>8, <1>9, <1>10, <1>11, <1>12 DEF GatherNext

\* What was found idle was not written before it was gathered.
LEMMA IdleInductive ==
    ASSUME Types, NumberInv, ServeInv, IdleInv, [GatherNext]_gatherVars
    PROVE  IdleInv'
<1>0. opts.idle \in Nat /\ round \in Nat
    BY SetupTypes DEF Types
<1>1. CASE Write
    <2>1. /\ child' \in Children /\ child' # Nil
          /\ child = Nil => child'.num = made + 1
          /\ child # Nil => /\ child'.num = child.num
                            /\ kind # "gauge" => child'.v.n = child.v.n + 1
                            /\ child'.v.low >= child.v.low
        BY <1>1, WriteParts
    <2>2. UNCHANGED <<setup, state, idle, request, pc, row, held, pending, blurred, mistaken>>
        BY <1>1 DEF Write, entryVars, serveVars
    <2>3. child # Nil => child.v.n \in Nat /\ child.v.low \in Nat
        BY DEF Types, Children, Values
    <2>4. ASSUME NEW v \in Values, Leq(v, child.v), child # Nil, kind # "gauge" PROVE Leq(v, child'.v)
        BY <2>1, <2>3, <2>4 DEF Leq, Values, Children
    <2>5. /\ held # Nil => held.v \in Values
          /\ pending # Nil => pending.v \in Values
          /\ state # Nil => state.value \in Values /\ state.value.n \in Nat
        BY DEF Types, HeldRounds, Pendings, Entries, Values
    <2>6. child # Nil /\ Accumulates /\ state # Nil /\ Own(state) => Own(state)'
        <3>1. SUFFICES ASSUME child # Nil, Accumulates, state # Nil, Own(state) PROVE Own(state)'
            OBVIOUS
        <3>2. kind # "gauge"
            BY <3>1 DEF Accumulates
        <3>3. /\ Leq(state.value, child'.v)
              /\ held # Nil /\ held.id = state.id => Leq(held.v, child'.v)
              /\ pending # Nil /\ pending.id = state.id => Leq(pending.v, child'.v)
            BY <2>4, <2>5, <3>1, <3>2 DEF Own
        <3> QED BY <2>2, <3>3 DEF Own, Leq, kind
    <2>7. child = Nil /\ idle # 0 => child'.num # idle
        BY <2>1 DEF NumberInv, Types
    <2>8. pc = "sweep" /\ idle # 0 /\ request # "peek" =>
              /\ state # Nil /\ Deletable(state)'
              /\ child'.num = idle /\ Accumulates /\ ~mistaken => Own(state)'
              /\ ~blurred => child'.num = idle
              /\ ~blurred /\ kind # "gauge" => state.value.n < child'.v.n
        BY <2>1, <2>2, <2>3, <2>5, <2>6, <2>7 DEF IdleInv, Deletable, kind
    <2>9. Accumulates' = Accumulates /\ opts' = opts /\ kind' = kind
        BY <2>2 DEF Accumulates, opts, kind
    <2>10. child'.v.n \in Nat
        BY <2>1 DEF Children, Values
    <2> QED BY <2>1, <2>2, <2>5, <2>8, <2>9, <2>10 DEF IdleInv
<1>2. CASE AppDelete
    <2>1. /\ child' = Nil /\ (~blurred' => state = Nil)
          /\ UNCHANGED <<setup, state, idle, request, pc, row>>
        BY <1>2 DEF AppDelete, entryVars, serveVars, Types
    <2> QED BY <2>1 DEF IdleInv, Deletable, Accumulates, kind, opts
<1>3. ASSUME pc' # "sweep", idle' = idle, setup' = setup, row' = row \/ row' = Nil PROVE IdleInv'
    BY <1>3 DEF IdleInv, Accumulates, kind, opts
<1>4. CASE Replace \/ Tick
    BY <1>3, <1>4 DEF Replace, Tick, serveVars
<1>5. ASSUME NEW k \in {"plain", "ack", "peek"}, Serve(k) PROVE IdleInv'
    BY <1>3, <1>5 DEF Serve
<1>6. CASE Final \/ GatherFails
    BY <1>3, <1>6 DEF Final, GatherFails, serveVars
<1>7. ASSUME NEW err \in BOOLEAN, NEW found \in BOOLEAN, Gather(err, found) PROVE IdleInv'
    <2>1. CASE found /\ Carried
        <3> DEFINE en == EntryFor(child.num, child.v, round + 1)
        <3>1. /\ child # Nil /\ child.v \in Values /\ en \in Entries
              /\ pc = "gather" /\ unread' = FALSE
              /\ state' \in Entries /\ state'.id = en.id
              /\ state'.changed = IF Changed(child.v, en) THEN round + 1 ELSE en.changed
              /\ state'.value = IF kind = "summary" THEN child.v ELSE en.value
              /\ idle' = IF IsIdle(state', round + 1) THEN child.num ELSE 0
              /\ pending' # Nil => pending'.id = en.id
              /\ Accumulates => (row' = Nil <=> pending' = Nil)
              /\ Accumulates /\ row' # Nil =>
                    /\ pending'.v.n = child.v.n
                    /\ pending'.v.low = IF Changed(child.v, en) THEN child.v.low ELSE en.value.low
                    /\ opts.increments => row'.v = Minus(child.v, en.value)
              /\ mistaken' = (mistaken \/ (~Changed(child.v, en) /\ child.v.low # en.value.low))
              /\ UNCHANGED <<setup, child, held, request>>
            BY <1>7, <2>1, GatherFound
        <3> HIDE DEF en
        <3>2. child.v.n \in Nat /\ child.v.low \in Nat
            BY <3>1 DEF Values
        <3>3. CASE idle' # 0
            <4>1. IsIdle(state', round + 1) /\ idle' = child.num
                BY <3>1, <3>3
            <4>2. ~Changed(child.v, en) /\ Deletable(state')
                BY <1>0, <3>1, <4>1 DEF IsIdle
            <4>3. /\ state' # Nil /\ Deletable(state)'
                  /\ state'.value.n = child.v.n
                BY <3>1, <4>2, NilAssumption DEF Changed, Deletable, kind
            <4>4. Accumulates /\ row' # Nil /\ opts.increments => row'.v.n = 0
                BY <3>1, <3>2, <4>2 DEF Changed, Minus
            <4>5. Accumulates /\ ~mistaken' /\ request # "peek" => Own(state)'
                <5>1. ~mistaken' => child.v.low = en.value.low
                    BY <3>1, <4>2
                <5>2. request # "peek" => held = Nil
                    BY <3>1 DEF ServeInv
                <5>3. Accumulates => kind # "summary"
                    BY DEF Accumulates
                <5> QED BY <3>1, <3>2, <4>2, <4>3, <5>1, <5>2, <5>3 DEF Own, Leq, kind, Changed
            <4>6. Accumulates' = Accumulates /\ opts' = opts
                BY <3>1 DEF Accumulates, kind, opts
            <4> QED BY <3>1, <3>2, <4>1, <4>3, <4>4, <4>5, <4>6 DEF IdleInv
        <3>4. CASE idle' = 0
            BY <3>4 DEF IdleInv
        <3> QED BY <3>3, <3>4
    <2>2. CASE ~(found /\ Carried)
        BY <1>7, <2>2 DEF Gather, IdleInv
    <2> QED BY <2>1, <2>2
<1>8. CASE Sweep
    BY <1>3, <1>8 DEF Sweep
<1>9. ASSUME NEW o \in {"aborted", "processed", "seen", "missed"}, Respond(o) PROVE IdleInv'
    BY <1>9 DEF Respond, IdleInv
<1>10. CASE UNCHANGED gatherVars
    BY <1>10 DEF IdleInv, Deletable, Own, Leq, Accumulates, kind, opts, gatherVars, appVars,
                entryVars, serveVars
<1> QED BY <1>1, <1>2, <1>4, <1>5, <1>6, <1>7, <1>8, <1>9, <1>10 DEF GatherNext

\* A row holds at least what the entry or its base has.
LEMMA NoWrapInductive ==
    ASSUME Types, NumberInv, Accumulates => EntryInv, NoWrap, [GatherNext]_gatherVars
    PROVE  NoWrap'
<1>1. ASSUME row' = row \/ row' = Nil, setup' = setup, mistaken' = mistaken PROVE NoWrap'
    BY <1>1 DEF NoWrap, Accumulates, kind
<1>2. CASE Write \/ AppDelete \/ Replace \/ Tick
    BY <1>1, <1>2 DEF Write, AppDelete, Replace, Tick, serveVars, appVars
<1>3. ASSUME NEW k \in {"plain", "ack", "peek"}, Serve(k) PROVE NoWrap'
    BY <1>1, <1>3 DEF Serve, appVars
<1>4. CASE Final \/ GatherFails
    BY <1>1, <1>4 DEF Final, GatherFails, serveVars, appVars
<1>5. ASSUME NEW err \in BOOLEAN, NEW found \in BOOLEAN, Gather(err, found) PROVE NoWrap'
    <2>1. CASE found /\ Carried /\ Accumulates
        <3> DEFINE en == EntryFor(child.num, child.v, round + 1)
        <3>1. /\ child # Nil /\ child.v \in Values /\ en \in Entries /\ state' \in Entries
              /\ state'.base = en.base \/ state'.base = en.value
              /\ row' # Nil =>
                    \/ row'.v = Minus(child.v, en.value)
                    \/ row'.v = Minus(child.v, state'.base)
                    \/ row'.v = child.v
              /\ mistaken' = (mistaken \/ (~Changed(child.v, en) /\ child.v.low # en.value.low))
              /\ setup' = setup
            BY <1>5, <2>1, GatherFound
        <3>2. /\ ~mistaken /\ (Changed(child.v, en) \/ child.v.low = en.value.low) =>
                     Leq(en.value, child.v)
              /\ ~mistaken => Leq(en.base, en.value)
            BY <2>1, <3>1, TakenOver DEF en
        <3> HIDE DEF en
        <3>3. /\ child.v.n \in Nat /\ child.v.low \in Nat
              /\ en.value.n \in Nat /\ en.value.low \in Nat
              /\ en.base.n \in Nat /\ en.base.low \in Nat
            BY <3>1 DEF Entries, Values
        <3>4. ASSUME ~mistaken' PROVE Leq(en.value, child.v) /\ Leq(en.base, child.v)
            <4>1. ~mistaken /\ (Changed(child.v, en) \/ child.v.low = en.value.low)
                BY <3>1, <3>4
            <4>2. Leq(en.value, child.v) /\ Leq(en.base, en.value)
                BY <3>2, <4>1
            <4> QED BY <3>3, <4>2 DEF Leq
        <3>5. ASSUME NEW w \in {en.value, en.base}, ~mistaken'
              PROVE  /\ Minus(child.v, w).n >= 0
                     /\ kind = "histogram" => Minus(child.v, w).low >= 0
            BY <3>3, <3>4, <3>5 DEF Minus, Leq
        <3>6. ASSUME row' # Nil, ~mistaken'
              PROVE  row'.v.n >= 0 /\ (kind = "histogram" => row'.v.low >= 0)
            BY <3>1, <3>3, <3>5, <3>6
        <3> QED BY <3>1, <3>6 DEF NoWrap, kind
    <2>2. CASE ~Accumulates
        BY <1>5, <2>2 DEF Gather, NoWrap, Accumulates, kind
    <2>3. CASE ~(found /\ Carried)
        BY <1>1, <1>5, <2>3 DEF Gather
    <2> QED BY <2>1, <2>2, <2>3
<1>6. CASE Sweep
    BY <1>1, <1>6 DEF Sweep
<1>7. ASSUME NEW o \in {"aborted", "processed", "seen", "missed"}, Respond(o) PROVE NoWrap'
    BY <1>1, <1>7 DEF Respond, appVars
<1>8. CASE UNCHANGED gatherVars
    BY <1>1, <1>8 DEF gatherVars, serveVars, appVars
<1> QED BY <1>2, <1>3, <1>4, <1>5, <1>6, <1>7, <1>8 DEF GatherNext

\* The setup is chosen once.
LEMMA SetupKept ==
    ASSUME [GatherNext]_gatherVars
    PROVE  setup' = setup
BY DEF GatherNext, gatherVars, Write, AppDelete, Replace, Tick, Serve, Final, GatherFails, Gather,
       Sweep, Respond

\* The invariant of every setup.
THEOREM GatherInvariance == GatherSpec => []GatherBase
<1>1. GatherInit => GatherBase
    <2> SUFFICES ASSUME GatherInit PROVE GatherBase
        OBVIOUS
    <2>1. Types
        <3>1. /\ setup \in Setups /\ now \in Nat /\ child = Nil /\ made \in Nat /\ deletes \in Nat
              /\ round \in Nat /\ state = Nil /\ handed = Nil /\ held = Nil
              /\ pc = "rest" /\ request = "plain" /\ row = Nil /\ pending = Nil /\ idle \in Nat
              /\ agg = Nil /\ written \in Int /\ got \in Int /\ lost \in Int
            BY DEF GatherInit
        <3>2. /\ rb \in [last : Nat, gen : Nat, pending : BOOLEAN]
              /\ scraper \in [had : BOOLEAN, processed : Nat]
            BY DEF GatherInit
        <3>3. /\ complete \in BOOLEAN /\ unread \in BOOLEAN /\ blurred \in BOOLEAN
              /\ mistaken \in BOOLEAN /\ excused \in BOOLEAN
            BY DEF GatherInit
        <3> QED BY <3>1, <3>2, <3>3 DEF Types
    <2>2. NumberInv /\ ServeInv
        BY DEF GatherInit, NumberInv, ServeInv
    <2>3. EntryInv /\ IdleInv /\ NoWrap
        BY DEF GatherInit, EntryInv, IdleInv, NoWrap, IsHanded
    <2> QED BY <2>1, <2>2, <2>3 DEF GatherBase
<1>2. GatherBase /\ [GatherNext]_gatherVars => GatherBase'
    <2> SUFFICES ASSUME GatherBase, [GatherNext]_gatherVars PROVE GatherBase'
        OBVIOUS
    <2>1. Types /\ NumberInv /\ ServeInv /\ IdleInv /\ NoWrap /\ (Accumulates => EntryInv)
        BY DEF GatherBase
    <2>2. Accumulates' = Accumulates
        BY SetupKept DEF Accumulates, kind
    <2> QED BY <2>1, <2>2, TypesInductive, NumberInductive, ServeInductive, EntryInductive,
               IdleInductive, NoWrapInductive DEF GatherBase
<1> QED BY <1>1, <1>2, PTL DEF GatherSpec

\* No increment is negative, so none wraps around as an unsigned count, unless a
\* histogram was taken for another one with its count and sum.
THEOREM NeverNegative == GatherSpec => []NoWrap
BY GatherInvariance, PTL DEF GatherBase

\* Idle cleanup through a Vec: what sweep deletes was reported in full, was not written
\* since it was gathered and, if a gauge, is at zero.
LEMMA SafeStep ==
    ASSUME GatherBase, Sweep, opts.deletes = "vecs", child' = Nil, child # Nil
    PROVE  /\ kind = "gauge" => child.v.n = 0
           /\ kind # "gauge" /\ ~blurred => ~unread
           /\ Accumulates /\ ~blurred => child.v.n = Reached
<1>1. DeleteFromVec /\ request # "peek" /\ idle # 0 /\ Unwritten(child.v, state)
    BY DEF Sweep, DeleteFromVec, DeleteByCallback
<1>2. /\ pc = "sweep" /\ state # Nil /\ Deletable(state)
      /\ ~blurred /\ kind # "gauge" => (unread => state.value.n < child.v.n)
    BY <1>1 DEF Sweep, GatherBase, IdleInv
<1>3. child.v.n = state.value.n /\ child.v.n \in Nat
    BY <1>1 DEF Unwritten, Changed, GatherBase, Types, Children, Values
<1>4. held = Nil
    BY <1>1, <1>2 DEF GatherBase, ServeInv
<1>5. Accumulates /\ ~blurred => Reached = state.value.n
    <2>1. Accumulates /\ ~blurred => EntryFor(child.num, child.v, round + 1) = state
        BY <1>2, TakenOver DEF GatherBase
    <2> QED BY <1>4, <2>1 DEF Reached, Delivered
<1> QED BY <1>2, <1>3, <1>5 DEF Deletable

THEOREM DeletesSafely == GatherSpec => SafeDelete
<1>1. GatherBase /\ [GatherNext]_gatherVars =>
          [(Sweep /\ opts.deletes = "vecs" /\ child' = Nil /\ child # Nil) =>
              /\ kind = "gauge" => child.v.n = 0
              /\ kind # "gauge" /\ ~blurred => ~unread
              /\ Accumulates /\ ~blurred => child.v.n = Reached]_gatherVars
    BY SafeStep
<1> QED BY <1>1, GatherInvariance, PTL DEF GatherSpec, SafeDelete

-----------------------------------------------------------------------------
(* With increments, nothing is counted twice *)

\* A child only grows, so what it owned it owns after a write.
LEMMA OwnGrows ==
    ASSUME Types, Accumulates, Write, child # Nil, NEW en \in Entries, Own(en)
    PROVE  /\ Leq(en.value, child'.v)
           /\ held # Nil /\ held.id = en.id => Leq(held.v, child'.v)
           /\ pending # Nil /\ pending.id = en.id => Leq(pending.v, child'.v)
<1>1. /\ child' \in Children /\ child \in Children
      /\ child'.v.n = child.v.n + 1 /\ child'.v.low >= child.v.low
    BY WriteParts DEF Types, Accumulates
<1>2. ASSUME NEW v \in Values, Leq(v, child.v) PROVE Leq(v, child'.v)
    BY <1>1, <1>2 DEF Leq, Values, Children
<1>3. /\ held # Nil => held.v \in Values
      /\ pending # Nil => pending.v \in Values
      /\ en.value \in Values
    BY DEF Types, HeldRounds, Pendings, Entries
<1> QED BY <1>2, <1>3 DEF Own

\* The numbers the inequalities are about.
LEMMA Numbers ==
    ASSUME Types
    PROVE  /\ got \in Int /\ written \in Int /\ lost \in Int /\ ChildN \in Nat /\ round \in Nat
           /\ child # Nil => child.v.n \in Nat /\ ChildN = child.v.n
           /\ child = Nil => ChildN = 0
           /\ row # Nil => row.v.n \in Int
           /\ pending # Nil => pending.v.n \in Nat /\ pending.id \in Nat
           /\ held # Nil => held.v.n \in Nat /\ held.id \in Nat
           /\ \A en \in Entries : /\ en.value.n \in Nat /\ en.id \in Nat \ {0}
                                  /\ Delivered(en) \in Nat
           /\ state # Nil => state \in Entries
           /\ handed # Nil => handed.en \in Entries
BY ReachedType DEF Types, ChildN, Children, Values, Rows, Pendings, HeldRounds, Entries, HandedOver

\* The setup is kept, and what was mistaken stays so.
LEMMA MistakenKept ==
    ASSUME [GatherNext]_gatherVars
    PROVE  mistaken => mistaken'
BY DEF GatherNext, gatherVars, appVars, Write, AppDelete, Replace, Tick, Serve, Final, GatherFails,
       Gather, Sweep, Respond

\* Settling a round neither adds to nor takes from what has been delivered: it is
\* committed if it was processed, and if it was not, it is not counted until then.
LEMMA SettleKnown ==
    ASSUME GatherBase, Accumulates, ~mistaken, KnownInv, pc = "rest", NEW k, Settle(k),
           UNCHANGED <<setup, child, got, written, pending>>,
           scraper' = scraper \/ held' = Nil
    PROVE  KnownInv'
<1> USE DEF GatherBase
<1>1. pending = Nil /\ pending' = Nil
    BY DEF ServeInv
<1>2. CASE child = Nil \/ New
    BY <1>2 DEF KnownInv, New, ChildN
<1>3. CASE held # Nil /\ Commit(held) /\ held' = Nil
    <2>1. held.v \in Values
        BY <1>3 DEF Types, HeldRounds
    <2>2. /\ state' = Nil <=> state = Nil
          /\ handed' = Nil <=> handed = Nil
          /\ state # Nil =>
                /\ state'.id = state.id
                /\ state'.value = IF state.id = held.id THEN held.v ELSE state.value
          /\ handed # Nil =>
                /\ handed'.created = handed.created /\ handed'.en.id = handed.en.id
                /\ handed'.en.value = IF handed.en.id = held.id THEN held.v ELSE handed.en.value
        BY <1>3, <2>1, CommitParts DEF Types
    <2>3. ASSUME NEW en \in Entries, NEW w, Known(en), Grows(en), child # Nil, w.id = en.id,
                 w.value = IF en.id = held.id THEN held.v ELSE en.value
          PROVE  Leq(w.value, child.v) /\ got + child.v.n - w.value.n <= written
        <3>1. /\ got \in Int /\ written \in Int /\ child.v.n \in Nat
              /\ en.value.n \in Nat /\ held.v.n \in Nat
            BY <1>3, <2>3, Numbers
        <3>2. Delivered(en) <= w.value.n
            BY <1>3, <2>3, <3>1 DEF Delivered, Grows, Leq
        <3>3. Delivered(en) \in Nat
            BY <2>3, Numbers
        <3> QED BY <1>3, <2>3, <3>1, <3>2, <3>3 DEF Known, Own
    <2>4. CASE state # Nil /\ child # Nil /\ Known(state)
        <3>1. Leq(state'.value, child.v) /\ got + child.v.n - state'.value.n <= written
            BY <2>2, <2>3, <2>4, Numbers DEF EntryInv
        <3>2. Known(state)'
            BY <1>1, <1>3, <3>1 DEF Known, Own, Leq, Delivered, kind
        <3> QED BY <2>2, <2>4, <3>2 DEF KnownInv
    <2>5. CASE state = Nil /\ IsHanded /\ Known(handed.en)
        <3>1. handed # Nil /\ child # Nil
            BY <2>5 DEF IsHanded
        <3>2. Leq(handed'.en.value, child.v) /\ got + child.v.n - handed'.en.value.n <= written
            BY <2>2, <2>3, <2>5, <3>1, Numbers DEF EntryInv
        <3>3. Known(handed.en)'
            BY <1>1, <1>3, <3>2 DEF Known, Own, Leq, Delivered, kind
        <3>4. IsHanded' /\ state' = Nil
            BY <2>2, <2>5, <3>1 DEF IsHanded
        <3> QED BY <3>3, <3>4 DEF KnownInv
    <2> QED BY <1>2, <2>4, <2>5 DEF KnownInv
<1>4. CASE UNCHANGED <<state, handed>> /\ (held' = held \/ (held' = Nil /\ ~Commits(k)))
    <2>1. held' = Nil /\ held # Nil => scraper.processed # held.round
        BY <1>4 DEF Commits
    <2>2. held' = held \/ held' = Nil
        BY <1>4
    <2>3. CASE \/ held' = held /\ scraper' = scraper
               \/ held' = Nil /\ (held # Nil => scraper.processed # held.round)
        <3>1. ASSUME NEW en, Known(en), child # Nil
              PROVE  /\ Leq(en.value, child.v)
                     /\ held' # Nil /\ held'.id = en.id => Leq(held'.v, child.v)
                     /\ (IF held' # Nil /\ held'.id = en.id /\ scraper'.processed = held'.round
                         THEN held'.v.n ELSE en.value.n) = Delivered(en)
                     /\ got + child.v.n - Delivered(en) <= written
            BY <2>3, <3>1 DEF Known, Own, Delivered
        <3>2. state' # Nil /\ child # Nil /\ Known(state) => Known(state)'
            BY <1>1, <1>4, <3>1 DEF Known, Own, Leq, Delivered, kind
        <3>3. IsHanded /\ Known(handed.en) => IsHanded' /\ Known(handed.en)'
            BY <1>1, <1>4, <3>1 DEF Known, Own, Leq, Delivered, kind, IsHanded
        <3> QED BY <1>2, <1>4, <3>2, <3>3 DEF KnownInv
    <2>4. CASE held' = Nil /\ held # Nil
        BY <2>1, <2>3, <2>4
    <2>5. CASE held' = held
        BY <2>3, <2>5
    <2> QED BY <2>2, <2>3, <2>4, <2>5
<1> QED BY <1>3, <1>4 DEF Settle

\* What a delivered row adds is committed, or counted while it is held.
LEMMA RespondKnown ==
    ASSUME GatherBase, Accumulates, opts.increments, ~mistaken, KnownInv, RowInv, got <= written,
           NEW o \in {"aborted", "processed", "seen", "missed"}, Respond(o)
    PROVE  got' <= written' /\ KnownInv'
<1> USE DEF GatherBase
<1>1. /\ UNCHANGED <<setup, child, written, mistaken>> /\ pending' = Nil
      /\ pc = "respond"
    BY DEF Respond, appVars
<1>2. got' = IF o = "processed" /\ row # Nil THEN got + row.v.n ELSE got
    BY DEF Respond, Consume
<1>3. request = "ack" => held = Nil
    BY <1>1 DEF ServeInv
<1>4. request = "plain" => held = Nil /\ o \in {"aborted", "processed"}
    <2>1. request = "plain" => ~setup.acks
        BY <1>1 DEF ServeInv, Requests
    <2> QED BY <1>1, <2>1 DEF Respond, ServeInv
<1>5. o = "processed" => request \in {"plain", "ack"}
    BY DEF Respond, Types
<1>6. scraper'.processed = IF o = "processed" THEN round ELSE scraper.processed
    BY DEF Respond
<1>7. scraper.processed < round /\ scraper.processed \in Nat /\ round \in Nat
    BY <1>1 DEF ServeInv, Types
<1>8. ASSUME o = "processed", row # Nil, child # Nil,
             NEW en \in Entries, RowKnown(en)
      PROVE  got + row.v.n <= written
    <2>1. pending # Nil
        BY <1>8 DEF ServeInv
    <2> QED BY <1>8, <2>1, Numbers DEF RowKnown, Leq
<1>9. got' <= written'
    <2>1. CASE o = "processed" /\ row # Nil
        <3>1. CASE RowNew
            BY <1>1, <1>2, <2>1, <3>1, Numbers DEF RowNew
        <3>2. CASE child # Nil /\ state # Nil /\ RowKnown(state)
            BY <1>1, <1>2, <1>8, <2>1, <3>2, Numbers
        <3>3. CASE state = Nil /\ IsHanded /\ RowKnown(handed.en)
            BY <1>1, <1>2, <1>8, <2>1, <3>3, Numbers DEF IsHanded
        <3> QED BY <1>5, <2>1, <3>1, <3>2, <3>3 DEF RowInv
    <2> QED BY <1>1, <1>2, <2>1
<1> SUFFICES KnownInv'
    BY <1>9
<1>10. CASE child = Nil
    BY <1>1, <1>10 DEF KnownInv
<1>11. CASE child # Nil /\ (o = "aborted" \/ request = "peek")
    <2>1. UNCHANGED <<state, handed, held, got>> /\ scraper'.processed = scraper.processed
        BY <1>2, <1>3, <1>4, <1>5, <1>6, <1>11 DEF Respond
    <2>2. ASSUME NEW en, Known(en)
          PROVE  /\ Leq(en.value, child.v)
                 /\ held # Nil /\ held.id = en.id => Leq(held.v, child.v)
                 /\ got + child.v.n - Delivered(en) <= written
        BY <2>2 DEF Known, Own
    <2>3. state # Nil /\ Known(state) => Known(state)'
        BY <1>1, <2>1, <2>2 DEF Known, Own, Leq, Delivered, kind
    <2>4. IsHanded /\ Known(handed.en) => IsHanded' /\ Known(handed.en)'
        BY <1>1, <2>1, <2>2 DEF Known, Own, Leq, Delivered, kind, IsHanded
    <2>5. New => New'
        BY <1>1, <2>1 DEF New, ChildN
    <2> QED BY <1>11, <2>1, <2>3, <2>4, <2>5 DEF KnownInv
<1>12. CASE child # Nil /\ o # "aborted" /\ request \in {"plain", "ack"}
    <2>1. held = Nil
        BY <1>3, <1>4, <1>12
    <2> DEFINE Taken(en) == IF pending # Nil /\ pending.id = en.id THEN pending.v ELSE en.value
    <2>2. ASSUME NEW en \in Entries, NEW w,
                 w.id = en.id,
                 w.value = IF request = "plain" THEN Taken(en) ELSE en.value,
                 Leq(en.value, child.v),
                 pending # Nil /\ pending.id = en.id => Leq(pending.v, child.v),
                 got' + child.v.n - (IF o = "processed" THEN Taken(en) ELSE en.value).n <= written
          PROVE  /\ Leq(w.value, child'.v)
                 /\ held' # Nil /\ held'.id = w.id => Leq(held'.v, child'.v)
                 /\ got' + child'.v.n - (IF held' # Nil /\ held'.id = w.id /\ scraper'.processed = held'.round
                                         THEN held'.v.n ELSE w.value.n) <= written'
        <3>1. en.id # 0
            BY DEF Entries
        <3>2. CASE request = "plain"
            <4>1. held' = Nil /\ o = "processed"
                BY <1>4, <1>12, <2>1, <3>2 DEF Respond
            <4> QED BY <1>1, <2>2, <3>2, <4>1
        <3>3. CASE request = "ack"
            <4>1. held' = [round |-> round, v |-> IF pending = Nil THEN Zero ELSE pending.v,
                           id |-> IF pending = Nil THEN 0 ELSE pending.id]
                BY <1>12, <3>3 DEF Respond
            <4>2. held'.round = round /\ (held'.id = en.id <=> (pending # Nil /\ pending.id = en.id))
                BY <3>1, <4>1
            <4>3. pending # Nil => held'.v = pending.v
                BY <4>1
            <4>4. scraper'.processed = held'.round <=> o = "processed"
                BY <1>6, <1>7, <4>2
            <4>5. held' # Nil
                BY <2>2, <4>1, NilAssumption, Numbers DEF HeldRounds, Types, Zero, Values, Pendings
            <4> QED BY <1>1, <2>2, <3>3, <4>2, <4>3, <4>4, <4>5
        <3> QED BY <1>12, <3>2, <3>3
    <2>3. ASSUME NEW en \in Entries, child # Nil, Known(en), got' = got,
                 o # "processed" \/ pending = Nil
          PROVE  /\ Leq(en.value, child.v)
                 /\ pending # Nil /\ pending.id = en.id => Leq(pending.v, child.v)
                 /\ got' + child.v.n - (IF o = "processed" THEN Taken(en) ELSE en.value).n <= written
        BY <2>1, <2>3 DEF Known, Own, Delivered
    <2>4. ASSUME NEW en \in Entries, child # Nil, RowKnown(en), o = "processed", row # Nil
          PROVE  /\ Leq(en.value, child.v)
                 /\ pending # Nil /\ pending.id = en.id => Leq(pending.v, child.v)
                 /\ got' + child.v.n - (IF o = "processed" THEN Taken(en) ELSE en.value).n <= written
        <3>1. pending # Nil
            BY <2>4 DEF ServeInv
        <3>2. pending \in Pendings /\ child \in Children
            BY <2>4, <3>1 DEF Types
        <3>3. Leq(en.value, child.v)
            BY <2>4, <3>2 DEF RowKnown, Leq, Pendings, Children, Entries, Values
        <3> QED BY <1>2, <2>4, <3>1, <3>3 DEF RowKnown
    <2>5. ASSUME NEW en \in Entries, NEW w, w.id = en.id,
                 w.value = IF request = "plain" THEN Taken(en) ELSE en.value,
                 \/ Known(en) /\ got' = got /\ (o # "processed" \/ pending = Nil)
                 \/ RowKnown(en) /\ o = "processed" /\ row # Nil
          PROVE  /\ Leq(w.value, child'.v)
                 /\ held' # Nil /\ held'.id = w.id => Leq(held'.v, child'.v)
                 /\ got' + child'.v.n - (IF held' # Nil /\ held'.id = w.id /\ scraper'.processed = held'.round
                                         THEN held'.v.n ELSE w.value.n) <= written'
        <3> HIDE DEF Taken
        <3>1. /\ Leq(en.value, child.v)
              /\ pending # Nil /\ pending.id = en.id => Leq(pending.v, child.v)
              /\ got' + child.v.n - (IF o = "processed" THEN Taken(en) ELSE en.value).n <= written
            BY <1>12, <2>3, <2>4, <2>5
        <3> QED BY <2>2, <2>5, <3>1
    <2>6. /\ state' = Nil <=> state = Nil
          /\ handed' = Nil <=> handed = Nil
          /\ state # Nil => /\ state'.id = state.id
                            /\ state'.value = IF request = "plain" THEN Taken(state) ELSE state.value
          /\ handed # Nil => /\ handed'.created = handed.created /\ handed'.en.id = handed.en.id
                             /\ handed'.en.value = IF request = "plain" THEN Taken(handed.en)
                                                                        ELSE handed.en.value
        <3>1. CASE request = "plain" /\ Commit(pending)
            <4>1. pending = Nil \/ pending.v \in Values
                BY DEF Types, Pendings
            <4> QED BY <3>1, <4>1, CommitParts DEF Types
        <3>2. CASE request = "ack" /\ UNCHANGED <<state, handed>>
            BY <3>2
        <3> QED BY <1>12, <3>1, <3>2 DEF Respond
    <2>7. row = Nil <=> pending = Nil
        BY DEF ServeInv
    <2>8. ASSUME state # Nil, \/ Known(state) /\ got' = got /\ (o # "processed" \/ pending = Nil)
                              \/ RowKnown(state) /\ o = "processed" /\ row # Nil
          PROVE  KnownInv'
        <3> HIDE DEF Taken
        <3>1. /\ Leq(state'.value, child'.v)
              /\ held' # Nil /\ held'.id = state'.id => Leq(held'.v, child'.v)
              /\ got' + child'.v.n
                     - (IF held' # Nil /\ held'.id = state'.id /\ scraper'.processed = held'.round
                        THEN held'.v.n ELSE state'.value.n) <= written'
            BY <2>5, <2>6, <2>8, Numbers
        <3>2. Known(state)'
            BY <1>1, <3>1 DEF Known, Own, Leq, Delivered, kind
        <3> QED BY <2>6, <2>8, <3>2 DEF KnownInv
    <2>9. ASSUME state = Nil, IsHanded,
                 \/ Known(handed.en) /\ got' = got /\ (o # "processed" \/ pending = Nil)
                 \/ RowKnown(handed.en) /\ o = "processed" /\ row # Nil
          PROVE  KnownInv'
        <3> HIDE DEF Taken
        <3>1. /\ Leq(handed'.en.value, child'.v)
              /\ held' # Nil /\ held'.id = handed'.en.id => Leq(held'.v, child'.v)
              /\ got' + child'.v.n
                     - (IF held' # Nil /\ held'.id = handed'.en.id /\ scraper'.processed = held'.round
                        THEN held'.v.n ELSE handed'.en.value.n) <= written'
            BY <2>5, <2>6, <2>9, Numbers DEF IsHanded
        <3>2. Known(handed.en)'
            BY <1>1, <3>1 DEF Known, Own, Leq, Delivered, kind
        <3>3. IsHanded' /\ state' = Nil
            BY <1>1, <2>6, <2>9 DEF IsHanded
        <3> QED BY <3>2, <3>3 DEF KnownInv
    <2>10. CASE o = "processed" /\ row # Nil
        <3>1. CASE RowNew
            <4>1. New'
                BY <1>1, <1>2, <2>10, <3>1 DEF RowNew, New, ChildN
            <4> QED BY <4>1 DEF KnownInv
        <3> QED BY <1>5, <1>12, <2>8, <2>9, <2>10, <3>1 DEF RowInv
    <2>11. CASE ~(o = "processed" /\ row # Nil)
        <3>1. got' = got /\ (o # "processed" \/ pending = Nil)
            BY <1>2, <2>7, <2>11
        <3>2. New => New'
            BY <1>1, <3>1 DEF New, ChildN
        <3> QED BY <1>12, <2>8, <2>9, <3>1, <3>2 DEF KnownInv
    <2> QED BY <2>10, <2>11
<1> QED BY <1>10, <1>11, <1>12 DEF Types

\* A write adds as much to what was written as to the child.
LEMMA WriteTwice ==
    ASSUME GatherBase, Accumulates, opts.increments, got <= written, KnownInv, RowInv, LateInv,
           Write
    PROVE  (got <= written /\ KnownInv /\ RowInv /\ LateInv)'
<1> USE DEF GatherBase
<1>1. /\ child' \in Children /\ child' # Nil /\ written' = written + 1
      /\ child = Nil => child'.num = made + 1 /\ child'.v.n = 1
      /\ child # Nil => child'.num = child.num /\ child'.v.n = child.v.n + 1
    BY WriteParts DEF Accumulates
<1>2. /\ UNCHANGED <<setup, state, handed, held, pending, row, request, pc, idle, complete, round,
                     scraper, got>>
    BY DEF Write, entryVars, serveVars, aggVars
<1>3. /\ got \in Int /\ written \in Int /\ ChildN \in Nat /\ ChildN' = ChildN + 1
      /\ row # Nil => row.v.n \in Int
      /\ pending # Nil => pending.v.n \in Nat
      /\ child # Nil => child.v.n \in Nat
      /\ \A en \in Entries : Delivered(en) \in Nat
    BY <1>1, Numbers DEF ChildN
<1>4. /\ New => New'
      /\ child = Nil => New'
      /\ row # Nil /\ RowNew => RowNew'
    BY <1>1, <1>2, <1>3, Numbers DEF New, RowNew
<1>5. IsHanded => IsHanded'
    BY <1>1, <1>2 DEF IsHanded
<1>6. ASSUME NEW en \in Entries, Known(en), child # Nil
      PROVE  /\ Leq(en.value, child'.v)
             /\ held # Nil /\ held.id = en.id => Leq(held.v, child'.v)
             /\ pending # Nil /\ pending.id = en.id => Leq(pending.v, child'.v)
             /\ got + child'.v.n - Delivered(en) <= written'
    <2>1. got + child.v.n - Delivered(en) <= written /\ Own(en)
        BY <1>6 DEF Known
    <2> QED BY <1>1, <1>3, <1>6, <2>1, OwnGrows
<1>7. state # Nil /\ child # Nil /\ Known(state) => Known(state)'
    <2>1. state # Nil => state \in Entries
        BY Numbers
    <2> QED BY <1>2, <1>6, <2>1 DEF Known, Own, Leq, Delivered, kind
<1>8. IsHanded /\ Known(handed.en) => Known(handed.en)'
    <2>1. IsHanded => handed.en \in Entries /\ child # Nil
        BY Numbers DEF IsHanded
    <2> QED BY <1>2, <1>6, <2>1 DEF Known, Own, Leq, Delivered, kind
<1>9. KnownInv'
    BY <1>2, <1>4, <1>5, <1>7, <1>8 DEF KnownInv
<1>10. ASSUME NEW en, RowKnown(en), child # Nil, row # Nil
       PROVE  /\ pending.id = en.id /\ Leq(en.value, pending.v) /\ Leq(pending.v, child'.v)
              /\ got + row.v.n + child'.v.n - pending.v.n <= written'
    <2>1. pending # Nil
        BY <1>10 DEF ServeInv
    <2>2. pending.v \in Values /\ child \in Children
        BY <1>10, <2>1 DEF Types, Pendings
    <2>3. child'.v.low >= child.v.low
        BY <1>10, WriteParts
    <2>4. Leq(pending.v, child'.v)
        BY <1>1, <1>10, <2>2, <2>3 DEF RowKnown, Leq, Values, Children
    <2> QED BY <1>1, <1>3, <1>10, <2>1, <2>4 DEF RowKnown
<1>11. row # Nil /\ child # Nil /\ RowKnown(state) => RowKnown(state)'
    BY <1>2, <1>10 DEF RowKnown, Leq, kind
<1>12. row # Nil /\ child # Nil /\ RowKnown(handed.en) => RowKnown(handed.en)'
    BY <1>2, <1>10 DEF RowKnown, Leq, kind
<1>13. RowInv'
    BY <1>1, <1>2, <1>4, <1>5, <1>11, <1>12 DEF RowInv, IsHanded
<1>14. LateInv'
    <2>1. ASSUME idle # 0, child = Nil, row # Nil PROVE RowNew'
        <3>1. row.v.n = 0
            BY <2>1 DEF IdleInv
        <3> QED BY <1>1, <1>2, <1>3, <2>1, <3>1, Numbers DEF RowNew
    <2> QED BY <1>1, <1>2, <1>4, <2>1 DEF LateInv
<1> QED BY <1>1, <1>2, <1>3, <1>9, <1>13, <1>14

\* The row of a round is what the child has beyond its entry.
LEMMA GatherTwice ==
    ASSUME GatherBase, Accumulates, opts.increments, ~mistaken', got <= written, KnownInv,
           NEW err \in BOOLEAN, NEW found \in BOOLEAN, Gather(err, found)
    PROVE  (got <= written /\ KnownInv /\ RowInv /\ LateInv)'
<1> USE DEF GatherBase
<1>1. /\ UNCHANGED <<setup, child, written, got, held, request, scraper>>
      /\ pc = "gather" /\ round' = round + 1 /\ complete' = ~err
      /\ handed' = IF err THEN handed ELSE Nil
    BY DEF Gather, aggVars
<1>2. New' <=> New
    BY <1>1 DEF New, ChildN
<1>3. child = Nil => New
    BY Numbers DEF New
<1>4. CASE found /\ Carried
    <2> DEFINE en == EntryFor(child.num, child.v, round + 1)
    <2>1. /\ child # Nil /\ child.v \in Values /\ en \in Entries
          /\ state' \in Entries /\ state'.id = en.id /\ state'.last = round + 1
          /\ state'.value = IF kind = "summary" THEN child.v ELSE en.value
          /\ idle' = IF IsIdle(state', round + 1) THEN child.num ELSE 0
          /\ pending' # Nil => pending'.id = en.id
          /\ row' = Nil <=> pending' = Nil
          /\ row' # Nil =>
                /\ pending'.id = en.id /\ pending'.v.n = child.v.n
                /\ pending'.v.low = IF Changed(child.v, en) THEN child.v.low ELSE en.value.low
                /\ row'.v = Minus(child.v, en.value)
          /\ mistaken' = (mistaken \/ (~Changed(child.v, en) /\ child.v.low # en.value.low))
        BY <1>4, GatherFound
    <2>2. /\ state # Nil /\ ~Rebuilt(child.v, state) => en = state
          /\ IsHanded => en.id = handed.en.id /\ en.value = handed.en.value
          /\ ~mistaken /\ (Changed(child.v, en) \/ child.v.low = en.value.low) =>
                 Leq(en.value, child.v)
        <3>1. state # Nil /\ ~Rebuilt(child.v, state) => en = state
            BY DEF EntryFor
        <3> QED BY <2>1, <3>1, TakenOver DEF en
    <2> HIDE DEF en
    <2>3. ~mistaken /\ (Changed(child.v, en) \/ child.v.low = en.value.low)
        BY <2>1
    <2>4. Leq(en.value, child.v) /\ kind # "summary" /\ state' # Nil
        BY <2>1, <2>2, <2>3, NilAssumption DEF Accumulates
    <2>5. /\ child.v.n \in Nat /\ child.v.low \in Nat
          /\ en.value.n \in Nat /\ en.value.low \in Nat
          /\ got \in Int /\ written \in Int
        BY <2>1, Numbers DEF Entries, Values
    <2>6. pending' # Nil => Leq(en.value, pending'.v) /\ Leq(pending'.v, child.v)
        BY <2>1, <2>3, <2>4, <2>5 DEF Leq
    <2>7. ASSUME state # Nil, Known(state) PROVE en = state
        <3>1. state.value.n \in Nat /\ state.value.low \in Nat
            BY <2>7, Numbers DEF Types, Entries, Values
        <3>2. ~Rebuilt(child.v, state)
            BY <2>5, <2>7, <3>1 DEF Known, Own, Leq, Rebuilt
        <3> QED BY <2>2, <2>7, <3>2
    <2>8. ASSUME Known(en) PROVE Known(state)'
        BY <1>1, <2>1, <2>4, <2>6, <2>8 DEF Known, Own, Leq, Delivered, kind
    <2>9. ASSUME state = Nil, IsHanded, Known(handed.en) PROVE Known(en)
        BY <2>2, <2>9 DEF Known, Own, Delivered
    <2>10. New \/ Known(en)
        BY <2>1, <2>7, <2>9 DEF KnownInv
    <2>11. KnownInv'
        BY <1>2, <2>4, <2>8, <2>10 DEF KnownInv
    <2>12. ASSUME row' # Nil, request # "peek" PROVE RowKnown(state)'
        <3>1. held = Nil
            BY <1>1, <2>12 DEF ServeInv
        <3>2. row'.v.n = child.v.n - en.value.n /\ pending' # Nil /\ pending'.v.n = child.v.n
            BY <2>1, <2>12 DEF Minus
        <3>3. got + child.v.n - en.value.n <= written
            <4>1. New => got + child.v.n <= written
                BY <2>1 DEF New, ChildN
            <4>2. Known(en) => got + child.v.n - en.value.n <= written
                BY <3>1 DEF Known, Delivered
            <4> QED BY <2>5, <2>10, <4>1, <4>2
        <3>4. got + row'.v.n + child.v.n - pending'.v.n <= written
            BY <2>5, <3>2, <3>3
        <3> QED BY <1>1, <2>1, <2>4, <2>6, <3>2, <3>4 DEF RowKnown, Leq, kind
    <2>13. RowInv'
        BY <1>1, <2>1, <2>4, <2>12 DEF RowInv
    <2>14. LateInv'
        BY <1>1, <2>1 DEF LateInv
    <2> QED BY <1>1, <2>11, <2>13, <2>14
<1>5. CASE ~(found /\ Carried)
    <2>1. row' = Nil /\ pending' = Nil /\ idle' = 0 /\ state' = state
        BY <1>5 DEF Gather
    <2>2. state # Nil /\ Known(state) => Known(state)'
        BY <1>1, <2>1 DEF Known, Own, Leq, Delivered, kind, ServeInv
    <2>3. child = Nil \/ err \/ ~Carried
        BY <1>5 DEF Gather
    <2>4. CASE err
        <3>1. IsHanded /\ Known(handed.en) => IsHanded' /\ Known(handed.en)'
            BY <1>1, <2>1, <2>4 DEF IsHanded, Known, Own, Leq, Delivered, kind, ServeInv
        <3>2. KnownInv'
            BY <1>1, <1>2, <2>1, <2>2, <3>1 DEF KnownInv
        <3> QED BY <1>1, <2>1, <2>4, <3>2 DEF RowInv, LateInv
    <2>5. CASE ~err /\ child = Nil
        BY <1>1, <1>2, <1>3, <2>1, <2>5 DEF KnownInv, RowInv, LateInv
    <2>6. CASE ~err /\ ~Carried
        <3>1. state = Nil /\ handed = Nil
            BY <2>6 DEF ServeInv
        <3> QED BY <1>1, <1>2, <2>1, <3>1 DEF KnownInv, RowInv, LateInv, IsHanded
    <2> QED BY <2>3, <2>4, <2>5, <2>6
<1> QED BY <1>4, <1>5

\* What is deleted was reported, or is of a child nothing was reported of.
LEMMA SweepTwice ==
    ASSUME GatherBase, Accumulates, opts.increments, ~mistaken, got <= written, KnownInv, RowInv,
           LateInv, Sweep
    PROVE  (got <= written /\ KnownInv /\ RowInv /\ LateInv)'
<1> USE DEF GatherBase
<1>1. /\ UNCHANGED <<setup, written, got, held, request, scraper, row, pending, idle>>
      /\ pc = "sweep" /\ pc' = "respond"
    BY DEF Sweep, aggVars
<1>2. idle # 0 /\ row # Nil => row.v.n = 0
    BY DEF IdleInv
<1>3. got \in Int /\ written \in Int
    BY Numbers
<1>4. CASE child' = child /\ state' = state /\ handed' = handed
    BY <1>1, <1>4 DEF KnownInv, New, ChildN, Known, Own, Leq, Delivered, RowInv, RowNew, RowKnown,
           LateInv, IsHanded, kind
<1>5. CASE idle # 0 /\ child' = Nil
    <2>1. row # Nil => RowNew'
        BY <1>1, <1>2, <1>3, <1>5 DEF RowNew, ChildN
    <2> QED BY <1>1, <1>5, <2>1 DEF KnownInv, RowInv, LateInv
<1>6. CASE idle # 0 /\ request # "peek" /\ DeleteByCallback /\ child' = child
    <2>1. /\ handed' = [en |-> state, created |-> idle] /\ state' = Nil
          /\ state # Nil
        BY <1>1, <1>6 DEF DeleteByCallback, CreatedOf, Accumulates, IdleInv
    <2>2. (New' <=> New) /\ (RowNew' <=> RowNew)
        BY <1>1, <1>6 DEF New, RowNew, ChildN
    <2>3. LateInv'
        BY <1>1, <1>6, <2>2 DEF LateInv
    <2>4. CASE child # Nil /\ child.num = idle
        <3>1. IsHanded' /\ handed'.en = state
            BY <1>6, <2>1, <2>4, NilAssumption DEF IsHanded, HandedOver, Types
        <3>2. Known(state) => Known(handed.en)'
            BY <1>1, <1>6, <3>1 DEF Known, Own, Leq, Delivered, kind
        <3>3. RowKnown(state) => RowKnown(handed.en)'
            BY <1>1, <1>6, <3>1 DEF RowKnown, Leq, kind
        <3>4. KnownInv'
            BY <1>6, <2>1, <2>2, <2>4, <3>1, <3>2 DEF KnownInv
        <3>5. RowInv'
            BY <1>1, <2>1, <2>2, <3>1, <3>3 DEF RowInv
        <3> QED BY <1>1, <2>3, <3>4, <3>5
    <2>5. CASE child # Nil /\ child.num # idle
        BY <1>1, <1>6, <2>2, <2>3, <2>5 DEF LateInv, KnownInv, RowInv
    <2>6. CASE child = Nil
        <3>1. row # Nil => RowNew
            BY <1>2, <1>3, <1>6, <2>6 DEF RowNew, ChildN
        <3> QED BY <1>1, <1>6, <2>2, <2>3, <2>6, <3>1 DEF KnownInv, RowInv
    <2> QED BY <2>4, <2>5, <2>6
<1>7. CASE idle # 0 /\ child = Nil /\ child' = child
    <2>1. row # Nil => RowNew'
        BY <1>1, <1>2, <1>3, <1>7 DEF RowNew, ChildN
    <2> QED BY <1>1, <1>7, <2>1 DEF KnownInv, RowInv, LateInv
<1>8. CASE /\ idle = 0 /\ complete /\ state # Nil /\ round - state.last > opts.idle /\ opts.idle > 0
           /\ state' = Nil /\ UNCHANGED <<child, handed>>
    <2>1. state.last # round
        BY <1>8, SetupTypes DEF Types, Entries
    <2>2. New /\ row = Nil
        BY <1>1, <1>8, <2>1 DEF LateInv, ServeInv
    <2>3. New'
        BY <1>1, <1>8, <2>2 DEF New, ChildN
    <2> QED BY <1>1, <1>8, <2>2, <2>3 DEF KnownInv, RowInv, LateInv
<1>9. CASE idle # 0 /\ request # "peek" /\ DeleteFromVec
    BY <1>4, <1>5, <1>7, <1>9 DEF DeleteFromVec
<1>10. CASE idle # 0 /\ request # "peek" /\ DeleteByCallback
    BY <1>5, <1>6, <1>10 DEF DeleteByCallback
<1> QED BY <1>4, <1>8, <1>9, <1>10 DEF Sweep

\* With increments, what the aggregator has and what it will be told is no more than
\* what was written.
LEMMA TwiceInductive ==
    ASSUME GatherBase, TwiceInv, [GatherNext]_gatherVars
    PROVE  TwiceInv'
<1>1. SUFFICES ASSUME Accumulates, opts.increments, ~mistaken'
               PROVE  (got <= written /\ KnownInv /\ RowInv /\ LateInv)'
    BY SetupKept DEF TwiceInv, Accumulates, kind, opts
<1>2. ~mistaken /\ got <= written /\ KnownInv /\ RowInv /\ LateInv
    BY <1>1, MistakenKept DEF TwiceInv
<1>3. CASE Write
    BY <1>1, <1>2, <1>3, WriteTwice
<1>4. CASE AppDelete
    <2>1. /\ child' = Nil /\ child # Nil
          /\ UNCHANGED <<setup, got, written, row, request, state, pc, idle, complete, round>>
        BY <1>4 DEF AppDelete, entryVars, serveVars, aggVars
    <2>2. /\ got \in Int /\ written \in Int /\ child.v.n \in Nat /\ ChildN = child.v.n
          /\ row # Nil => row.v.n \in Int
          /\ pending # Nil => pending.v.n \in Nat
        BY <2>1, Numbers DEF GatherBase
    <2>3. row # Nil => pending # Nil
        BY <1>1 DEF GatherBase, ServeInv
    <2>4. ASSUME NEW en, row # Nil, RowKnown(en) PROVE got + row.v.n <= written
        BY <2>2, <2>3, <2>4 DEF RowKnown, Leq
    <2>5. row # Nil /\ request # "peek" => got + row.v.n <= written
        <3>1. row # Nil /\ RowNew => got + row.v.n <= written
            BY <2>2 DEF RowNew
        <3> QED BY <1>2, <2>4, <3>1 DEF RowInv
    <2>6. row # Nil /\ request # "peek" => RowNew'
        BY <2>1, <2>2, <2>5 DEF RowNew, ChildN
    <2>7. New'
        BY <1>2, <2>1, <2>2 DEF New, ChildN
    <2> QED BY <1>2, <2>1, <2>6, <2>7 DEF KnownInv, RowInv, LateInv
<1>5. CASE Replace
    BY <1>2, <1>5 DEF Replace, serveVars, aggVars, GatherBase, ServeInv, KnownInv, RowInv, LateInv
<1>6. CASE Tick \/ GatherFails \/ UNCHANGED gatherVars
    <2>1. /\ UNCHANGED <<setup, child, state, handed, held, got, written, row, idle, pending,
                         scraper, complete, round>>
          /\ request' = request \/ row = Nil
          /\ pc' = pc \/ pc' = "rest"
        BY <1>6 DEF Tick, GatherFails, gatherVars, appVars, entryVars, serveVars, aggVars, GatherBase,
                    ServeInv
    <2> QED BY <1>2, <2>1 DEF KnownInv, New, ChildN, Known, Own, Leq, Delivered, RowInv, RowNew,
               RowKnown, LateInv, IsHanded, kind
<1>7. ASSUME NEW k \in {"plain", "ack", "peek"}, Serve(k)
      PROVE  (got <= written /\ KnownInv /\ RowInv /\ LateInv)'
    <2>1. /\ pc = "rest" /\ Settle(k) /\ pc' = "gather"
          /\ UNCHANGED <<setup, child, got, written, pending, row, idle, scraper>>
        BY <1>7 DEF Serve, appVars
    <2>2. KnownInv'
        BY <1>1, <1>2, <2>1, SettleKnown
    <2>3. row = Nil /\ idle = 0
        BY <2>1 DEF GatherBase, ServeInv
    <2> QED BY <1>2, <2>1, <2>2, <2>3 DEF RowInv, LateInv
<1>8. CASE Final
    <2>1. /\ pc = "rest" /\ Settle("ack") /\ pc' = "rest"
          /\ UNCHANGED <<setup, child, got, written, pending, row, idle>>
        BY <1>8 DEF Final, appVars, serveVars
    <2>2. held' = Nil
        BY <2>1, SettleParts DEF GatherBase
    <2>3. KnownInv'
        BY <1>1, <1>2, <2>1, <2>2, SettleKnown
    <2>4. row = Nil /\ idle = 0
        BY <2>1 DEF GatherBase, ServeInv
    <2> QED BY <1>2, <2>1, <2>3, <2>4 DEF RowInv, LateInv
<1>9. ASSUME NEW err \in BOOLEAN, NEW found \in BOOLEAN, Gather(err, found)
      PROVE  (got <= written /\ KnownInv /\ RowInv /\ LateInv)'
    BY <1>1, <1>2, <1>9, GatherTwice
<1>10. CASE Sweep
    BY <1>1, <1>2, <1>10, SweepTwice
<1>11. ASSUME NEW o \in {"aborted", "processed", "seen", "missed"}, Respond(o)
       PROVE  (got <= written /\ KnownInv /\ RowInv /\ LateInv)'
    <2>1. pc' = "rest" /\ row' = Nil /\ idle' = 0
        BY <1>11 DEF Respond
    <2>2. got' <= written' /\ KnownInv'
        BY <1>1, <1>2, <1>11, RespondKnown
    <2> QED BY <2>1, <2>2 DEF RowInv, LateInv
<1> QED BY <1>3, <1>4, <1>5, <1>6, <1>7, <1>8, <1>9, <1>10, <1>11 DEF GatherNext

\* An exposer of increments: what the aggregator makes of a series never exceeds what was
\* written to it, whatever is lost, acknowledged late, cancelled, deleted or replaced.
THEOREM IncrementsNeverTwice == GatherSpec => [](opts.increments => NeverTwice)
<1>1. GatherInit => TwiceInv
    BY DEF GatherInit, TwiceInv, KnownInv, RowInv, LateInv
<1>2. GatherBase /\ TwiceInv /\ [GatherNext]_gatherVars => TwiceInv'
    BY TwiceInductive
<1>3. TwiceInv => (opts.increments => NeverTwice)
    BY DEF TwiceInv, NeverTwice
<1> QED BY <1>1, <1>2, <1>3, GatherInvariance, PTL DEF GatherSpec

-----------------------------------------------------------------------------
(* With increments, nothing is lost *)

\* What has reached the aggregator of a child that nobody else replaced is what its
\* entry has delivered: that in the state, the one handed over, or none.
ReachedOf == IF state # Nil THEN Delivered(state) ELSE IF IsHanded THEN Delivered(handed.en) ELSE 0
LEMMA ReachedIs ==
    GatherBase /\ Accumulates /\ ~blurred /\ child # Nil => Reached = ReachedOf
<1> SUFFICES ASSUME GatherBase, Accumulates, ~blurred, child # Nil PROVE Reached = ReachedOf
    OBVIOUS
<1> USE DEF GatherBase
<1> DEFINE en == EntryFor(child.num, child.v, round + 1)
<1>1. /\ en \in Entries
      /\ state # Nil => en = state
      /\ IsHanded => en.id = handed.en.id /\ en.value = handed.en.value
      /\ en.id = round + 1 => en.value = Zero
      /\ state = Nil /\ ~IsHanded => en.id = round + 1
    BY TakenOver
<1>2. Reached = Delivered(en)
    BY DEF Reached
<1> HIDE DEF en
<1>3. CASE state # Nil
    BY <1>1, <1>2, <1>3 DEF ReachedOf
<1>4. CASE state = Nil /\ IsHanded
    BY <1>1, <1>2, <1>4 DEF ReachedOf, Delivered
<1>5. CASE state = Nil /\ ~IsHanded
    <2>1. held # Nil => held.id # en.id
        BY <1>1, <1>5, Numbers DEF NumberInv
    <2> QED BY <1>1, <1>2, <1>5, <2>1 DEF ReachedOf, Delivered, Zero
<1> QED BY <1>3, <1>4, <1>5

LEMMA ReachedIsNext ==
    (GatherBase /\ Accumulates /\ ~blurred /\ child # Nil => Reached = ReachedOf)'
BY ReachedIs, PTL

\* A round that was processed is committed, and one that was not is rolled back: what
\* has been delivered stays what it is.
LEMMA SettleDelivers ==
    ASSUME Types, NEW k, Settle(k), ~excused', scraper' = scraper \/ held' = Nil
    PROVE  /\ state' = Nil <=> state = Nil
           /\ handed' = Nil <=> handed = Nil
           /\ state # Nil => Delivered(state)' = Delivered(state)
           /\ handed # Nil => /\ handed'.created = handed.created
                              /\ Delivered(handed.en)' = Delivered(handed.en)
<1>1. CASE held # Nil /\ Commits(k) /\ Commit(held) /\ held' = Nil
    <2>1. held.v \in Values
        BY <1>1 DEF Types, HeldRounds
    <2>2. scraper.processed = held.round
        <3>1. excused' = (excused \/ ((k = "plain" \/ ~scraper.had) /\ scraper.processed # held.round))
            BY <1>1 DEF Settle
        <3> QED BY <1>1, <3>1 DEF Commits
    <2>3. /\ state' = Nil <=> state = Nil
          /\ handed' = Nil <=> handed = Nil
          /\ state # Nil =>
                /\ state'.id = state.id
                /\ state'.value = IF state.id = held.id THEN held.v ELSE state.value
          /\ handed # Nil =>
                /\ handed'.created = handed.created /\ handed'.en.id = handed.en.id
                /\ handed'.en.value = IF handed.en.id = held.id THEN held.v ELSE handed.en.value
        BY <1>1, <2>1, CommitParts DEF Types
    <2> QED BY <1>1, <2>2, <2>3 DEF Delivered
<1>2. CASE UNCHANGED <<state, handed>> /\ held' = Nil /\ ~Commits(k) /\ held # Nil
    BY <1>2 DEF Delivered, Commits
<1>3. CASE UNCHANGED <<state, handed, held>>
    BY <1>3 DEF Delivered
<1> QED BY <1>1, <1>2, <1>3 DEF Settle

\* A delivered row is committed, or is counted from when it is held.
LEMMA RespondDelivers ==
    ASSUME Types, ServeInv, Accumulates, NEW o \in {"aborted", "processed", "seen", "missed"},
           Respond(o)
    PROVE  LET Now(en) == IF o = "processed" /\ pending # Nil /\ pending.id = en.id
                          THEN pending.v.n ELSE Delivered(en)
           IN /\ state' = Nil <=> state = Nil
              /\ handed' = Nil <=> handed = Nil
              /\ state # Nil => Delivered(state)' = Now(state)
              /\ handed # Nil => /\ handed'.created = handed.created
                                 /\ Delivered(handed.en)' = Now(handed.en)
<1>1. /\ pc = "respond" /\ scraper.processed < round /\ scraper.processed \in Nat /\ round \in Nat
      /\ scraper'.processed = IF o = "processed" THEN round ELSE scraper.processed
      /\ o = "processed" => request # "peek"
    BY DEF Respond, ServeInv, Types
<1>2. request = "plain" => held = Nil /\ o \in {"aborted", "processed"}
    <2>1. request = "plain" => ~setup.acks
        BY <1>1 DEF ServeInv, Requests
    <2> QED BY <1>1, <2>1 DEF Respond, ServeInv
<1>3. request = "ack" => held = Nil
    BY <1>1 DEF ServeInv
<1>4. CASE o = "aborted" \/ request = "peek"
    <2>1. /\ UNCHANGED <<state, handed>> /\ o # "processed"
          /\ held' = held
        BY <1>1, <1>2, <1>3, <1>4 DEF Respond
    <2> QED BY <1>1, <2>1 DEF Delivered
<1>5. CASE o # "aborted" /\ request = "plain"
    <2>1. held = Nil /\ held' = Nil /\ o = "processed" /\ Commit(pending)
        BY <1>2, <1>5 DEF Respond
    <2>2. pending = Nil \/ pending.v \in Values
        BY DEF Types, Pendings
    <2> QED BY <2>1, <2>2, CommitParts DEF Delivered, Types
<1>6. CASE o # "aborted" /\ request = "ack"
    <2>1. /\ held = Nil /\ UNCHANGED <<state, handed>>
          /\ held' = [round |-> round, v |-> IF pending = Nil THEN Zero ELSE pending.v,
                      id |-> IF pending = Nil THEN 0 ELSE pending.id]
        BY <1>3, <1>6 DEF Respond
    <2>2. held' # Nil
        BY <2>1, NilAssumption, Numbers DEF HeldRounds, Types, Zero, Values, Pendings
    <2>3. ASSUME NEW en \in Entries
          PROVE  held'.id = en.id <=> (pending # Nil /\ pending.id = en.id)
        BY <2>1 DEF Entries
    <2>4. /\ state # Nil => state \in Entries
          /\ handed # Nil => handed.en \in Entries
        BY Numbers
    <2>5. scraper'.processed = held'.round <=> o = "processed"
        BY <1>1, <2>1
    <2>6. pending # Nil => held'.v = pending.v
        BY <2>1
    <2> QED BY <2>1, <2>2, <2>3, <2>4, <2>5, <2>6 DEF Delivered
<1> QED BY <1>4, <1>5, <1>6 DEF Types

\* What is written is what the aggregator has, what it will be told, and what went
\* unreported with an instance.
Counted == got + lost + (IF child = Nil THEN 0 ELSE child.v.n - ReachedOf) = written

LEMMA RowExactInductive ==
    ASSUME GatherBase, GatherBase', Accumulates, Carried, opts.increments, RowExact,
           [GatherNext]_gatherVars
    PROVE  RowExact'
<1> USE DEF GatherBase
<1>1. CASE Write
    <2>1. child' # Nil
        BY <1>1, WriteParts
    <2> QED BY <1>1, <2>1 DEF Write, entryVars, serveVars, RowExact
<1>2. CASE AppDelete
    <2>1. /\ ~blurred' => state = Nil /\ ~blurred
          /\ UNCHANGED <<state, handed, row, pending>>
        BY <1>2 DEF AppDelete, entryVars, serveVars, Types
    <2> QED BY <2>1 DEF RowExact
<1>3. CASE row' = Nil
    BY <1>3 DEF RowExact
<1>4. CASE Replace \/ Final \/ GatherFails
    <2>1. row' = Nil
        BY <1>4 DEF Replace, Final, GatherFails, serveVars, ServeInv
    <2> QED BY <1>3, <2>1
<1>5. CASE Tick \/ UNCHANGED gatherVars
    BY <1>5 DEF Tick, gatherVars, appVars, entryVars, serveVars, RowExact
<1>6. ASSUME NEW k \in {"plain", "ack", "peek"}, Serve(k) PROVE RowExact'
    <2>1. row' = Nil
        BY <1>6 DEF Serve, ServeInv
    <2> QED BY <1>3, <2>1
<1>7. ASSUME NEW err \in BOOLEAN, NEW found \in BOOLEAN, Gather(err, found) PROVE RowExact'
    <2>1. CASE found /\ row' # Nil
        <3> DEFINE en == EntryFor(child.num, child.v, round + 1)
        <3>1. /\ child # Nil /\ child' = child /\ state' \in Entries
              /\ state'.id = en.id /\ pending'.id = en.id
              /\ state'.value = IF kind = "summary" THEN child.v ELSE en.value
              /\ pending'.v.n = child.v.n /\ row'.v = Minus(child.v, en.value)
            BY <1>7, <2>1, GatherFound
        <3> HIDE DEF en
        <3>2. state'.value = en.value /\ state' # Nil
            BY <3>1, NilAssumption DEF Accumulates
        <3>3. row'.v.n = pending'.v.n - state'.value.n
            BY <3>1, <3>2 DEF Minus
        <3>4. handed' # Nil /\ handed'.en.id = pending'.id => handed'.en.value = state'.value
            <4>1. Accumulates' = Accumulates
                BY SetupKept DEF Accumulates, kind
            <4> QED BY <3>1, <3>2, <4>1 DEF EntryInv
        <3> QED BY <3>1, <3>2, <3>3, <3>4 DEF RowExact
    <2>2. CASE ~found
        BY <1>3, <1>7, <2>2 DEF Gather
    <2> QED BY <1>3, <2>1, <2>2
<1>8. CASE Sweep
    <2>1. /\ UNCHANGED <<row, pending, blurred>> /\ pc = "sweep"
        BY <1>8 DEF Sweep
    <2>2. CASE idle # 0 /\ request # "peek"
        <3>1. state # Nil /\ state \in Entries
            BY <2>1, <2>2 DEF IdleInv, Types
        <3>2. state' # Nil => state'.id = state.id /\ state'.value = state.value
            BY <1>8, <2>2, <3>1 DEF Sweep, DeleteFromVec, DeleteByCallback, Entries
        <3>3. handed' = handed \/ handed'.en = state
            BY <1>8, <2>2 DEF Sweep, DeleteFromVec, DeleteByCallback
        <3>4. row # Nil => row.v.n = 0
            BY <2>2 DEF IdleInv
        <3> QED BY <2>1, <3>1, <3>2, <3>3, <3>4 DEF RowExact
    <2>3. CASE state' = state /\ UNCHANGED <<child, handed>>
        BY <2>1, <2>3 DEF RowExact
    <2>4. CASE idle = 0 /\ complete /\ state # Nil /\ round - state.last > opts.idle /\ opts.idle > 0
        <3>1. state.last # round
            BY <2>4, SetupTypes DEF Types, Entries
        <3>2. row' = Nil
            BY <2>1, <2>4, <3>1 DEF ServeInv
        <3> QED BY <1>3, <3>2
    <2> QED BY <1>8, <2>2, <2>3, <2>4 DEF Sweep
<1>9. ASSUME NEW o \in {"aborted", "processed", "seen", "missed"}, Respond(o) PROVE RowExact'
    BY <1>3, <1>9 DEF Respond
<1> QED BY <1>1, <1>2, <1>4, <1>5, <1>6, <1>7, <1>8, <1>9 DEF GatherNext

LEMMA CountedInductive ==
    ASSUME GatherBase, Accumulates, Carried, opts.increments, RowExact,
           ~blurred /\ ~excused => Counted, [GatherNext]_gatherVars, ~blurred', ~excused'
    PROVE  Counted'
<1> USE DEF GatherBase
<1>0. /\ got \in Int /\ written \in Int /\ lost \in Int /\ ReachedOf \in Nat
      /\ child # Nil => child.v.n \in Nat
    BY Numbers DEF ReachedOf, IsHanded
<1>1. CASE Write
    <2>1. /\ child' # Nil /\ written' = written + 1
          /\ child = Nil => child'.num = made + 1 /\ child'.v.n = 1
          /\ child # Nil => child'.num = child.num /\ child'.v.n = child.v.n + 1
        BY <1>1, WriteParts DEF Accumulates
    <2>2. UNCHANGED <<setup, state, handed, held, scraper, got, lost, blurred, excused, round>>
        BY <1>1 DEF Write, entryVars, serveVars, aggVars
    <2>3. child # Nil => ReachedOf' = ReachedOf
        BY <2>1, <2>2 DEF ReachedOf, Delivered, IsHanded
    <2>4. child = Nil => ReachedOf' = 0
        <3>1. child = Nil => state = Nil
            BY <2>2 DEF ServeInv
        <3>2. child = Nil => ~IsHanded'
            BY <2>1, <2>2 DEF IsHanded, NumberInv, Types, HandedOver
        <3> QED BY <2>2, <3>1, <3>2 DEF ReachedOf
    <2>5. Counted
        BY <2>2
    <2>6. CASE child = Nil
        BY <1>0, <2>1, <2>2, <2>4, <2>5, <2>6 DEF Counted
    <2>7. CASE child # Nil
        <3>1. child'.v.n - ReachedOf' = child.v.n - ReachedOf + 1
            BY <1>0, <2>1, <2>3, <2>7
        <3>2. got + lost + (child.v.n - ReachedOf) = written /\ child.v.n - ReachedOf \in Int
            BY <1>0, <2>5, <2>7 DEF Counted
        <3>3. got' + lost' + (child'.v.n - ReachedOf') = written'
            BY <1>0, <2>1, <2>2, <3>1, <3>2
        <3> QED BY <2>1, <3>3 DEF Counted
    <2> QED BY <2>6, <2>7
<1>2. CASE AppDelete
    <2>1. /\ child' = Nil /\ child # Nil /\ state = Nil /\ handed = Nil /\ ~blurred /\ ~excused
          /\ lost' = lost + child.v.n /\ UNCHANGED <<got, written>>
        BY <1>2 DEF AppDelete, aggVars, Types
    <2>2. ReachedOf = 0
        BY <2>1 DEF ReachedOf, IsHanded
    <2> QED BY <1>0, <2>1, <2>2 DEF Counted
<1>3. CASE Replace
    BY <1>0, <1>3 DEF Replace, aggVars, Counted
<1>4. CASE Tick \/ GatherFails \/ UNCHANGED gatherVars
    BY <1>4 DEF Tick, GatherFails, gatherVars, appVars, entryVars, aggVars, Counted, ReachedOf,
                Delivered, IsHanded
<1>5. ASSUME NEW k, Settle(k), scraper' = scraper \/ held' = Nil,
             UNCHANGED <<child, got, lost, written, blurred>>
      PROVE  Counted'
    <2>1. ~blurred /\ ~excused
        BY <1>5 DEF Settle, Types
    <2>2. /\ state' = Nil <=> state = Nil
          /\ state # Nil => Delivered(state)' = Delivered(state)
          /\ IsHanded' <=> IsHanded
          /\ IsHanded => Delivered(handed.en)' = Delivered(handed.en)
        BY <1>5, SettleDelivers DEF IsHanded
    <2>3. ReachedOf' = ReachedOf
        BY <2>2 DEF ReachedOf
    <2> QED BY <1>5, <2>1, <2>3 DEF Counted
<1>6. ASSUME NEW k \in {"plain", "ack", "peek"}, Serve(k) PROVE Counted'
    BY <1>5, <1>6 DEF Serve, appVars
<1>7. CASE Final
    <2>1. held' = Nil
        BY <1>7, SettleParts DEF Final
    <2> QED BY <1>5, <1>7, <2>1 DEF Final, appVars
<1>8. ASSUME NEW err \in BOOLEAN, NEW found \in BOOLEAN, Gather(err, found) PROVE Counted'
    <2>1. UNCHANGED <<child, got, written, held, scraper>> /\ ~excused
        BY <1>8 DEF Gather, aggVars
    <2>2. CASE found
        <3> DEFINE en == EntryFor(child.num, child.v, round + 1)
        <3>1. /\ child # Nil /\ en \in Entries /\ state' \in Entries /\ state'.id = en.id
              /\ state'.value = IF kind = "summary" THEN child.v ELSE en.value
              /\ blurred' = (blurred /\ (en.id # round + 1 \/ ~opts.increments))
              /\ lost' = IF blurred /\ ~blurred' THEN written - got - child.v.n ELSE lost
            BY <1>8, <2>2, GatherFound
        <3>2. /\ ~blurred /\ state # Nil => en = state
              /\ IsHanded => en.id = handed.en.id /\ en.value = handed.en.value
              /\ en.id = round + 1 => en.value = Zero
              /\ state = Nil /\ ~IsHanded => en.id = round + 1
            BY <3>1, TakenOver DEF en
        <3> HIDE DEF en
        <3>3. state' # Nil /\ state'.value = en.value
            BY <3>1, NilAssumption DEF Accumulates
        <3>4. ReachedOf' = Delivered(en)
            BY <2>1, <3>1, <3>3 DEF ReachedOf, Delivered
        <3>5. en.id = round + 1 => Delivered(en) = 0
            <4>1. held # Nil => held.id # round + 1
                BY Numbers DEF NumberInv
            <4> QED BY <3>2, <4>1 DEF Delivered, Zero
        <3>6. CASE blurred
            <4>1. en.id = round + 1 /\ lost' = written - got - child.v.n
                BY <3>1, <3>6
            <4> QED BY <1>0, <2>1, <3>1, <3>4, <3>5, <4>1 DEF Counted
        <3>7. CASE ~blurred
            <4>1. Delivered(en) = ReachedOf
                <5>1. CASE state # Nil
                    BY <3>2, <3>7, <5>1 DEF ReachedOf
                <5>2. CASE state = Nil /\ IsHanded
                    BY <3>2, <5>2 DEF ReachedOf, Delivered
                <5>3. CASE state = Nil /\ ~IsHanded
                    BY <3>2, <3>5, <5>3 DEF ReachedOf
                <5> QED BY <5>1, <5>2, <5>3
            <4>2. lost' = lost
                BY <3>1, <3>7
            <4> QED BY <2>1, <3>4, <3>7, <4>1, <4>2 DEF Counted
        <3> QED BY <3>6, <3>7
    <2>3. CASE ~found
        <3>1. UNCHANGED <<state, lost, blurred>> /\ (child = Nil \/ handed' = handed)
            BY <1>8, <2>3 DEF Gather
        <3>2. child # Nil => ReachedOf' = ReachedOf
            BY <2>1, <3>1 DEF ReachedOf, Delivered, IsHanded
        <3> QED BY <2>1, <3>1, <3>2 DEF Counted
    <2> QED BY <2>2, <2>3
<1>9. CASE Sweep
    <2>1. UNCHANGED <<got, written, held, scraper, blurred, excused>> /\ ~blurred /\ pc = "sweep"
        BY <1>9 DEF Sweep, aggVars
    <2>2. CASE DeleteFromVec /\ request # "peek" /\ idle # 0
        <3>1. lost' = lost /\ handed' = handed /\ state # Nil /\ child # Nil
            BY <2>1, <2>2 DEF DeleteFromVec, IdleInv
        <3>2. CASE child' = Nil
            <4>1. child.v.n = Reached
                BY <1>9, <2>1, <2>2, <3>1, <3>2, SafeStep DEF DeleteFromVec
            <4>2. Reached = ReachedOf
                BY <2>1, <3>1, ReachedIs
            <4> QED BY <1>0, <2>1, <3>1, <3>2, <4>1, <4>2 DEF Counted
        <3>3. CASE UNCHANGED <<child, state>>
            BY <2>1, <3>1, <3>3 DEF Counted, ReachedOf, Delivered, IsHanded
        <3> QED BY <2>2, <3>1, <3>2, <3>3 DEF DeleteFromVec
    <2>3. CASE DeleteByCallback /\ request # "peek" /\ idle # 0
        <3>1. /\ handed' = [en |-> state, created |-> idle] /\ state' = Nil /\ state # Nil
              /\ child # Nil /\ child.num = idle
            BY <2>1, <2>3 DEF DeleteByCallback, IdleInv, CreatedOf, Accumulates
        <3>2. Reached = ReachedOf
            BY <2>1, <3>1, ReachedIs
        <3>3. CASE child' = Nil /\ lost' = lost + child.v.n - Reached
            BY <1>0, <2>1, <3>1, <3>2, <3>3 DEF Counted
        <3>4. CASE UNCHANGED <<child, lost>>
            <4>1. IsHanded' /\ handed'.en = state
                BY <3>1, <3>4, NilAssumption DEF IsHanded, Types, HandedOver
            <4>2. ReachedOf' = ReachedOf
                BY <2>1, <3>1, <4>1 DEF ReachedOf, Delivered
            <4> QED BY <2>1, <3>4, <4>2 DEF Counted
        <3> QED BY <2>3, <3>3, <3>4 DEF DeleteByCallback
    <2>4. CASE UNCHANGED <<child, state, handed, lost>>
        BY <2>1, <2>4 DEF Counted, ReachedOf, Delivered, IsHanded
    <2>5. CASE idle = 0 /\ complete /\ state # Nil /\ round - state.last > opts.idle /\ opts.idle > 0
        <3>1. state.last # round
            BY <2>5, SetupTypes DEF Types, Entries
        <3> QED BY <2>1, <2>5, <3>1 DEF ServeInv
    <2> QED BY <1>9, <2>2, <2>3, <2>4, <2>5 DEF Sweep
<1>10. ASSUME NEW o \in {"aborted", "processed", "seen", "missed"}, Respond(o) PROVE Counted'
    <2>1. /\ UNCHANGED <<child, written, lost, blurred, excused>> /\ ~blurred /\ ~excused
          /\ got' = IF o = "processed" /\ row # Nil THEN got + row.v.n ELSE got
        BY <1>10 DEF Respond, Consume, appVars
    <2>2. /\ (row = Nil <=> pending = Nil)
          /\ row # Nil => row.v.n \in Int
          /\ row # Nil => pending.v.n \in Nat
        BY Numbers DEF ServeInv
    <2>3. row # Nil =>
              /\ state # Nil /\ state.id = pending.id => row.v.n = pending.v.n - state.value.n
              /\ handed # Nil /\ handed.en.id = pending.id => row.v.n = pending.v.n - handed.en.value.n
              /\ row.v.n # 0 => child # Nil /\ state # Nil /\ state.id = pending.id
        BY <2>1 DEF RowExact
    <2>4. o = "processed" => held = Nil
        BY <1>10 DEF Respond, ServeInv
    <2> DEFINE Now(en) == IF o = "processed" /\ pending # Nil /\ pending.id = en.id
                          THEN pending.v.n ELSE Delivered(en)
    <2>5. /\ state' = Nil <=> state = Nil
          /\ handed' = Nil <=> handed = Nil
          /\ state # Nil => Delivered(state)' = Now(state)
          /\ handed # Nil => /\ handed'.created = handed.created
                             /\ Delivered(handed.en)' = Now(handed.en)
        BY <1>10, RespondDelivers
    <2>6. IsHanded' <=> IsHanded
        BY <2>1, <2>5 DEF IsHanded
    <2>7. o = "processed" => \A en : Delivered(en) = en.value.n
        BY <2>4 DEF Delivered
    <2>8. ReachedOf' = IF o = "processed" /\ row # Nil THEN ReachedOf + row.v.n ELSE ReachedOf
        <3>1. CASE state # Nil
            <4>1. ReachedOf' = Now(state) /\ ReachedOf = Delivered(state) /\ state.value.n \in Nat
                BY <2>5, <3>1, Numbers DEF ReachedOf
            <4> QED BY <2>2, <2>3, <2>7, <3>1, <4>1
        <3>2. CASE state = Nil /\ IsHanded
            <4>1. ReachedOf' = Now(handed.en) /\ ReachedOf = Delivered(handed.en) /\ handed # Nil
                  /\ handed.en.value.n \in Nat
                BY <2>5, <2>6, <3>2, Numbers DEF ReachedOf, IsHanded
            <4> QED BY <2>2, <2>3, <2>7, <3>2, <4>1
        <3>3. CASE state = Nil /\ ~IsHanded
            BY <2>3, <2>5, <2>6, <3>3 DEF ReachedOf
        <3> QED BY <3>1, <3>2, <3>3
    <2>9. child = Nil => got' = got
        BY <1>0, <2>1, <2>3
    <2> QED BY <1>0, <2>1, <2>2, <2>8, <2>9 DEF Counted
<1> QED BY <1>1, <1>2, <1>3, <1>4, <1>6, <1>7, <1>8, <1>9, <1>10 DEF GatherNext

\* What Conserved says of the child is what Counted says of its entry.
LEMMA ConservedIs ==
    GatherBase /\ Accumulates /\ Carried => (Conserved <=> (~blurred /\ ~excused => Counted))
BY ReachedIs DEF Conserved, Counted

LEMMA ConservedIsNext ==
    (GatherBase /\ Accumulates /\ Carried => (Conserved <=> (~blurred /\ ~excused => Counted)))'
BY ConservedIs, PTL

LEMMA ConservedInductive ==
    ASSUME GatherBase, GatherBase', ConservedInv, [GatherNext]_gatherVars
    PROVE  ConservedInv'
<1>1. SUFFICES ASSUME Accumulates, Carried, opts.increments PROVE (RowExact /\ Conserved)'
    BY SetupKept DEF ConservedInv, Accumulates, Carried, kind, opts
<1>2. RowExact /\ (~blurred /\ ~excused => Counted)
    BY <1>1, ConservedIs DEF ConservedInv
<1>3. RowExact'
    BY <1>1, <1>2, RowExactInductive
<1>4. ~blurred' /\ ~excused' => Counted'
    BY <1>1, <1>2, CountedInductive
<1>5. Accumulates' /\ Carried'
    BY <1>1, SetupKept DEF Accumulates, Carried, kind, opts
<1> QED BY <1>3, <1>4, <1>5, ConservedIsNext

\* An exposer of increments: of what is written to a series, nothing is lost but what an
\* instance took with it that someone else deleted.
THEOREM IncrementsConserved == GatherSpec => [](opts.increments => Conserved)
<1>1. GatherInit => ConservedInv
    BY DEF GatherInit, ConservedInv, RowExact, Conserved
<1>2. GatherBase /\ GatherBase' /\ ConservedInv /\ [GatherNext]_gatherVars => ConservedInv'
    BY ConservedInductive
<1>3. ConservedInv => (opts.increments => Conserved)
    BY DEF ConservedInv, Conserved
<1> QED BY <1>1, <1>2, <1>3, GatherInvariance, PTL DEF GatherSpec

=============================================================================
